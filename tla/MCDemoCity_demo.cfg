SPECIFICATION MCSpec
CONSTANTS
    Venues = {0, 3}
    Jobs = {j1, j2}
    j1 = j1
    j2 = j2
    Followed = {0}
    Scenarios = {"peak-transition"}
    Hours = {1}
    Scores = {1}
    Kinds = {"simulate", "reset", "check", "redeem", "createCity", "updateCity", "deleteCity", "rename"}
    MaxJobs = 2
    MaxStops = 3
INVARIANTS ScoreFollowsChecks
PROPERTIES BootLeavesItWhole ResetRestores
SYMMETRY AnyJob
CHECK_DEADLOCK FALSE
