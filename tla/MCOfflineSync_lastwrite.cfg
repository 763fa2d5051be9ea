SPECIFICATION MCSpec
CONSTANTS
    None = None
    Phones = {p1, p2}
    Requests = {r1, r2}
    Day = 1
    Cooldown = 2
    Horizon = 3
    MaxActions = 2
    MaxSaves = 2
    Handlers = {"queue", "status", "delta", "save", "unsave", "state", "checkIn"}
CONSTRAINT Followed
SYMMETRY Interchangeable
INVARIANTS
    LastWriteWins
