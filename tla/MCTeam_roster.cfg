SPECIFICATION MCSpec
CONSTANTS
    o1 = o1  o2 = o2  s1 = s1  v1 = v1
    NoOne = NoOne
    Accounts = {o1, o2, s1}
    Registered = {o1, o2}
    Venues = {v1}
    Requests = {r1, r2}
    Handlers = {"register", "createStaff", "deactivate", "profile", "reset", "assign", "unassign", "createVenue", "updateVenue", "deleteVenue", "work"}
SYMMETRY Interchangeable
INVARIANTS
    RemovedStaysOut VenueStaysRemoved LoggedVenueIsWhole
