SPECIFICATION Spec
CONSTANTS
    a = a  b = b  g = g  e1 = e1
    Users = {a, b, g}
    NoEmail = NoEmail
    EmailOf <- Addresses
    Requests = {r1, r2}
    Handlers = {"register", "social", "guest", "login", "logout", "refresh", "changePassword", "resetPassword", "verifyEmail", "profile", "deleteAccount"}
    MaxPassword = 2
    MaxSessions = 1
    MaxRestarts = 1
SYMMETRY Interchangeable
CHECK_DEADLOCK FALSE
INVARIANTS
    OneAccountPerEmail
PROPERTIES
    EndedStaysEnded
