SPECIFICATION Spec
CONSTANTS
    a = a  b = b  g = g  e1 = e1
    Users = {a}
    NoEmail = NoEmail
    EmailOf <- Addresses
    Requests = {r1, r2}
    Handlers = {"register", "changePassword", "refresh"}
    MaxPassword = 2
    MaxSessions = 2
    MaxRestarts = 0
CHECK_DEADLOCK FALSE
INVARIANTS
    ChangeEndsDescendants
