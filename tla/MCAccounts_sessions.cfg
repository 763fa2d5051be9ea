SPECIFICATION FewSpec
CONSTANTS
    a = a  b = b  g = g  e1 = e1
    Users = {a}
    NoEmail = NoEmail
    EmailOf <- Addresses
    Requests = {r1, r2}
    Handlers = {"register", "login", "logout", "refresh", "changePassword", "resetPassword"}
    MaxPassword = 3
    MaxSessions = 3
    MaxRestarts = 1
CHECK_DEADLOCK FALSE
INVARIANTS
    PasswordSticks SpentTokenHasACause ChangeEndsSessions
PROPERTIES
    ChangeSettles
