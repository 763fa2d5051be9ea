SPECIFICATION MCSpec
CONSTANTS
    s1 = s1  s2 = s2  u1 = u1  v1 = v1  p1 = p1
    Sockets = {s1, s2}
    Users = {u1}
    NoUser = NoUser
    Venues = {v1}
    Places = {p1}
    Asks <- Screens
    Requests = {r1, r2}
    Streams = {f1}
    Items = {i1}
    NoItem = NoItem
    NameKey <- InTown
    SlugKey <- InTown
    Followers <- Saved
    Handlers = {"owner", "worker", "sync", "demo", "offer", "info", "whatson"}
    MaxUpdates = 2
    MaxFailures = 1
CHECK_DEADLOCK FALSE
SYMMETRY Interchangeable
INVARIANTS
    GatewayAgrees
    StaleRoomHasACause StaleStreamHasACause AlertsArrive
