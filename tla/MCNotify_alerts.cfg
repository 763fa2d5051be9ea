SPECIFICATION MCSpec
CONSTANTS
    u1 = u1  u2 = u2  alert = alert  v1 = v1  v2 = v2  t1 = t1  t2 = t2
    NoOne = NoOne
    Users = {u1, u2}
    Kinds = {alert}
    Venues = {v1, v2}
    Tokens = {t1, t2}
    Requests = {r1, r2}
    Day = 3
    QuietHours <- Nights
    DedupeWindow = 1
    Hour = 1
    Cooldown = 2
    MaxPerHour = 2
    Horizon = 2
    MaxBoots = 2
    MaxLogs = 3
    Handlers = {"announce", "update", "read", "register", "geofence"}
SYMMETRY Interchangeable
INVARIANTS
    RepeatPushHasACause UnwantedPushHasACause StrayPushHasACause RepeatNoticeHasACause
