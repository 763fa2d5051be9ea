-------------------------------- MODULE Notify --------------------------------
(***************************************************************************)
(* Push alerts and proximity notices: the device tokens of each user, what *)
(* each wants to be told, the alert that goes out to the users who saved a *)
(* venue, and the check a phone asks for when it moves.  The cache that    *)
(* suppresses repeated pushes is in memory; devices, preferences and the   *)
(* log of proximity notices are tables.  Every awaited call is an action.  *)
(***************************************************************************)
EXTENDS Integers, Sequences, FiniteSets

CONSTANTS
    Users,
    NoOne,
    Kinds,          \* the notification types a preference can switch off
    Venues,
    Tokens,         \* FCM tokens, one for each installed app
    Requests,       \* the requests the server can work on at once
    QuietHours,     \* the pairs of hours a user may ask to be left alone
    Day,            \* ticks in a day
    DedupeWindow,   \* dedupeWindowMs, in ticks
    Hour,           \* the time MAX_NOTIFICATIONS_PER_HOUR counts over
    Cooldown,       \* VENUE_COOLDOWN_HOURS, in ticks
    MaxPerHour,
    Horizon,        \* bound: where the clock stops
    MaxBoots,       \* bound: how often the server is started
    MaxLogs,        \* bound: rows of geofence_logs
    Handlers        \* the endpoints in use

ASSUME NotifyAssumption ==
    /\ NoOne \notin Users
    /\ Day \in Nat \ {0} /\ QuietHours \subseteq (0 .. Day - 1) \X (0 .. Day - 1)
    /\ DedupeWindow \in Nat \ {0} /\ MaxPerHour \in Nat \ {0}
    /\ Hour \in Nat /\ Cooldown \in Nat /\ Hour <= Cooldown
    /\ Horizon \in Nat /\ MaxBoots \in Nat \ {0} /\ MaxLogs \in Nat

VARIABLES
    clock,
    boot,        \* how often the server was started
    prefs,       \* the notification_preferences table
    device,      \* the devices table, by token
    expires,     \* dedupeCache: until when a push counts as a duplicate
    logs,        \* the geofence_logs table
    req,         \* what each request is about to do, and what it has read
    promised,    \* history: the preferences each user was last answered
    crossed,     \* history: users with two overlapping writes of preferences
    swallowed,   \* history: users whose update failed and was answered as saved
    unwanted,    \* history: pushes that arrived against what their user was answered
    last,        \* history: the last push of each user and topic
    repeats,     \* history: why a push was repeated within the window
    moved,       \* history: tokens whose row changed since a request listed it
    strays,      \* history: pushes to a device that is not its user's, and why
    told,        \* history: when a user was last told of being near a venue
    retold       \* history: why one was told again within the cooldown

tables == <<prefs, device, logs>>
pushHistory == <<unwanted, last, repeats, moved, strays>>
prefHistory == <<promised, crossed, swallowed>>
geoHistory == <<told, retold>>
vars == <<clock, boot, tables, expires, req, pushHistory, prefHistory, geoHistory>>

Someone == Users \cup {NoOne}
Topics == Kinds \X Venues
Keys == Users \X Topics

Row == [muted : SUBSET Kinds, quiet : QuietHours \cup {<<0, 0>>}]
NoRow == [none |-> TRUE]
Defaults == [muted |-> {}, quiet |-> <<0, 0>>]

\* A body of PUT users/notification-preferences: one of the fields of the row.
Dto == [field : {"muted"}, is : SUBSET Kinds] \cup [field : {"quiet"}, is : QuietHours]

Steps == {"idle", "find", "save", "check", "insert", "list", "send", "drop",
          "limit", "cooldown", "notice", "log"}

\* user: whom it is about; rest: users or venues still to do; left: tokens still
\* to send to; got: whether a push of it arrived; rival: whether another was
\* under way for the same thing; forbade (history): whether its user had asked
\* for no such push when the preferences passed it; copy: the row it read.
Idle == [kind |-> "none", at |-> "idle", user |-> NoOne, topic |-> NoOne,
         token |-> NoOne, rest |-> {}, left |-> {}, got |-> FALSE,
         rival |-> FALSE, forbade |-> FALSE, copy |-> NoRow, dto |-> NoRow]

Request == [kind : {"none", "update", "read", "register", "announce", "geofence"},
            at : Steps, user : Someone, topic : Topics \cup {NoOne},
            token : Tokens \cup Venues \cup {NoOne},
            rest : (SUBSET Users) \cup (SUBSET Venues), left : SUBSET Tokens,
            got : BOOLEAN, rival : BOOLEAN, forbade : BOOLEAN,
            copy : Row \cup {NoRow}, dto : Dto \cup {NoRow}]

NeverPushed == [at |-> -1, boot |-> 0, broken |-> FALSE]
NeverTold == [at |-> -1, logged |-> FALSE]

TypeOK ==
    /\ clock \in 0 .. Horizon /\ boot \in 1 .. MaxBoots
    /\ prefs \in [Users -> Row \cup {NoRow}]
    /\ device \in [Tokens -> [user : Someone, active : BOOLEAN]]
    /\ expires \in [Keys -> -1 .. Horizon + DedupeWindow]
    /\ logs \in Seq([user : Users, venue : Venues, at : 0 .. Horizon])
    /\ req \in [Requests -> Request]
    /\ promised \in [Users -> Row \cup {NoRow}]
    /\ unwanted \subseteq [user : Users, forbade : BOOLEAN]
    /\ crossed \subseteq Users /\ swallowed \subseteq Users
    /\ last \in [Keys -> [at : -1 .. Horizon, boot : 0 .. MaxBoots, broken : BOOLEAN]]
    /\ moved \in [Requests -> SUBSET Tokens]
    /\ told \in [Users -> [Venues -> [at : -1 .. Horizon, logged : BOOLEAN]]]

\* The tables the server starts from: InitWith gives the rows there are already.
InitWith(rows, devices) ==
    /\ clock = 0 /\ boot = 1
    /\ prefs = rows /\ device = devices
    /\ expires = [k \in Keys |-> -1]
    /\ logs = <<>>
    /\ req = [r \in Requests |-> Idle]
    /\ promised = [u \in Users |-> NoRow]
    /\ crossed = {} /\ swallowed = {} /\ unwanted = {}
    /\ last = [k \in Keys |-> NeverPushed]
    /\ repeats = {} /\ strays = {} /\ retold = {}
    /\ moved = [r \in Requests |-> {}]
    /\ told = [u \in Users |-> [v \in Venues |-> NeverTold]]

NoDevices == [t \in Tokens |-> [user |-> NoOne, active |-> FALSE]]

Init == InitWith([u \in Users |-> NoRow], NoDevices)
-------------------------------------------------------------------------------
(* Helpers. *)

At(r, kinds, step) == req[r].kind \in kinds /\ req[r].at = step
Finish(r) == req' = [req EXCEPT ![r] = Idle]
Goto(r, step) == req' = [req EXCEPT ![r].at = step]

Start(r, q) ==
    /\ q.kind \in Handlers /\ req[r] = Idle
    /\ req' = [req EXCEPT ![r] = q]
    /\ UNCHANGED <<clock, boot, tables, expires, pushHistory, prefHistory, geoHistory>>

\* A slip: the window over midnight is tested like one within a day.
InQuietHoursOfOneDay(q, now) == now >= q[1] /\ now < q[2]

\* shouldSendPush's window, over midnight or within a day.
InQuietHours(q, now) ==
    IF q[1] > q[2] THEN now >= q[1] \/ now < q[2] ELSE now >= q[1] /\ now < q[2]

Refuses(row, kind) == kind \in row.muted \/ InQuietHours(row.quiet, clock % Day)

IsDuplicate(k) == expires[k] >= clock

\* The hours from one to the other, and whether a user asked for no such push now.
HoursOf(q) == {(q[1] + i) % Day : i \in 0 .. ((q[2] - q[1]) % Day) - 1}

AskedNot(u, kind) ==
    promised[u] # NoRow /\ (kind \in promised[u].muted
                              \/ clock % Day \in HoursOf(promised[u].quiet))

\* Another request holds an older copy of the row this one writes.
Crossing(r) ==
    {u \in {req[r].user} :
        \E q \in Requests \ {r} : req[q].user = u /\ req[q].at \in {"save", "insert"}
                                  /\ req[q].kind # "register"}

\* Only requests that have listed the token and not yet sent to it matter.
Changed(t) ==
    moved' = [r \in Requests |->
                 IF t \in req[r].left THEN moved[r] \cup {t} ELSE moved[r]]

Recent(u, since) == {i \in DOMAIN logs : logs[i].user = u /\ logs[i].at > since}
-------------------------------------------------------------------------------
(* PUT and GET users/notification-preferences. *)

UpdateStart(r) ==
    \E u \in Users, d \in Dto :
        Start(r, [Idle EXCEPT !.kind = "update", !.at = "find", !.user = u, !.dto = d])

\* A stored row is merged with the body, a new one is made of it.
FindToUpdate(r) ==
    /\ At(r, {"update"}, "find")
    /\ LET row == prefs[req[r].user]
       IN  req' = [req EXCEPT ![r].at = "save", ![r].copy = row]
    /\ UNCHANGED <<clock, boot, tables, expires, pushHistory, prefHistory, geoHistory>>

Merged(r) ==
    LET old == IF req[r].copy = NoRow THEN Defaults ELSE req[r].copy
        new == req[r].dto
    IN  IF new.field = "muted" THEN [old EXCEPT !.muted = new.is]
                               ELSE [old EXCEPT !.quiet = new.is]

\* userId is unique, so the insert of a second row fails; whatever fails here,
\* the caller is answered the row it asked for.
SaveUpdate(r) ==
    /\ At(r, {"update"}, "save")
    /\ LET u == req[r].user
       IN  /\ promised' = [promised EXCEPT ![u] = Merged(r)]
           /\ \/ /\ req[r].copy # NoRow \/ prefs[u] = NoRow
                 /\ prefs' = [prefs EXCEPT ![u] = Merged(r)]
                 /\ crossed' = crossed \cup Crossing(r)
                 /\ UNCHANGED swallowed
              \/ /\ req[r].copy = NoRow /\ prefs[u] # NoRow
                 /\ UNCHANGED <<prefs, crossed, swallowed>>
              \/ /\ swallowed' = swallowed \cup {u}
                 /\ UNCHANGED <<prefs, crossed>>
    /\ Finish(r)
    /\ UNCHANGED <<clock, boot, device, logs, expires, pushHistory, geoHistory>>

ReadStart(r) ==
    \E u \in Users :
        Start(r, [Idle EXCEPT !.kind = "read", !.at = "check", !.user = u])

FindToRead(r) ==
    /\ At(r, {"read"}, "check")
    /\ IF prefs[req[r].user] = NoRow THEN Goto(r, "insert") ELSE Finish(r)
    /\ UNCHANGED <<clock, boot, tables, expires, pushHistory, prefHistory, geoHistory>>

\* getPreferences makes the row a user does not have yet.
InsertDefaults(r) ==
    LET u == req[r].user
    IN  /\ \/ /\ prefs[u] = NoRow
              /\ prefs' = [prefs EXCEPT ![u] = Defaults]
              /\ crossed' = crossed \cup Crossing(r)
           \/ UNCHANGED <<prefs, crossed>>                  \* the insert failed
        /\ UNCHANGED <<promised, swallowed>>

InsertToRead(r) ==
    /\ At(r, {"read"}, "insert")
    /\ InsertDefaults(r)
    /\ Finish(r)
    /\ UNCHANGED <<clock, boot, device, logs, expires, pushHistory, geoHistory>>
-------------------------------------------------------------------------------
(* POST devices/register and DELETE devices/:deviceId. *)

RegisterStart(r) ==
    \E u \in Users, t \in Tokens :
        Start(r, [Idle EXCEPT !.kind = "register", !.at = "find", !.user = u, !.token = t])

FindToken(r) ==
    /\ At(r, {"register"}, "find")
    /\ req' = [req EXCEPT ![r].at = "save",
                          ![r].got = device[req[r].token].user # NoOne]
    /\ UNCHANGED <<clock, boot, tables, expires, pushHistory, prefHistory, geoHistory>>

\* The row that was found changes hands; fcmToken is unique, so the insert of a
\* second row fails.
SaveDevice(r) ==
    /\ At(r, {"register"}, "save")
    /\ LET t == req[r].token
       IN  IF req[r].got \/ device[t].user = NoOne
           THEN /\ device' = [device EXCEPT ![t] =
                                 [user |-> req[r].user, active |-> TRUE]]
                /\ Changed(t)
           ELSE UNCHANGED <<device, moved>>
    /\ Finish(r)
    /\ UNCHANGED <<clock, boot, prefs, logs, expires, unwanted, last, repeats,
                   strays, prefHistory, geoHistory>>

\* One UPDATE of the row with this id and this user.
DeactivateDevice(t) ==
    /\ device[t].active
    /\ device' = [device EXCEPT ![t].active = FALSE]
    /\ Changed(t)
    /\ UNCHANGED <<clock, boot, prefs, logs, expires, req, unwanted, last,
                   repeats, strays, prefHistory, geoHistory>>
-------------------------------------------------------------------------------
(* sendToUsers, from an alert to the users who saved a venue. *)

AnnounceStart(r) ==
    \E k \in Topics, u \in Users : \E S \in SUBSET (Users \ {u}) :
        Start(r, [Idle EXCEPT !.kind = "announce", !.at = "check", !.user = u, !.topic = k,
                              !.rest = S])

Key(r) == <<req[r].user, req[r].topic>>

\* Requests that have found this push to be no duplicate and not marked it yet.
Rivals(r) ==
    {q \in Requests \ {r} : /\ req[q].at \in {"list", "send", "drop"}
                            /\ Key(q) = Key(r)}

\* On to the next user of the loop, or done.
NextUser(r) ==
    IF req[r].rest = {}
    THEN Finish(r)
    ELSE \E u \in req[r].rest :
            req' = [req EXCEPT ![r] = [Idle EXCEPT
                       !.kind = "announce", !.at = "check", !.user = u,
                       !.topic = req[r].topic, !.rest = req[r].rest \ {u}]]

\* The preferences allow it; a duplicate is skipped all the same.
PassPreferences(r) ==
    IF IsDuplicate(Key(r))
    THEN NextUser(r)
    ELSE req' = [q \in Requests |->
                   IF q = r
                   THEN [req[r] EXCEPT !.at = "list", !.rival = Rivals(r) # {},
                            !.forbade = AskedNot(req[r].user, req[r].topic[1])]
                   ELSE [req[q] EXCEPT !.rival = @ \/ q \in Rivals(r)]]

CheckPreferences(r) ==
    /\ At(r, {"announce"}, "check")
    /\ LET row == prefs[req[r].user]
       IN  \/ row = NoRow /\ Goto(r, "insert")
           \/ row # NoRow /\ Refuses(row, req[r].topic[1]) /\ NextUser(r)
           \/ row # NoRow /\ ~Refuses(row, req[r].topic[1]) /\ PassPreferences(r)
    /\ UNCHANGED <<clock, boot, tables, expires, pushHistory, prefHistory, geoHistory>>

\* The defaults, stored or not, refuse nothing.
InsertToSend(r) ==
    /\ At(r, {"announce"}, "insert")
    /\ InsertDefaults(r)
    /\ PassPreferences(r)
    /\ UNCHANGED <<clock, boot, device, logs, expires, pushHistory, geoHistory>>

\* A slip: devices that were logged out are listed too.
ListedEver(u) == {t \in Tokens : device[t].user = u}

Listed(u) == {t \in Tokens : device[t].user = u /\ device[t].active}

ListDevices(r) ==
    /\ At(r, {"announce"}, "list")
    /\ LET T == Listed(req[r].user)
       IN  IF T = {} THEN NextUser(r)
           ELSE req' = [req EXCEPT ![r].at = "send", ![r].left = T]
    /\ UNCHANGED <<clock, boot, tables, expires, pushHistory, prefHistory, geoHistory>>

\* A slip: a mark that is in the cache already is not moved on.
AfterDeviceFirstMark(r, t, got) ==
    IF req[r].left = {t}
    THEN /\ NextUser(r)
         /\ expires' = [expires EXCEPT ![Key(r)] =
                           IF @ < 0 THEN clock + DedupeWindow ELSE @]
    ELSE /\ req' = [req EXCEPT ![r].at = "send", ![r].left = @ \ {t},
                               ![r].got = got]
         /\ UNCHANGED expires

\* The rest of the loop over the devices, and markSent after it.
AfterDevice(r, t, got) ==
    IF req[r].left = {t}
    THEN /\ NextUser(r)
         /\ expires' = [expires EXCEPT ![Key(r)] = clock + DedupeWindow]
    ELSE /\ req' = [req EXCEPT ![r].at = "send", ![r].left = @ \ {t},
                               ![r].got = got]
         /\ UNCHANGED expires

\* A push reaches a device: was there one for the same thing before, and is it
\* what the user last asked for?
Arrived(r, t) ==
    LET k == Key(r)
        before == last[k]
        again == before.at >= 0 /\ ~req[r].got /\ clock - before.at <= DedupeWindow
    IN  /\ repeats' = IF again
                      THEN repeats \cup {[rival |-> req[r].rival, broken |-> before.broken,
                                          restarted |-> before.boot # boot]}
                      ELSE repeats
        /\ last' = [last EXCEPT ![k] = [at |-> clock, boot |-> boot, broken |-> FALSE]]
        /\ strays' = IF device[t] # [user |-> req[r].user, active |-> TRUE]
                     THEN strays \cup {t \in moved[r]} ELSE strays
        /\ unwanted' = IF AskedNot(req[r].user, req[r].topic[1])
                       THEN unwanted \cup {[user |-> req[r].user,
                                             forbade |-> req[r].forbade]}
                       ELSE unwanted

SendToDevice(r, t) ==
    /\ At(r, {"announce"}, "send") /\ t \in req[r].left
    /\ \/ Arrived(r, t) /\ AfterDevice(r, t, TRUE)
       \/ /\ AfterDevice(r, t, req[r].got)                     \* FCM failed
          /\ UNCHANGED <<last, repeats, strays, unwanted>>
       \/ /\ req' = [req EXCEPT ![r].at = "drop", ![r].token = t]  \* no such token
          /\ UNCHANGED <<expires, last, repeats, strays, unwanted>>
    /\ moved' = [moved EXCEPT ![r] = IF req'[r].at = "drop" THEN @ ELSE @ \ {t}]
    /\ UNCHANGED <<clock, boot, tables, prefHistory, geoHistory>>

MarkDeviceInactive(r) ==
    /\ At(r, {"announce"}, "drop")
    /\ LET t == req[r].token
       IN  /\ device' = [device EXCEPT ![t].active = FALSE]
           /\ moved' = [q \in Requests |->
                 IF q = r THEN moved[r] \ {t}
                 ELSE IF t \in req[q].left THEN moved[q] \cup {t} ELSE moved[q]]
           /\ AfterDevice(r, t, req[r].got)
    /\ UNCHANGED <<clock, boot, prefs, logs, unwanted, last, repeats, strays,
                   prefHistory, geoHistory>>
-------------------------------------------------------------------------------
(* POST geofence/check, from a place with some venues within 200 metres. *)

GeofenceStart(r) ==
    \E u \in Users : \E N \in SUBSET Venues \ {{}} :
        Start(r, [Idle EXCEPT !.kind = "geofence", !.at = "limit", !.user = u, !.rest = N])

\* The limit is looked at once, however many venues are near.
CheckLimit(r) ==
    /\ At(r, {"geofence"}, "limit")
    /\ IF Cardinality(Recent(req[r].user, clock - Hour)) >= MaxPerHour
       THEN Finish(r) ELSE Goto(r, "cooldown")
    /\ UNCHANGED <<clock, boot, tables, expires, pushHistory, prefHistory, geoHistory>>

\* A slip: the cooldown is counted like the limit.
InCooldownOfAnHour(u, v) == \E i \in Recent(u, clock - Hour) : logs[i].venue = v

InCooldown(u, v) == \E i \in Recent(u, clock - Cooldown) : logs[i].venue = v

\* Another check of the user has found this venue due and not logged it yet.
Overlaps(r, v) ==
    \E q \in Requests \ {r} : /\ req[q].kind = "geofence"
                              /\ req[q].user = req[r].user /\ req[q].token = v
                              /\ req[q].at \in {"notice", "log"}

\* The next venue of the loop; the offer that is looked up only words the notice.
CheckCooldown(r) ==
    /\ At(r, {"geofence"}, "cooldown")
    /\ \E v \in req[r].rest :
          IF InCooldown(req[r].user, v)
          THEN IF req[r].rest = {v} THEN Finish(r)
               ELSE req' = [req EXCEPT ![r].rest = @ \ {v}]
          ELSE req' = [q \in Requests |->
                  IF q = r
                  THEN [req[r] EXCEPT !.at = "notice", !.token = v,
                                      !.rival = Overlaps(r, v)]
                  ELSE [req[q] EXCEPT !.rival = @ \/
                           (req[q].kind = "geofence" /\ req[q].user = req[r].user
                              /\ req[q].at \in {"notice", "log"} /\ req[q].token = v)]]
    /\ UNCHANGED <<clock, boot, tables, expires, pushHistory, prefHistory, geoHistory>>

SaveNotice(r) ==
    /\ At(r, {"geofence"}, "notice")
    /\ LET u == req[r].user
           v == req[r].token
           before == told[u][v]
       IN  /\ retold' = IF before.at >= 0 /\ clock - before.at < Cooldown
                        THEN retold \cup {[rival |-> req[r].rival,
                                           logged |-> before.logged]}
                        ELSE retold
           /\ told' = [told EXCEPT ![u] = [@ EXCEPT ![v] =
                          [at |-> clock, logged |-> FALSE]]]
    /\ Goto(r, "log")
    /\ UNCHANGED <<clock, boot, tables, expires, pushHistory, prefHistory>>

\* The row of the log, and the next venue of the loop.
SaveLog(r) ==
    /\ At(r, {"geofence"}, "log")
    /\ Len(logs) < MaxLogs
    /\ LET u == req[r].user
           v == req[r].token
       IN  /\ logs' = Append(logs, [user |-> u, venue |-> v, at |-> clock])
           /\ told' = [told EXCEPT ![u] =
                        [@ EXCEPT ![v] = [told[u][v] EXCEPT !.logged = TRUE]]]
           /\ IF req[r].rest = {v} THEN Finish(r)
              ELSE req' = [req EXCEPT ![r].at = "cooldown", ![r].token = NoOne,
                                      ![r].rest = @ \ {v}, ![r].rival = FALSE]
    /\ UNCHANGED <<clock, boot, prefs, device, expires, pushHistory, prefHistory,
                   retold>>
-------------------------------------------------------------------------------
\* A database call fails and the request with it: what it sent stays sent.
Fail(r) ==
    /\ req[r].at \in Steps \ {"idle", "send", "insert"}
    /\ req[r].kind # "update" \/ req[r].at # "save"
    /\ last' = IF At(r, {"announce"}, "drop") /\ req[r].got
               THEN [last EXCEPT ![Key(r)] = [@ EXCEPT !.broken = TRUE]] ELSE last
    /\ moved' = [moved EXCEPT ![r] = {}]
    /\ Finish(r)
    /\ UNCHANGED <<clock, boot, tables, expires, unwanted, repeats, strays,
                   prefHistory, geoHistory>>

\* The process stops and is started again: the cache and all requests are gone.
Restart ==
    /\ boot < MaxBoots
    /\ boot' = boot + 1
    /\ expires' = [k \in Keys |-> -1]
    /\ req' = [r \in Requests |-> Idle]
    /\ moved' = [r \in Requests |-> {}]
    /\ UNCHANGED <<clock, tables, unwanted, last, repeats, strays, prefHistory,
                   geoHistory>>

Tick ==
    /\ clock < Horizon
    /\ clock' = clock + 1
    /\ UNCHANGED <<boot, tables, expires, req, pushHistory, prefHistory, geoHistory>>

Step(r) ==
    \/ UpdateStart(r) \/ FindToUpdate(r) \/ SaveUpdate(r)
    \/ ReadStart(r) \/ FindToRead(r) \/ InsertToRead(r)
    \/ RegisterStart(r) \/ FindToken(r) \/ SaveDevice(r)
    \/ AnnounceStart(r) \/ CheckPreferences(r) \/ InsertToSend(r) \/ ListDevices(r)
    \/ \E t \in Tokens : SendToDevice(r, t)
    \/ MarkDeviceInactive(r)
    \/ GeofenceStart(r) \/ CheckLimit(r) \/ CheckCooldown(r) \/ SaveNotice(r)
    \/ SaveLog(r)
    \/ Fail(r)

Next ==
    \/ \E r \in Requests : Step(r)
    \/ \E t \in Tokens : DeactivateDevice(t)
    \/ Restart \/ Tick

Spec == Init /\ [][Next]_vars
-------------------------------------------------------------------------------
(* Properties. *)

\* A user is pushed the same thing twice within the window only when the two
\* sends overlapped, the first broke off before it was marked, or the server was
\* restarted in between: the check and the mark are at the two ends of
\* sendToUser, and the cache is in memory (push.service.ts 90-115).
RepeatPushHasACause ==
    \A x \in repeats : x.rival \/ x.broken \/ x.restarted

\* A push reaches a user against the preferences last answered only if they did
\* not forbid it yet when sendToUser looked, a change being answered or the quiet
\* hours beginning while it listed the devices and sent to them; or if a write of
\* them overlapped another, getPreferences' own insert included, or failed:
\* updatePreferences answers the row it meant to save either way
\* (push.service.ts 84-112, devices.service.ts 72-113).
UnwantedPushHasACause ==
    \A x \in unwanted : ~x.forbade \/ x.user \in crossed \cup swallowed

\* A push reaches a device that is logged out or of another user only if its row
\* changed after the send had listed it (push.service.ts 103-112).
StrayPushHasACause == FALSE \notin strays

\* A user is told of the same venue again within the cooldown only if two checks
\* overlapped at that venue or the first notice was saved and never logged
\* (geofence.service.ts 84-128).
RepeatNoticeHasACause == \A x \in retold : x.rival \/ ~x.logged
===============================================================================
