------------------------------ MODULE VenueLive ------------------------------
(***************************************************************************)
(* A venue's busyness, vibe tags, offers and What's On lines, written by   *)
(* its owner, workers, offline devices and the demo, and how those who     *)
(* follow the city or view the venue hear of it: through the rooms of      *)
(* the socket gateway, the /live/feed stream, and notifications.  Every    *)
(* awaited call of a handler is an action; a handler's broadcast is an     *)
(* action of its own, because another request can be answered between the  *)
(* commit of a row and the code that follows the await.                    *)
(***************************************************************************)
EXTENDS LiveGateway

CONSTANTS
    Requests,     \* the requests the server can work on at once
    Streams,      \* clients of the /live/feed stream
    Items,        \* the ids of offers and What's On lines still to be created
    NoItem,
    NameKey,      \* venue.city.toLowerCase(), which broadcasts are addressed to
    SlugKey,      \* the slug of the venue's city, which snapshots are taken of
    Followers,    \* the users who saved each venue
    Handlers,     \* the endpoints in use
    MaxUpdates,   \* status updates started
    MaxFailures   \* calls that fail, and restarts

ASSUME VenueLiveAssumption ==
    /\ IsFiniteSet(Requests)
    /\ NoItem \notin Items
    /\ NameKey \in [Venues -> Places] /\ SlugKey \in [Venues -> Places]
    /\ Followers \in [Venues -> SUBSET Users]
    /\ MaxUpdates \in Nat /\ MaxFailures \in Nat

VARIABLES
    level,     \* the busyness rows, "absent" before the first
    live,      \* whether the vibe row's tags include Live Music
    items,     \* the offers and venue_live_updates rows created
    inbox,     \* alerts of owners' updates in each follower's inbox, by venue and type
    req,       \* what each request is about to do, and what it has read
    heard,     \* the level each socket last heard of, by kind of room and venue;
               \* "due" when a level was stored and it has heard of none yet
    got,       \* the offers and lines each socket was told of
    stream,    \* what each stream client has been sent
    updates, failures,
    alone,     \* history: requests whose update has overlapped with no other
    blurred,   \* history: venues whose last update was not published by itself
    owed,      \* history: alerts decided on, by venue and type, less those cut off
    due        \* history: who was in the room when an item was stored

tables == <<level, live, items, inbox>>
clients == <<heard, got, stream>>
histories == <<alone, blurred, owed, due>>
server == <<tables, req, clients, updates, failures, histories>>
vars == <<gateway, server>>

Levels == {"quiet", "busy"}           \* 25 % and 85 %: below and above 80 %
Alerts == {"LIVE_PERFORMANCE", "VIBE_ALERT"}
FeedKinds == {"city", "map", "venue", "business"}

Writers == {"owner", "worker", "sync", "demo"}
Silent == {"sync", "demo"}            \* who save the row and publish nothing
Posters == {"offer", "info", "whatson"}
Steps == {"find", "save", "findVibes", "saveVibes", "alertLive", "log", "alertPeak",
          "publish", "store", "notify", "announce"}

Request == [kind : Writers \cup Posters, at : Steps, v : Venues, item : Items \cup {NoItem},
            level : Levels, tags : {"kept", "live", "plain"},
            seen : Levels \cup {"absent"}, was : BOOLEAN]
Idle == [at |-> "idle"]

Stream == [at : {"closed", "snapshot", "open"}, place : Places, gap : SUBSET Venues,
           shows : [Venues -> Levels \cup {"absent", "none"}]]

FeedRoom(k, v) == CASE k = "city" -> City(NameKey[v])
                    [] k = "map" -> Map(NameKey[v])
                    [] k = "venue" -> Venue(v)
                    [] k = "business" -> Business(v)

TypeOK ==
    /\ GatewayTypeOK
    /\ level \in [Venues -> Levels \cup {"absent"}]
    /\ live \in [Venues -> BOOLEAN]
    /\ items \subseteq [id : Items, v : Venues, kind : Posters]
    /\ inbox \in [Users -> [Venues -> [Alerts -> Nat]]]
    /\ req \in [Requests -> Request \cup {Idle}]
    /\ heard \in [Sockets -> [FeedKinds -> [Venues -> Levels \cup {"none", "due"}]]]
    /\ got \in [Sockets -> SUBSET Items]
    /\ stream \in [Streams -> Stream]
    /\ updates \in 0..MaxUpdates /\ failures \in 0..MaxFailures
    /\ alone \subseteq Requests /\ blurred \subseteq Venues
    /\ owed \in [Venues -> [Alerts -> Nat]]
    /\ due \in [Items -> SUBSET Sockets]

Init ==
    /\ GatewayInit
    /\ level = [v \in Venues |-> "absent"]
    /\ live = [v \in Venues |-> FALSE]
    /\ items = {}
    /\ inbox = [u \in Users |-> [v \in Venues |-> [t \in Alerts |-> 0]]]
    /\ req = [r \in Requests |-> Idle]
    /\ heard = [s \in Sockets |-> [k \in FeedKinds |-> [v \in Venues |-> "none"]]]
    /\ got = [s \in Sockets |-> {}]
    /\ stream \in [Streams -> [at : {"closed"}, place : Places, gap : {{}},
                               shows : {[v \in Venues |-> "none"]}]]
    /\ updates = 0 /\ failures = 0
    /\ alone = {} /\ blurred = {}
    /\ owed = [v \in Venues |-> [t \in Alerts |-> 0]]
    /\ due = [i \in Items |-> {}]
-------------------------------------------------------------------------------
(* Helpers. *)

At(r, step) == req[r].at = step
Goto(r, step) == req' = [req EXCEPT ![r].at = step]
Finish(r) == req' = [req EXCEPT ![r] = Idle]
Spend == failures < MaxFailures /\ failures' = failures + 1

Writing(v) == {r \in Requests : req[r] # Idle /\ req[r].kind \in Writers /\ req[r].v = v}

\* The alert a request is on its way to send, if any.
Deciding(r, t) ==
    /\ req[r] # Idle /\ req[r].kind = "owner"
    /\ \/ t = "LIVE_PERFORMANCE" /\ At(r, "alertLive")
       \/ /\ t = "VIBE_ALERT" /\ req[r].level = "busy"
          /\ req[r].at \in {"findVibes", "saveVibes", "alertLive", "log", "alertPeak"}

\* notifications.save of one row per user who saved the venue, and then the pushes.
Notify(v, t) ==
    inbox' = [u \in Users |-> IF u \in Followers[v]
                              THEN [inbox[u] EXCEPT ![v][t] = @ + 1] ELSE inbox[u]]

Owe(v, t) == owed' = [owed EXCEPT ![v][t] = @ + 1]

InRoom(s, room) == room \in rooms[s]

\* publishCityEvent: the streams of the city that have subscribed get the event.
PublishEvent(v, l) ==
    stream' = [f \in Streams |->
        IF stream[f].place # NameKey[v] THEN stream[f]
        ELSE CASE stream[f].at = "open" ->
                    [stream[f] EXCEPT !.shows[v] = l, !.gap = @ \ {v}]
               [] stream[f].at = "snapshot" -> [stream[f] EXCEPT !.gap = @ \cup {v}]
               [] OTHER -> stream[f]]
\* A status update is accepted; whether the caller may make it is Team's subject.
Begin(r, kind, v, l, tags) ==
    /\ kind \in Handlers
    /\ updates < MaxUpdates /\ updates' = updates + 1
    /\ req[r] = Idle
    /\ req' = [req EXCEPT ![r] = [kind |-> kind, at |-> "find", v |-> v, item |-> NoItem,
                  level |-> l, tags |-> tags, seen |-> "absent", was |-> FALSE]]
    /\ alone' = IF Writing(v) = {} THEN alone \cup {r} ELSE alone \ Writing(v)
    /\ UNCHANGED <<gateway, tables, clients, failures, blurred, owed, due>>
-------------------------------------------------------------------------------
(* Slips of the code below, each refused by a property: see PROJECT.json. *)

\* The level is announced to everybody but the venue's own page.
PublishElsewhere(r) ==
    /\ At(r, "publish")
    /\ heard' = [s \in Sockets |-> [k \in FeedKinds |-> [v \in Venues |->
           IF v = req[r].v /\ k # "venue" /\ InRoom(s, FeedRoom(k, v))
           THEN req[r].level ELSE heard[s][k][v]]]]
    /\ PublishEvent(req[r].v, req[r].level)
    /\ blurred' = IF r \in alone THEN blurred \ {req[r].v} ELSE blurred
    /\ alone' = alone \ {r}
    /\ Finish(r)
    /\ UNCHANGED <<gateway, tables, got, updates, failures, owed, due>>

\* The stream subscribes without having read a snapshot.
StreamOpenBlank(f) ==
    /\ stream[f].at = "closed"
    /\ stream' = [stream EXCEPT ![f] = [@ EXCEPT !.at = "snapshot",
                      !.shows = [v \in Venues |-> "quiet"]]]
    /\ UNCHANGED <<gateway, tables, req, heard, got, updates, failures, histories>>

\* The alert for a venue that fills up is forgotten when nothing else changed.
LogAndPublish(r) ==
    /\ At(r, "log")
    /\ Goto(r, "publish")
    /\ UNCHANGED <<gateway, tables, clients, updates, failures, histories>>

-------------------------------------------------------------------------------
(* Status updates: PUT business/venues/:id/status by the owner, POST           *)
(* worker/venues/:id/status by a worker, the replay of an offline one, and the *)
(* demo's time machine and reset, whose other writes are DemoCity's subject.   *)

OwnerStart(r, v) ==
    \E l \in Levels, tags \in {"kept", "live", "plain"} : Begin(r, "owner", v, l, tags)
WorkerStart(r, v) == \E l \in Levels : Begin(r, "worker", v, l, "kept")
SyncStart(r, v) == \E l \in Levels : Begin(r, "sync", v, l, "kept")
DemoStart(r, v) == \E l \in Levels : Begin(r, "demo", v, l, "kept")

\* An offline update needs a row, and none newer than itself; the reset needs one.
FindBusyness(r) ==
    /\ At(r, "find")
    /\ LET found == level[req[r].v] IN
       \/ /\ req[r].kind = "sync" => found # "absent"
          /\ req' = [req EXCEPT ![r] = [@ EXCEPT !.at = "save", !.seen = found]]
          /\ UNCHANGED alone
       \/ /\ \/ req[r].kind = "sync"
             \/ req[r].kind = "demo" /\ found = "absent"
          /\ Finish(r)
          /\ alone' = alone \ {r}
    /\ UNCHANGED <<gateway, tables, clients, updates, failures, blurred, owed, due>>

\* A row is saved over whatever it holds by now; the second of two first rows
\* is refused by the unique venueId, and its request fails.
SaveBusyness(r) ==
    /\ At(r, "save")
    /\ LET v == req[r].v IN
       IF req[r].seen = "absent" /\ level[v] # "absent"
       THEN /\ Finish(r)
            /\ alone' = alone \ {r}
            /\ UNCHANGED <<level, heard, owed, blurred>>
       ELSE /\ level' = [level EXCEPT ![v] = req[r].level]
            /\ IF req[r].kind = "owner" /\ req[r].level = "busy"
               THEN Owe(v, "VIBE_ALERT") ELSE UNCHANGED owed
            /\ heard' = [s \in Sockets |-> [k \in FeedKinds |->
                   [heard[s][k] EXCEPT ![v] =
                       IF @ = "none" /\ InRoom(s, FeedRoom(k, v)) THEN "due" ELSE @]]]
            /\ blurred' = IF r \notin alone \/ req[r].kind \in Silent
                          THEN blurred \cup {v} ELSE blurred
            /\ CASE req[r].kind = "worker" -> Goto(r, "publish") /\ UNCHANGED alone
                 [] req[r].kind \in Silent -> Finish(r) /\ alone' = alone \ {r}
                 [] req[r].kind = "owner" ->
                      /\ Goto(r, IF req[r].tags = "kept" THEN "log" ELSE "findVibes")
                      /\ UNCHANGED alone
    /\ UNCHANGED <<gateway, live, items, inbox, got, stream, updates, failures, due>>

FindVibes(r) ==
    /\ At(r, "findVibes")
    /\ req' = [req EXCEPT ![r] = [@ EXCEPT !.at = "saveVibes", !.was = live[req[r].v]]]
    /\ UNCHANGED <<gateway, tables, clients, updates, failures, histories>>

\* Live Music among the new tags and not among those read before it.
SaveVibes(r) ==
    /\ At(r, "saveVibes")
    /\ live' = [live EXCEPT ![req[r].v] = (req[r].tags = "live")]
    /\ IF req[r].tags = "live" /\ ~req[r].was
       THEN Goto(r, "alertLive") /\ Owe(req[r].v, "LIVE_PERFORMANCE")
       ELSE Goto(r, "log") /\ UNCHANGED owed
    /\ UNCHANGED <<gateway, level, items, inbox, clients, updates, failures,
                   alone, blurred, due>>

AlertLive(r) ==
    /\ At(r, "alertLive")
    /\ Notify(req[r].v, "LIVE_PERFORMANCE")
    /\ Goto(r, "log")
    /\ UNCHANGED <<gateway, level, live, items, clients, updates, failures, histories>>

LogStatus(r) ==
    /\ At(r, "log")
    /\ Goto(r, IF req[r].level = "busy" THEN "alertPeak" ELSE "publish")
    /\ UNCHANGED <<gateway, tables, clients, updates, failures, histories>>

AlertPeak(r) ==
    /\ At(r, "alertPeak")
    /\ Notify(req[r].v, "VIBE_ALERT")
    /\ Goto(r, "publish")
    /\ UNCHANGED <<gateway, level, live, items, clients, updates, failures, histories>>

\* broadcastBusynessUpdate, with the level the request came with.
Publish(r) ==
    /\ At(r, "publish")
    /\ heard' = [s \in Sockets |-> [k \in FeedKinds |-> [v \in Venues |->
           IF v = req[r].v /\ InRoom(s, FeedRoom(k, v))
           THEN req[r].level ELSE heard[s][k][v]]]]
    /\ PublishEvent(req[r].v, req[r].level)
    /\ blurred' = IF r \in alone THEN blurred \ {req[r].v} ELSE blurred
    /\ alone' = alone \ {r}
    /\ Finish(r)
    /\ UNCHANGED <<gateway, tables, got, updates, failures, owed, due>>
-------------------------------------------------------------------------------
(* News: a new offer, a worker's What's On line and the owner's.                *)

Post(r, kind, v, i) ==
    /\ kind \in Handlers
    /\ req[r] = Idle
    /\ \A x \in items : x.id # i
    /\ \A q \in Requests : req[q] # Idle => req[q].item # i
    /\ req' = [req EXCEPT ![r] = [kind |-> kind, at |-> "store", v |-> v, item |-> i,
                  level |-> "quiet", tags |-> "kept", seen |-> "absent", was |-> FALSE]]
    /\ UNCHANGED <<gateway, tables, clients, updates, failures, histories>>

OfferStart(r, v, i) == Post(r, "offer", v, i)
InfoStart(r, v, i) == Post(r, "info", v, i)
WhatsOnStart(r, v, i) == Post(r, "whatson", v, i)

\* Offers go to the city's room, lines to the city's and the venue's.
Audience(kind, v) ==
    {s \in Sockets : \/ InRoom(s, City(NameKey[v]))
                     \/ kind # "offer" /\ InRoom(s, Venue(v))}

\* The owner's line is returned to the caller, and that is all.
StoreItem(r) ==
    /\ At(r, "store")
    /\ items' = items \cup {[id |-> req[r].item, v |-> req[r].v, kind |-> req[r].kind]}
    /\ due' = [due EXCEPT ![req[r].item] = Audience(req[r].kind, req[r].v)]
    /\ CASE req[r].kind = "offer" -> Goto(r, "notify")
         [] req[r].kind = "info" -> Goto(r, "announce")
         [] req[r].kind = "whatson" -> Finish(r)
    /\ UNCHANGED <<gateway, level, live, inbox, clients, updates, failures,
                   alone, blurred, owed>>

\* logActivity, the venue's name, notifySavedUsers.
NotifySavers(r) ==
    /\ At(r, "notify")
    /\ Goto(r, "announce")
    /\ UNCHANGED <<gateway, tables, clients, updates, failures, histories>>

\* broadcastNewOffer, broadcastWhatsOnUpdate
Announce(r) ==
    /\ At(r, "announce")
    /\ got' = [s \in Sockets |->
           IF s \in Audience(req[r].kind, req[r].v) THEN got[s] \cup {req[r].item} ELSE got[s]]
    /\ Finish(r)
    /\ UNCHANGED <<gateway, tables, heard, stream, updates, failures, histories>>
-------------------------------------------------------------------------------
(* The /live/feed stream: a snapshot is read, and the events are subscribed to  *)
(* when it has been sent.                                                        *)

StreamOpen(f) ==
    /\ stream[f].at = "closed"
    /\ stream' = [stream EXCEPT ![f] = [@ EXCEPT !.at = "snapshot",
           !.shows = [v \in Venues |-> IF SlugKey[v] = stream[f].place
                                       THEN level[v] ELSE "none"]]]
    /\ UNCHANGED <<gateway, tables, req, heard, got, updates, failures, histories>>

StreamSubscribe(f) ==
    /\ stream[f].at = "snapshot"
    /\ stream' = [stream EXCEPT ![f].at = "open"]
    /\ UNCHANGED <<gateway, tables, req, heard, got, updates, failures, histories>>

StreamClose(f) ==
    /\ stream[f].at # "closed"
    /\ stream' = [stream EXCEPT ![f] = [@ EXCEPT !.at = "closed", !.gap = {},
                                                 !.shows = [v \in Venues |-> "none"]]]
    /\ UNCHANGED <<gateway, tables, req, heard, got, updates, failures, histories>>
-------------------------------------------------------------------------------
(* Failures. *)

\* What a request that is cut off has promised and will not do any more.
Dropped(R) ==
    /\ owed' = [v \in Venues |-> [t \in Alerts |->
           owed[v][t] - Cardinality({r \in R : Deciding(r, t) /\ req[r].v = v})]]
    /\ blurred' = blurred \cup {req[r].v : r \in {q \in R : req[q] # Idle /\
                      req[q].kind \in Writers /\ req[q].at \notin {"find", "save"}}}
    /\ alone' = alone \ R
    /\ due' = [i \in Items |->
           IF \E r \in R : req[r] # Idle /\ req[r].item = i THEN {} ELSE due[i]]

\* A database call fails: the request is answered with an error and what it
\* wrote stays.
Fail(r) ==
    /\ Spend
    /\ req[r] # Idle
    /\ Finish(r)
    /\ Dropped({r})
    /\ UNCHANGED <<gateway, tables, clients, updates>>

Restart ==
    /\ Spend
    /\ GatewayRestart
    /\ req' = [r \in Requests |-> Idle]
    /\ Dropped(Requests)
    /\ heard' = [s \in Sockets |-> [k \in FeedKinds |-> [v \in Venues |-> "none"]]]
    /\ stream' = [f \in Streams |-> [stream[f] EXCEPT !.at = "closed", !.gap = {},
                                        !.shows = [v \in Venues |-> "none"]]]
    /\ UNCHANGED <<tables, got, updates>>

\* A socket connects, leaves or joins rooms; what a client heard in a room it
\* has left counts for nothing.
ClientStep ==
    /\ \E s \in Sockets :
           \/ \E u \in Users : Connect(s, u)
           \/ Refuse(s)
           \/ Disconnect(s)
           \/ \E p \in Places : \/ JoinCity(s, p) \/ LeaveCity(s, p)
                                \/ JoinMap(s, p) \/ LeaveMap(s, p)
           \/ \E v \in Venues : \/ JoinVenue(s, v) \/ LeaveVenue(s, v)
                                \/ JoinBusiness(s, v) \/ LeaveBusiness(s, v)
    /\ heard' = [s \in Sockets |-> [k \in FeedKinds |-> [v \in Venues |->
           IF FeedRoom(k, v) \in rooms'[s] THEN heard[s][k][v] ELSE "none"]]]
    /\ due' = [i \in Items |->
           {s \in due[i] : rooms'[s] \cap rooms[s] = rooms[s]}]
    /\ UNCHANGED <<tables, req, got, stream, updates, failures, alone, blurred, owed>>

Serve(r) ==
    \/ FindBusyness(r) \/ SaveBusyness(r) \/ FindVibes(r) \/ SaveVibes(r)
    \/ AlertLive(r) \/ LogStatus(r) \/ AlertPeak(r) \/ Publish(r)
    \/ StoreItem(r) \/ NotifySavers(r) \/ Announce(r)

Next ==
    \/ \E r \in Requests :
           \/ \E v \in Venues : \/ OwnerStart(r, v) \/ WorkerStart(r, v) \/ SyncStart(r, v)
                                \/ DemoStart(r, v)
                                \/ \E i \in Items : \/ OfferStart(r, v, i)
                                                    \/ InfoStart(r, v, i)
                                                    \/ WhatsOnStart(r, v, i)
           \/ Serve(r)
           \/ Fail(r)
    \/ \E f \in Streams : StreamOpen(f) \/ StreamSubscribe(f) \/ StreamClose(f)
    \/ ClientStep
    \/ Restart

\* The server works on what it has accepted; clients do as they please.
Fairness == \A r \in Requests : WF_vars(Serve(r))

Spec == Init /\ [][Next]_vars /\ Fairness
-------------------------------------------------------------------------------
(* Properties. *)

\* What the rooms last heard of a venue's busyness is what is stored, unless an
\* update overlapped with another, was cut off after its save, or came from an
\* offline device or the demo, which publish nothing (processBusynessUpdate,
\* simulateTime, resetDemo).
StaleRoomHasACause ==
    \A v \in Venues : Writing(v) = {} /\ v \notin blurred =>
        \A s \in Sockets, k \in FeedKinds : heard[s][k][v] \in {"none", level[v]}

\* The same of a stream's client, whose snapshot and events together lose only
\* what is published while the snapshot is on its way (feedStream concatenates
\* the snapshot and the subscription).
StaleStreamHasACause ==
    \A f \in Streams, v \in Venues :
        /\ stream[f].at = "open" /\ Writing(v) = {} /\ v \notin blurred \cup stream[f].gap
        /\ NameKey[v] = stream[f].place /\ SlugKey[v] = stream[f].place
        => stream[f].shows[v] = level[v]

\* Every alert an owner's update decided on ends up in the inbox of everyone who
\* saved the venue, once, unless the request was cut off before it was sent.
AlertsArrive ==
    \A v \in Venues, t \in Alerts, u \in Users :
        u \in Followers[v] /\ (\A r \in Requests : ~(Deciding(r, t) /\ req[r].v = v))
        => inbox[u][v][t] = owed[v][t]

\* What the documentation of PUT business/venues/:id/whats-on says of the
\* owner's line: it is published.
WhatsOnIsPublished ==
    \A x \in items :
        x.kind = "whatson" /\ (\A r \in Requests : req[r] # Idle => req[r].item # x.id)
        => \A s \in due[x.id] : x.id \in got[s]
================================================================================
