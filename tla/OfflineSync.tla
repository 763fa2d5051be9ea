------------------------------ MODULE OfflineSync ------------------------------
(***************************************************************************)
(* What a phone did offline, replayed by POST sync/queue: status updates   *)
(* that may conflict, saved venues with their daily count, check-ins with  *)
(* their points; and the delta a phone asks for afterwards.  The same rows *)
(* are written online at the same time.  One venue; a phone is a user's.   *)
(*                                                                         *)
(* The app is not in src/: it is taken to keep its queue until an answer   *)
(* arrives and to send all of it again otherwise.  The server has no       *)
(* memory of the actions it has carried out: sync_actions, clientActionId  *)
(* with it, is written and read by nothing but statistics; it is left out. *)
(***************************************************************************)
EXTENDS Integers, Sequences, FiniteSets, SequencesExt

CONSTANTS
    Phones,
    None,
    Requests,    \* the requests the server can work on at once
    Day,         \* ticks in a day
    Cooldown,    \* the four hours between check-ins, in ticks
    Horizon,     \* bound: where the clock stops
    MaxActions,  \* bound: actions recorded offline, and updates made online
    MaxSaves,    \* bound: what the count of a day can come to
    Handlers     \* what is in use: queue actions and endpoints

ASSUME SyncAssumption ==
    /\ Day \in Nat \ {0} /\ Cooldown \in Nat \ {0} /\ Horizon \in Nat
    /\ MaxActions \in Nat /\ MaxSaves \in Nat

VARIABLES
    clock,
    minted,    \* the id of the last action recorded offline or update made online
    queue,     \* what each phone has recorded and has no answer to
    status,    \* the venue's busyness row
    saved,     \* who has the venue in savedVenues
    counts,    \* totalSaves of the venue_analytics rows of each day
    checkIns,  \* the venue_check_ins rows of each phone's user
    seen,      \* the status each phone shows
    cursor,    \* the lastSync it was given with it
    req,       \* what each request is about to do, and what it has read
    made,      \* history: when the update on record was made
    refused,   \* history: updates refused although made after that one
    stale,     \* history: updates made before the one they replaced was written
    excuses,   \* history: what may have spoiled the count of saves
    close,     \* history: check-ins closer than the cooldown, and why
    raced      \* history: updates written between a delta's query and its answer

tables == <<status, saved, counts, checkIns>>
phones == <<minted, queue, seen, cursor>>
histories == <<made, refused, stale, excuses, close, raced>>
vars == <<clock, tables, phones, req, histories>>

Types == {"status", "save", "unsave", "checkIn"}
Ids == 1 .. MaxActions
Days == 0 .. Horizon \div Day
Action == [type : Types, id : Ids, time : 0 .. Horizon]

\* id 0 is the row's first content.
Status == [id : 0 .. MaxActions, at : 0 .. Horizon]

ASSUME NoneAssumption == None \notin Status

Steps == {"idle", "next", "find", "conflict", "write", "user", "saveUser", "count",
          "saveCount", "record", "answer", "query"}
Kinds == {"queue", "status", "save", "unsave", "checkIn", "state", "delta"}

\* todo: the actions still to do; sent: all it was sent; copy: the row it read;
\* n: the count it read; row: which row of today's counts, or 0; rival: see Rivals.
Idle == [kind |-> "none", at |-> "idle", phone |-> None, todo |-> <<>>, sent |-> {},
         copy |-> None, n |-> 0, day |-> 0, row |-> 0, rival |-> FALSE]

Request == [kind : Kinds \cup {"none"}, at : Steps, phone : Phones \cup {None},
            todo : Seq(Action), sent : SUBSET Ids,
            copy : Status \cup {None}, n : 0 .. MaxSaves, day : Days, row : Nat,
            rival : BOOLEAN]

TypeOK ==
    /\ clock \in 0 .. Horizon /\ minted \in 0 .. MaxActions
    /\ queue \in [Phones -> Seq(Action)]
    /\ status \in Status
    /\ saved \subseteq Phones
    /\ counts \in [Days -> Seq(0 .. MaxSaves)]
    /\ checkIns \in [Phones -> SUBSET [id : 0 .. MaxActions, at : 0 .. Horizon]]
    /\ seen \in [Phones -> 0 .. MaxActions] /\ cursor \in [Phones -> 0 .. Horizon]
    /\ req \in [Requests -> Request]
    /\ excuses \subseteq {"crossed", "broken", "uncounted", "replaced", "later"}
    /\ made \in 0 .. Horizon /\ refused \subseteq Ids
    /\ stale \subseteq BOOLEAN /\ close \subseteq [late : BOOLEAN, rival : BOOLEAN]
    /\ raced \subseteq Phones \X (0 .. MaxActions)

Init ==
    /\ clock = 0 /\ minted = 0
    /\ queue = [p \in Phones |-> <<>>]
    /\ status = [id |-> 0, at |-> 0]
    /\ saved = {}
    /\ counts = [d \in Days |-> <<>>]
    /\ checkIns = [p \in Phones |-> {}]
    /\ seen = [p \in Phones |-> 0] /\ cursor = [p \in Phones |-> 0]
    /\ req = [r \in Requests |-> Idle]
    /\ made = 0 /\ refused = {}
    /\ stale = {} /\ excuses = {} /\ close = {} /\ raced = {}
-------------------------------------------------------------------------------
(* Helpers. *)

Today == clock \div Day
Mine(r) == req[r].phone
This(r) == Head(req[r].todo)

\* What a request is doing: the action at the head of its queue, or its kind.
Doing(r) == IF req[r].kind = "queue"
            THEN IF req[r].todo = <<>> THEN "none" ELSE This(r).type
            ELSE req[r].kind
At(r, doing, step) == req[r].at = step /\ Doing(r) \in doing

\* When it was done: offline, or now.
Made(r) == IF req[r].kind = "queue" THEN This(r).time ELSE clock
IdOf(r) == IF req[r].todo = <<>> THEN 0 ELSE This(r).id

Goto(r, step) == req' = [req EXCEPT ![r].at = step]
Finish(r) == req' = [req EXCEPT ![r] = Idle]

\* On to the next action of the queue, or to the answer.
Skip(r) ==
    IF req[r].kind = "queue"
    THEN req' = [req EXCEPT ![r] = [Idle EXCEPT
                    !.kind = "queue", !.at = "next", !.phone = Mine(r),
                    !.todo = Tail(req[r].todo), !.sent = req[r].sent]]
    ELSE Finish(r)

\* The effect is done: a queued action is recorded next.
Done(r) == IF req[r].kind = "queue" THEN Goto(r, "record") ELSE Finish(r)

Others(r, doing, step) == {q \in Requests \ {r} : At(q, doing, step)}

Start(r, kind, p, step) ==
    /\ kind \in Handlers /\ req[r] = Idle
    /\ req' = [req EXCEPT ![r] = [Idle EXCEPT !.kind = kind, !.phone = p, !.at = step]]
    /\ UNCHANGED <<clock, tables, phones, histories>>
-------------------------------------------------------------------------------
(* The phone, and POST sync/queue. *)

RecordOffline(p) ==
    \E t \in Types \cap Handlers :
        /\ minted < MaxActions
        /\ minted' = minted + 1
        /\ queue' = [queue EXCEPT ![p] =
                        Append(@, [type |-> t, id |-> minted + 1, time |-> clock])]
        /\ UNCHANGED <<clock, tables, seen, cursor, req, histories>>

\* Sent for the first time, or again because no answer came.
Deliver(r, p) ==
    /\ queue[p] # <<>> /\ req[r] = Idle
    /\ req' = [req EXCEPT ![r] = [Idle EXCEPT
                  !.kind = "queue", !.at = "next", !.phone = p, !.todo = queue[p],
                  !.sent = {a.id : a \in ToSet(queue[p])}]]
    /\ UNCHANGED <<clock, tables, phones, histories>>

\* processAction: the first call each type of action makes.
NextAction(r) ==
    /\ req[r].kind = "queue" /\ req[r].at = "next" /\ req[r].todo # <<>>
    /\ Goto(r, IF Doing(r) \in {"save", "unsave"} THEN "user" ELSE "find")
    /\ UNCHANGED <<clock, tables, phones, histories>>

\* saveSyncAction: the row of sync_actions is read by the statistics only.
RecordSuccess(r) ==
    /\ At(r, Types, "record")
    /\ Skip(r)
    /\ UNCHANGED <<clock, tables, phones, histories>>

\* What was answered stands at the front, as far as it has not been forgotten before.
Forget(p, ids) ==
    \E n \in 0 .. Len(queue[p]) :
        /\ \A i \in DOMAIN queue[p] : queue[p][i].id \in ids <=> i <= n
        /\ queue' = [queue EXCEPT ![p] = SubSeq(@, n + 1, Len(queue[p]))]

\* All done: the phone forgets what it was answered, unless the answer is lost.
AnswerQueue(r) ==
    /\ req[r].kind = "queue" /\ req[r].at = "next" /\ req[r].todo = <<>>
    /\ Forget(Mine(r), req[r].sent) \/ UNCHANGED queue
    /\ Finish(r)
    /\ UNCHANGED <<clock, tables, minted, seen, cursor, histories>>
-------------------------------------------------------------------------------
(* Status: the busyness row, and the vibe row in the same way. *)

UpdateStart(r) ==
    \E p \in Phones :
        /\ "status" \in Handlers /\ req[r] = Idle /\ minted < MaxActions
        /\ minted' = minted + 1
        /\ req' = [req EXCEPT ![r] = [Idle EXCEPT
                      !.kind = "status", !.phone = p, !.at = "find",
                      !.todo = <<[type |-> "status", id |-> minted + 1, time |-> clock]>>]]
        /\ UNCHANGED <<clock, tables, queue, seen, cursor, histories>>

\* A slip: the time the queue arrives is compared.
ConflictsOnArrival(r) == req[r].kind = "queue" /\ clock < status.at

Conflicts(r) == req[r].kind = "queue" /\ Made(r) < status.at

\* Online there is no comparison.
FindStatus(r) ==
    /\ At(r, {"status"}, "find")
    /\ req' = [req EXCEPT ![r].copy = status,
                          ![r].at = IF Conflicts(r) THEN "conflict" ELSE "write"]
    /\ refused' = IF Conflicts(r) /\ made < Made(r)
                  THEN refused \cup {IdOf(r)} ELSE refused
    /\ UNCHANGED <<clock, tables, phones, made, stale, excuses, close, raced>>

RecordConflict(r) ==
    /\ At(r, {"status"}, "conflict")
    /\ Skip(r)
    /\ UNCHANGED <<clock, tables, phones, histories>>

\* A row that does not change is not written, and keeps its lastUpdated.
WriteStatus(r) ==
    /\ At(r, {"status"}, "write")
    /\ IF status.id = IdOf(r)
       THEN UNCHANGED <<status, made, stale, raced>>
       ELSE /\ status' = [id |-> IdOf(r), at |-> clock]
            /\ made' = Made(r)
            /\ stale' = IF Made(r) < status.at
                        THEN stale \cup {req[r].copy # status} ELSE stale
            /\ raced' = raced \cup {<<Mine(q), IdOf(r)>> : q \in Others(r, {"delta"}, "answer")}
    /\ Done(r)
    /\ UNCHANGED <<clock, saved, counts, checkIns, phones, refused, excuses, close>>
-------------------------------------------------------------------------------
(* GET venues/sync. *)

DeltaStart(r) == \E p \in Phones : Start(r, "delta", p, "query")

\* A slip: MoreThan for MoreThanOrEqual.
QueryDeltaPast(r) ==
    /\ At(r, {"delta"}, "query")
    /\ req' = [req EXCEPT ![r].at = "answer",
                  ![r].copy = IF status.at > cursor[Mine(r)] THEN status ELSE None]
    /\ UNCHANGED <<clock, tables, phones, histories>>

QueryDelta(r) ==
    /\ At(r, {"delta"}, "query")
    /\ req' = [req EXCEPT ![r].at = "answer",
                  ![r].copy = IF status.at >= cursor[Mine(r)] THEN status ELSE None]
    /\ UNCHANGED <<clock, tables, phones, histories>>

\* lastSync is the time of the answer, not of the query.
AnswerDelta(r) ==
    /\ At(r, {"delta"}, "answer")
    /\ cursor' = [cursor EXCEPT ![Mine(r)] = clock]
    /\ seen' = IF req[r].copy = None THEN seen
               ELSE [seen EXCEPT ![Mine(r)] = req[r].copy.id]
    /\ Finish(r)
    /\ UNCHANGED <<clock, tables, minted, queue, histories>>
-------------------------------------------------------------------------------
(* Saved venues: VENUE_SAVE, POST and DELETE users/saved-venues/:venueId, and *)
(* PUT users/state.                                                           *)

SaveStart(r) ==
    \E p \in Phones, k \in {"save", "unsave"} : Start(r, k, p, "user")

StateStart(r) == \E p \in Phones : Start(r, "state", p, "user")

\* A slip: nobody looks whether the venue is saved already.
FindUserOnly(r) ==
    /\ At(r, {"save", "unsave", "state"}, "user")
    /\ req' = [req EXCEPT ![r].at = "saveUser", ![r].rival = Mine(r) \in saved]
    /\ UNCHANGED <<clock, tables, phones, histories>>

\* A venue that is saved already is not saved again.
FindUser(r) ==
    /\ At(r, {"save", "unsave", "state"}, "user")
    /\ LET has == Mine(r) \in saved
       IN  IF Doing(r) = "save" /\ has
           THEN Done(r)
           ELSE req' = [req EXCEPT ![r].at = "saveUser", ![r].rival = has]
    /\ UNCHANGED <<clock, tables, phones, histories>>

\* Another request of the user has read the list before this one writes it.
CrossedList(r) ==
    IF \E q \in Others(r, {"save", "unsave", "state"}, "saveUser") : Mine(q) = Mine(r)
    THEN {"crossed"} ELSE {}

\* A save is counted; taking one back is counted only when it comes by the queue.
SaveUser(r) ==
    /\ At(r, {"save", "unsave"}, "saveUser")
    /\ saved' = IF Doing(r) = "save" THEN saved \cup {Mine(r)} ELSE saved \ {Mine(r)}
    /\ LET had == req[r].rival
           counted == Doing(r) = "save" \/ (had /\ req[r].kind = "queue")
       IN  /\ IF counted THEN Goto(r, "count") ELSE Done(r)
           /\ excuses' = excuses \cup CrossedList(r)
                           \cup IF had /\ ~counted THEN {"uncounted"} ELSE {}
    /\ UNCHANGED <<clock, status, counts, checkIns, phones, made, refused, stale, close, raced>>

\* saveUserState puts the phone's list in the place of the stored one.
SaveState(r) ==
    /\ At(r, {"state"}, "saveUser")
    /\ \E list \in {saved \cup {Mine(r)}, saved \ {Mine(r)}} :
          /\ saved' = list
          /\ excuses' = excuses \cup CrossedList(r)
                          \cup IF list # saved THEN {"replaced"} ELSE {}
    /\ Finish(r)
    /\ UNCHANGED <<clock, status, counts, checkIns, phones, made, refused, stale, close, raced>>

\* Today's row, any if there are several: nothing makes (venueId, date) unique.
FindCount(r) ==
    /\ At(r, {"save", "unsave"}, "count")
    /\ LET rows == counts[Today]
       IN  \/ /\ rows = <<>>
              /\ req' = [req EXCEPT ![r].at = "saveCount", ![r].day = Today,
                                    ![r].row = 0, ![r].n = 0]
           \/ \E i \in DOMAIN rows :
                 req' = [req EXCEPT ![r].at = "saveCount", ![r].day = Today,
                                    ![r].row = i, ![r].n = rows[i]]
    /\ UNCHANGED <<clock, tables, phones, histories>>

\* The count that was read, moved by one and never below zero.
Counted(r) ==
    LET n == IF Doing(r) = "save" THEN req[r].n + 1 ELSE req[r].n - 1
    IN  IF n < 0 THEN 0 ELSE n

SaveCount(r) ==
    /\ At(r, {"save", "unsave"}, "saveCount")
    /\ Counted(r) <= MaxSaves
    /\ counts' = [counts EXCEPT ![req[r].day] =
                     IF req[r].row = 0 THEN Append(@, Counted(r))
                     ELSE [@ EXCEPT ![req[r].row] = Counted(r)]]
    /\ excuses' = excuses
         \cup IF Others(r, {"save", "unsave"}, "saveCount") # {} THEN {"crossed"} ELSE {}
         \cup IF Doing(r) = "unsave" /\ req[r].n = 0 THEN {"later"} ELSE {}
    /\ Done(r)
    /\ UNCHANGED <<clock, status, saved, checkIns, phones, made, refused, stale, close, raced>>
-------------------------------------------------------------------------------
(* Check-ins: CHECK_IN of the queue, and POST venues/:venueId/check-ins.       *)

CheckInStart(r) == \E p \in Phones : Start(r, "checkIn", p, "find")

\* The check-ins of a user that are under way past the check of the cooldown.
Rivals(r) == {q \in Others(r, {"checkIn"}, "write") : Mine(q) = Mine(r)}

\* A slip: the first check-in is compared, not the latest.
RecentlyFirst(p) == \E c \in checkIns[p] :
                       /\ \A d \in checkIns[p] : d.at >= c.at
                       /\ clock - c.at < Cooldown

\* The latest check-in, by the time it was made, is compared with now.
Recently(p) == \E c \in checkIns[p] :
                  /\ \A d \in checkIns[p] : d.at <= c.at
                  /\ clock - c.at < Cooldown

FindLastCheckIn(r) ==
    /\ At(r, {"checkIn"}, "find")
    /\ IF Recently(Mine(r))
       THEN Skip(r)
       ELSE req' = [q \in Requests |->
               IF q = r
               THEN [req[r] EXCEPT !.at = "write", !.rival = Rivals(r) # {}]
               ELSE IF q \in Rivals(r) THEN [req[q] EXCEPT !.rival = TRUE] ELSE req[q]]
    /\ UNCHANGED <<clock, tables, phones, histories>>

Near(a, b) == a - b < Cooldown /\ b - a < Cooldown

InsertCheckIn(r) ==
    /\ At(r, {"checkIn"}, "write")
    /\ LET at == Made(r)
           near == {c \in checkIns[Mine(r)] : Near(c.at, at)}
       IN  /\ checkIns' = [checkIns EXCEPT ![Mine(r)] =
                              @ \cup {[id |-> IdOf(r), at |-> at]}]
           /\ close' = close \cup {[late |-> clock - c.at >= Cooldown,
                                    rival |-> req[r].rival] : c \in near}
    /\ Done(r)
    /\ UNCHANGED <<clock, status, saved, counts, phones, made, refused, stale, excuses, raced>>
-------------------------------------------------------------------------------
\* A database call fails: the action is answered as rejected and the queue goes
\* on, any other request is over.  What was saved before stays.
Broken(r) ==
    excuses' = excuses \cup IF At(r, {"save", "unsave"}, "count")
                               \/ At(r, {"save", "unsave"}, "saveCount")
                            THEN {"broken"} ELSE {}

Fail(r) ==
    /\ req[r].at \notin {"idle", "next"}
    /\ Broken(r)
    /\ Skip(r)
    /\ UNCHANGED <<clock, tables, phones, made, refused, stale, close, raced>>

\* The server stops with a queue on it, which is then not answered.
Crash(r) ==
    /\ req[r].kind = "queue"
    /\ Broken(r)
    /\ Finish(r)
    /\ UNCHANGED <<clock, tables, phones, made, refused, stale, close, raced>>

Tick ==
    /\ clock < Horizon
    /\ clock' = clock + 1
    /\ UNCHANGED <<tables, phones, req, histories>>

Step(r) ==
    \/ \E p \in Phones : Deliver(r, p)
    \/ NextAction(r) \/ RecordSuccess(r) \/ AnswerQueue(r)
    \/ UpdateStart(r) \/ FindStatus(r) \/ RecordConflict(r) \/ WriteStatus(r)
    \/ DeltaStart(r) \/ QueryDelta(r) \/ AnswerDelta(r)
    \/ SaveStart(r) \/ StateStart(r) \/ FindUser(r) \/ SaveUser(r) \/ SaveState(r)
    \/ FindCount(r) \/ SaveCount(r)
    \/ CheckInStart(r) \/ FindLastCheckIn(r) \/ InsertCheckIn(r)
    \/ Fail(r) \/ Crash(r)

Next ==
    \/ \E r \in Requests : Step(r)
    \/ \E p \in Phones : RecordOffline(p)
    \/ Tick

Spec == Init /\ [][Next]_vars
-------------------------------------------------------------------------------
(* Properties. *)

\* An update made before the one on record was written replaces it only if the
\* row changed between its findOne and its save: the comparison of
\* offlineTimestamp with lastUpdated is made on the row that was read
\* (sync.service.ts 128-173).
StaleUpdateHasACause == FALSE \notin stale

\* "Conflict detection: last-write-wins" (sync.service.ts 139): an update that is
\* refused was made before the one on record.
LastWriteWins == refused = {}

\* A phone that shows another status than the row, and whose lastSync is past
\* the row's last change, asked for its delta while that change was written:
\* lastSync is taken after the query (sync.service.ts 384-411).
MissedChangeHasACause ==
    \A p \in Phones :
        seen[p] # status.id /\ cursor[p] > status.at => <<p, status.id>> \in raced

\* Every save the rows count, of whichever day: as many as their sum.
CountedSaves ==
    UNION {{d} \X UNION {{i} \X (1 .. counts[d][i]) : i \in DOMAIN counts[d]} : d \in Days}
Total == Cardinality(CountedSaves)

\* Once no save is half done, the saves counted over all days are the users who
\* have the venue, unless two writes crossed, one broke off between its two
\* rows, a save was taken back online, the list was replaced by a phone's, or a
\* save was taken back on a later day, where the count is zero already
\* (sync.service.ts 40-48 and 288-306, users.service.ts 130-161).
MiscountHasACause ==
    (\A r \in Requests : ~At(r, {"save", "unsave"}, "count")
                          /\ ~At(r, {"save", "unsave"}, "saveCount"))
        => Total = Cardinality(saved) \/ excuses # {}

\* A user is given points for two check-ins closer than the cooldown only if the
\* second arrived later than the cooldown after the first was made, or the two
\* overlapped: what an app did offline is compared with the time it arrives at,
\* and nothing looks for the same action sent twice (engagement.service.ts 88-91).
CloseCheckInsHaveACause == \A x \in close : x.late \/ x.rival
===============================================================================
