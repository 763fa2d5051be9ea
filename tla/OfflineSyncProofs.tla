--------------------------- MODULE OfflineSyncProofs ---------------------------
(***************************************************************************)
(* Proofs about OfflineSync, for any phones, requests and endpoints in use *)
(* and any cooldown: types, and the causes of stale updates, of changes a  *)
(* phone misses, of check-ins closer than the cooldown and of a count of   *)
(* saves that is not the number of users who have the venue.               *)
(***************************************************************************)
EXTENDS OfflineSync, SequenceTheorems, FiniteSetTheorems, WellFoundedInduction, TLAPS

-------------------------------------------------------------------------------
(* The inductive invariant. *)

\* A request is of a phone, and a queue in progress has an action at its head.
Whole(q) ==
    /\ q.kind # "none" => q.phone \in Phones
    /\ q.kind = "queue" /\ q.at # "next" => q.todo # <<>>

\* A row is still written only by an update no older than the row that was read.
ReadBefore(r) ==
    At(r, {"status"}, "write") =>
        req[r].copy \in Status /\ ~(Made(r) < req[r].copy.at)

\* The answer of a delta is the row, or the phone has the row, or it changed meanwhile.
Announces(r) ==
    At(r, {"delta"}, "answer") =>
        \/ <<Mine(r), status.id>> \in raced
        \/ IF req[r].copy = None THEN status.at < cursor[Mine(r)]
           ELSE req[r].copy.id = status.id

\* Of a user's check-ins that are past the cooldown, one at a time is not known to overlap.
Writing(r) == At(r, {"checkIn"}, "write")
RivalsKnow ==
    \A p, q \in Requests :
        p # q /\ Writing(p) /\ Writing(q) /\ Mine(p) = Mine(q) => req[p].rival

\* The one that is not has no recent check-in before it.
Rested(r) ==
    Writing(r) /\ ~req[r].rival =>
        \A c \in checkIns[Mine(r)] : clock - c.at >= Cooldown

StatusInv ==
    /\ status.at <= clock /\ \A p \in Phones : cursor[p] <= clock
    /\ \A r \in Requests : ReadBefore(r) /\ Announces(r)
    /\ StaleUpdateHasACause /\ MissedChangeHasACause

CheckInInv ==
    /\ RivalsKnow /\ \A r \in Requests : Rested(r)
    /\ CloseCheckInsHaveACause

BaseInv == TypeOK /\ \A r \in Requests : Whole(req[r])

SyncInv == BaseInv /\ StatusInv /\ CheckInInv

-------------------------------------------------------------------------------
(* Requests. *)

LEMMA BoundsTyped ==
    ASSUME SyncAssumption
    PROVE  /\ Day \in Nat \ {0} /\ Cooldown \in Nat \ {0} /\ Horizon \in Nat
           /\ MaxActions \in Nat /\ MaxSaves \in Nat /\ 0 \in Days
           /\ \A t \in 0 .. Horizon : t \div Day \in Days
<1>1. /\ Day \in Nat \ {0} /\ Cooldown \in Nat \ {0} /\ Horizon \in Nat
      /\ MaxActions \in Nat /\ MaxSaves \in Nat
  BY DEF SyncAssumption
<1>2. ASSUME NEW t \in 0 .. Horizon PROVE t \div Day \in 0 .. Horizon \div Day
  <2>. DEFINE a == t \div Day
              b == Horizon \div Day
  <2>1. /\ a \in Int /\ b \in Int
        /\ a * Day <= t /\ t < (a + 1) * Day
        /\ b * Day <= Horizon /\ Horizon < (b + 1) * Day
    BY <1>1
  <2>. HIDE DEF a, b
  <2>2. a <= b
    <3>. SUFFICES ASSUME b + 1 <= a PROVE FALSE
      BY <2>1
    <3>1. (b + 1) * Day <= a * Day
      BY <1>1, <2>1
    <3>. QED
      BY <1>1, <2>1, <3>1
  <2>3. 0 <= a
    <3>. SUFFICES ASSUME a + 1 <= 0 PROVE FALSE
      BY <2>1
    <3>1. (a + 1) * Day <= 0
      BY <1>1, <2>1
    <3>. QED
      BY <1>1, <2>1, <3>1
  <2>4. a \in 0 .. b
    BY <2>1, <2>2, <2>3
  <2>. QED
    BY <2>4 DEF a, b
<1>3. 0 \in Days
  <2>1. 0 \div Day = 0 /\ 0 \in 0 .. Horizon
    BY <1>1
  <2>. QED
    BY <1>2, <2>1 DEF Days
<1>. QED
  BY <1>1, <1>2, <1>3 DEF Days

LEMMA IdleTyped ==
    ASSUME SyncAssumption
    PROVE  Idle \in Request /\ Whole(Idle) /\ Idle.at = "idle" /\ Idle.kind = "none"
<1>1. 0 \in Days /\ MaxSaves \in Nat
  BY BoundsTyped
<1>2. <<>> \in Seq(Action)
  OBVIOUS
<1>. QED
  BY <1>1, <1>2 DEF Idle, Request, Kinds, Steps, Whole

\* What r becomes is written over what it was.
LEMMA Becoming ==
    ASSUME TypeOK, NEW r \in Requests, NEW new \in Request, req' = [req EXCEPT ![r] = new]
    PROVE  /\ req' \in [Requests -> Request] /\ req'[r] = new
           /\ \A q \in Requests \ {r} : req'[q] = req[q]
  BY DEF TypeOK

\* r goes on to a step that has nothing to remember of the tables.
Moves(r) ==
    \E new \in Request : /\ req' = [req EXCEPT ![r] = new]
                         /\ Whole(new) /\ new.at \notin {"write", "answer"}

LEMMA MovesKnown ==
    ASSUME TypeOK, NEW r \in Requests, Moves(r)
    PROVE  /\ req' \in [Requests -> Request] /\ Whole(req'[r])
           /\ req'[r].at \notin {"write", "answer"}
           /\ \A q \in Requests \ {r} : req'[q] = req[q]
  BY Becoming DEF Moves

\* Whose request it is, what it does, and when that was done.
LEMMA AtKnown ==
    ASSUME SyncAssumption, TypeOK, NEW r \in Requests, Whole(req[r]), NEW D, NEW step,
           "none" \notin D, At(r, D, step)
    PROVE  /\ Mine(r) \in Phones /\ req[r].kind # "none" /\ req[r] \in Request
           /\ req[r].kind = "queue" => req[r].todo # <<>> /\ IdOf(r) \in Ids
           /\ req[r].kind # "queue" => req[r].kind \in D
           /\ Made(r) \in 0 .. Horizon /\ IdOf(r) \in 0 .. MaxActions
<1>0. req[r] \in Request /\ MaxActions \in Nat
  BY BoundsTyped DEF TypeOK
<1>1. req[r].kind # "none" /\ (req[r].kind # "queue" => req[r].kind \in D)
  BY DEF At, Doing
<1>2. Mine(r) \in Phones
  BY <1>1 DEF Whole, Mine
<1>3. req[r].kind = "queue" => req[r].todo # <<>>
  BY DEF At, Doing
<1>4. req[r].todo # <<>> => This(r) \in Action
  <2>1. req[r].todo \in Seq(Action)
    BY <1>0 DEF Request
  <2>. QED
    BY <2>1, HeadTailProperties DEF This
<1>5. Made(r) \in 0 .. Horizon
  BY <1>3, <1>4 DEF Made, Action, TypeOK
<1>6. IdOf(r) \in 0 .. MaxActions /\ (req[r].kind = "queue" => IdOf(r) \in Ids)
  BY <1>0, <1>3, <1>4 DEF IdOf, Action, Ids
<1>. QED
  BY <1>0, <1>1, <1>2, <1>3, <1>5, <1>6

LEMMA SkipMoves ==
    ASSUME SyncAssumption, TypeOK, NEW r \in Requests, Whole(req[r]), Skip(r),
           req[r].kind = "queue" => req[r].todo # <<>>
    PROVE  Moves(r)
<1>0. req[r] \in Request
  BY DEF TypeOK
<1>1. CASE req[r].kind = "queue"
  <2>1. req[r].todo \in Seq(Action)
    BY <1>0 DEF Request
  <2>2. PICK rest \in Seq(Action) : rest = Tail(req[r].todo)
    BY <1>1, <2>1, HeadTailProperties
  <2>3. Mine(r) \in Phones /\ req[r].sent \in SUBSET Ids
    BY <1>0, <1>1 DEF Whole, Mine, Request
  <2>4. PICK new : new = [Idle EXCEPT !.kind = "queue", !.at = "next", !.phone = Mine(r),
                                      !.todo = rest, !.sent = req[r].sent]
    OBVIOUS
  <2>5. new \in Request
    BY <2>3, <2>4, IdleTyped DEF Request, Kinds, Steps
  <2>6. Whole(new) /\ new.at = "next"
    BY <2>3, <2>4 DEF Whole, Idle
  <2>7. req' = [req EXCEPT ![r] = new]
    BY <1>1, <2>2, <2>4 DEF Skip
  <2>. QED
    BY <2>5, <2>6, <2>7 DEF Moves
<1>2. CASE req[r].kind # "queue"
  BY <1>2, IdleTyped DEF Skip, Finish, Moves
<1>. QED
  BY <1>1, <1>2

LEMMA GotoMoves ==
    ASSUME SyncAssumption, TypeOK, NEW r \in Requests, Whole(req[r]),
           NEW step \in Steps \ {"write", "answer"}, Goto(r, step),
           req[r].kind = "queue" => req[r].todo # <<>>
    PROVE  Moves(r)
<1>0. req[r] \in Request
  BY DEF TypeOK
<1>1. PICK new : new = [req[r] EXCEPT !.at = step]
  OBVIOUS
<1>2. new \in Request
  BY <1>0, <1>1 DEF Request
<1>3. Whole(new) /\ new.at \notin {"write", "answer"}
  BY <1>0, <1>1 DEF Whole, Request
<1>4. req' = [req EXCEPT ![r] = new]
  BY <1>1 DEF Goto
<1>. QED
  BY <1>2, <1>3, <1>4 DEF Moves

LEMMA FinishMoves ==
    ASSUME SyncAssumption, TypeOK, NEW r \in Requests, Finish(r)
    PROVE  Moves(r)
  BY IdleTyped DEF Finish, Moves

LEMMA DoneMoves ==
    ASSUME SyncAssumption, TypeOK, NEW r \in Requests, Whole(req[r]), Done(r),
           req[r].kind = "queue" => req[r].todo # <<>>
    PROVE  Moves(r)
<1>1. "record" \in Steps \ {"write", "answer"}
  BY DEF Steps
<1>. QED
  BY <1>1, GotoMoves, FinishMoves DEF Done

\* Any request begins at a step of its own.
LEMMA BeginMoves ==
    ASSUME SyncAssumption, TypeOK, NEW r \in Requests,
           NEW kind \in Kinds, NEW p \in Phones, NEW step \in Steps \ {"write", "answer"},
           NEW todo \in Seq(Action), NEW sent \in SUBSET Ids,
           kind = "queue" /\ step # "next" => todo # <<>>,
           req' = [req EXCEPT ![r] = [Idle EXCEPT !.kind = kind, !.at = step, !.phone = p,
                                                  !.todo = todo, !.sent = sent]]
    PROVE  Moves(r)
<1>1. PICK new : new = [Idle EXCEPT !.kind = kind, !.at = step, !.phone = p,
                                    !.todo = todo, !.sent = sent]
  OBVIOUS
<1>2. new \in Request
  BY <1>1, IdleTyped DEF Request
<1>3. Whole(new) /\ new.at = step
  BY <1>1 DEF Whole, Idle
<1>. QED
  BY <1>1, <1>2, <1>3 DEF Moves

LEMMA StartMoves ==
    ASSUME SyncAssumption, TypeOK, NEW r \in Requests, NEW kind \in Kinds \ {"queue"},
           NEW p \in Phones, NEW step \in Steps \ {"write", "answer"}, Start(r, kind, p, step)
    PROVE  Moves(r)
<1>1. PICK new : new = [Idle EXCEPT !.kind = kind, !.phone = p, !.at = step]
  OBVIOUS
<1>2. new \in Request
  BY <1>1, IdleTyped DEF Request
<1>3. Whole(new) /\ new.at = step
  BY <1>1 DEF Whole, Idle
<1>4. req' = [req EXCEPT ![r] = new]
  BY <1>1 DEF Start
<1>. QED
  BY <1>2, <1>3, <1>4 DEF Moves

LEMMA Beginning ==
    ASSUME SyncAssumption, TypeOK, NEW r \in Requests,
           \/ \E p \in Phones : Deliver(r, p)
           \/ UpdateStart(r) \/ DeltaStart(r) \/ SaveStart(r) \/ StateStart(r) \/ CheckInStart(r)
    PROVE  Moves(r)
<1>1. CASE \E p \in Phones : Deliver(r, p)
  <2>1. PICK p \in Phones :
            req' = [req EXCEPT ![r] = [Idle EXCEPT
                        !.kind = "queue", !.at = "next", !.phone = p, !.todo = queue[p],
                        !.sent = {a.id : a \in ToSet(queue[p])}]]
    BY <1>1 DEF Deliver
  <2>2. queue[p] \in Seq(Action)
    BY DEF TypeOK
  <2>3. PICK sent \in SUBSET Ids : sent = {a.id : a \in ToSet(queue[p])}
    <3>1. \A i \in DOMAIN queue[p] : queue[p][i] \in Action
      BY <2>2
    <3>2. \A a \in Action : a.id \in Ids
      BY DEF Action
    <3>. QED
      BY <3>1, <3>2, Zenon DEF ToSet
  <2>4. "queue" \in Kinds /\ "next" \in Steps \ {"write", "answer"}
    BY DEF Kinds, Steps
  <2>5. req' = [req EXCEPT ![r] = [Idle EXCEPT !.kind = "queue", !.at = "next", !.phone = p,
                                               !.todo = queue[p], !.sent = sent]]
    BY <2>1, <2>3
  <2>. QED
    BY <2>2, <2>4, <2>5, BeginMoves
<1>2. CASE UpdateStart(r)
  <2>1. PICK p \in Phones :
            /\ minted < MaxActions
            /\ req' = [req EXCEPT ![r] = [Idle EXCEPT
                  !.kind = "status", !.phone = p, !.at = "find",
                  !.todo = <<[type |-> "status", id |-> minted + 1, time |-> clock]>>]]
    BY <1>2 DEF UpdateStart
  <2>2. [type |-> "status", id |-> minted + 1, time |-> clock] \in Action
    <3>1. minted + 1 \in Ids
      <4>1. minted \in Nat /\ MaxActions \in Nat /\ minted < MaxActions
        BY <2>1, BoundsTyped DEF TypeOK
      <4>. QED
        BY <4>1 DEF Ids
    <3>2. clock \in 0 .. Horizon /\ "status" \in Types
      BY DEF TypeOK, Types
    <3>. QED
      BY <3>1, <3>2 DEF Action
  <2>3. PICK a \in Action : a = [type |-> "status", id |-> minted + 1, time |-> clock]
    BY <2>2
  <2>4. PICK todo \in Seq(Action) : todo = <<a>>
    <3>1. <<a>> \in Seq(Action)
      OBVIOUS
    <3>. QED
      BY <3>1, Zenon
  <2>5. PICK new : new = [Idle EXCEPT !.kind = "status", !.phone = p, !.at = "find",
                                      !.todo = todo]
    OBVIOUS
  <2>6. new \in Request
    BY <2>4, <2>5, IdleTyped DEF Request, Kinds, Steps
  <2>7. Whole(new) /\ new.at = "find"
    BY <2>5 DEF Whole, Idle
  <2>8. req' = [req EXCEPT ![r] = new]
    BY <2>1, <2>3, <2>4, <2>5
  <2>. QED
    BY <2>6, <2>7, <2>8 DEF Moves
<1>3. CASE DeltaStart(r) \/ SaveStart(r) \/ StateStart(r) \/ CheckInStart(r)
  <2>1. /\ {"delta", "save", "unsave", "state", "checkIn"} \subseteq Kinds \ {"queue"}
        /\ {"query", "user", "find"} \subseteq Steps \ {"write", "answer"}
    BY DEF Kinds, Steps
  <2>. QED
    BY <1>3, <2>1, StartMoves DEF DeltaStart, SaveStart, StateStart, CheckInStart
<1>. QED
  BY <1>1, <1>2, <1>3

LEMMA Continuing ==
    ASSUME SyncAssumption, BaseInv, NEW r \in Requests,
           \/ NextAction(r) \/ RecordSuccess(r) \/ AnswerQueue(r) \/ RecordConflict(r)
           \/ WriteStatus(r) \/ AnswerDelta(r) \/ FindUser(r) \/ SaveUser(r) \/ SaveState(r)
           \/ FindCount(r) \/ SaveCount(r) \/ InsertCheckIn(r) \/ Fail(r) \/ Crash(r)
    PROVE  Moves(r)
<1>0. TypeOK /\ Whole(req[r]) /\ req[r] \in Request
  BY DEF BaseInv, TypeOK
<1>1. CASE NextAction(r)
  <2>1. Goto(r, "user") \/ Goto(r, "find")
    BY <1>1 DEF NextAction
  <2>2. {"user", "find"} \subseteq Steps \ {"write", "answer"} /\ req[r].todo # <<>>
    BY <1>1 DEF NextAction, Steps
  <2>. QED
    BY <1>0, <2>1, <2>2, GotoMoves
<1>2. CASE RecordSuccess(r) \/ RecordConflict(r)
  <2>1. Skip(r) /\ req[r].at # "next"
    BY <1>2 DEF RecordSuccess, RecordConflict, At
  <2>. QED
    BY <1>0, <2>1, SkipMoves DEF Whole
<1>3. CASE AnswerQueue(r) \/ AnswerDelta(r) \/ SaveState(r) \/ Crash(r)
  BY <1>0, <1>3, FinishMoves DEF AnswerQueue, AnswerDelta, SaveState, Crash
<1>4. CASE WriteStatus(r) \/ SaveCount(r) \/ InsertCheckIn(r)
  <2>1. Done(r) /\ req[r].at # "next"
    BY <1>4 DEF WriteStatus, SaveCount, InsertCheckIn, At
  <2>. QED
    BY <1>0, <2>1, DoneMoves DEF Whole
<1>5. CASE SaveUser(r)
  <2>1. (Done(r) \/ Goto(r, "count")) /\ req[r].at # "next"
    BY <1>5 DEF SaveUser, At
  <2>2. "count" \in Steps \ {"write", "answer"}
    BY DEF Steps
  <2>. QED
    BY <1>0, <2>1, <2>2, DoneMoves, GotoMoves DEF Whole
<1>6. CASE FindUser(r)
  <2>0. req[r].at # "next"
    BY <1>6 DEF FindUser, At
  <2>1. CASE Done(r)
    BY <1>0, <2>0, <2>1, DoneMoves DEF Whole
  <2>2. CASE req' = [req EXCEPT ![r].at = "saveUser", ![r].rival = Mine(r) \in saved]
    <3>1. (Mine(r) \in saved) \in BOOLEAN
      OBVIOUS
    <3>2. PICK new : new = [req[r] EXCEPT !.at = "saveUser", !.rival = Mine(r) \in saved]
      OBVIOUS
    <3>3. new \in Request
      BY <1>0, <3>1, <3>2 DEF Request, Steps
    <3>4. Whole(new) /\ new.at = "saveUser"
      BY <1>0, <2>0, <3>2 DEF Whole, Request
    <3>5. req' = [req EXCEPT ![r] = new]
      BY <2>2, <3>2
    <3>. QED
      BY <3>3, <3>4, <3>5 DEF Moves
  <2>. QED
    BY <1>6, <2>1, <2>2 DEF FindUser
<1>7. CASE FindCount(r)
  <2>0. req[r].at # "next"
    BY <1>7 DEF FindCount, At
  <2>1. Today \in Days /\ counts[Today] \in Seq(0 .. MaxSaves) /\ 0 \in 0 .. MaxSaves
    <3>1. clock \in 0 .. Horizon /\ counts \in [Days -> Seq(0 .. MaxSaves)]
      BY <1>0 DEF TypeOK
    <3>2. Today \in Days
      BY <3>1, BoundsTyped DEF Today
    <3>3. MaxSaves \in Nat
      BY BoundsTyped
    <3>. QED
      BY <3>1, <3>2, <3>3
  <2>2. PICK i \in Nat, n \in 0 .. MaxSaves :
            req' = [req EXCEPT ![r].at = "saveCount", ![r].day = Today,
                               ![r].row = i, ![r].n = n]
    <3>1. CASE req' = [req EXCEPT ![r].at = "saveCount", ![r].day = Today,
                                  ![r].row = 0, ![r].n = 0]
      BY <2>1, <3>1
    <3>2. CASE \E i \in DOMAIN counts[Today] :
                   req' = [req EXCEPT ![r].at = "saveCount", ![r].day = Today,
                                      ![r].row = i, ![r].n = counts[Today][i]]
      <4>1. \A i \in DOMAIN counts[Today] : i \in Nat /\ counts[Today][i] \in 0 .. MaxSaves
        BY <2>1
      <4>. QED
        BY <3>2, <4>1
    <3>. QED
      BY <1>7, <3>1, <3>2 DEF FindCount
  <2>3. PICK new : new = [req[r] EXCEPT !.at = "saveCount", !.day = Today, !.row = i, !.n = n]
    OBVIOUS
  <2>4. new \in Request
    BY <1>0, <2>1, <2>3 DEF Request, Steps
  <2>5. Whole(new) /\ new.at = "saveCount"
    BY <1>0, <2>0, <2>3 DEF Whole, Request
  <2>6. req' = [req EXCEPT ![r] = new]
    BY <2>2, <2>3
  <2>. QED
    BY <2>4, <2>5, <2>6 DEF Moves
<1>8. CASE Fail(r)
  <2>1. Skip(r) /\ req[r].at # "next"
    BY <1>8 DEF Fail
  <2>. QED
    BY <1>0, <2>1, SkipMoves DEF Whole
<1>. QED
  BY <1>1, <1>2, <1>3, <1>4, <1>5, <1>6, <1>7, <1>8

\* Another request of a step: it may learn that it has a rival.
Apart(q) ==
    /\ req'[q].kind = req[q].kind /\ req'[q].at = req[q].at /\ req'[q].phone = req[q].phone
    /\ req'[q].todo = req[q].todo /\ req'[q].copy = req[q].copy
    /\ req[q].rival => req'[q].rival

LEMMA ApartKnown ==
    ASSUME NEW q, Apart(q)
    PROVE  /\ \A D, step : At(q, D, step)' <=> At(q, D, step)
           /\ Mine(q)' = Mine(q) /\ (Writing(q)' <=> Writing(q))
           /\ clock' = clock => Made(q)' = Made(q)
           /\ IdOf(q)' = IdOf(q)
           /\ req[q].kind = "queue" => Made(q)' = Made(q)
<1>1. This(q)' = This(q) /\ Doing(q)' = Doing(q) /\ Mine(q)' = Mine(q)
  BY DEF Apart, This, Doing, Mine
<1>2. \A D, step : At(q, D, step)' <=> At(q, D, step)
  BY <1>1 DEF At, Apart
<1>3. Writing(q)' <=> Writing(q)
  BY <1>1 DEF At, Apart, Writing
<1>4. IdOf(q)' = IdOf(q) /\ (req[q].kind = "queue" \/ clock' = clock => Made(q)' = Made(q))
  BY <1>1 DEF IdOf, Made, Apart
<1>. QED
  BY <1>1, <1>2, <1>3, <1>4

LEMMA MovesApart ==
    ASSUME TypeOK, NEW r \in Requests, Moves(r)
    PROVE  \A q \in Requests \ {r} : Apart(q)
  BY MovesKnown DEF Apart

\* What each of the three steps that read a row to act on it remembers.
LEMMA FindStatusKnown ==
    ASSUME SyncAssumption, BaseInv, NEW r \in Requests, FindStatus(r)
    PROVE  /\ req' \in [Requests -> Request] /\ Whole(req'[r])
           /\ \A q \in Requests \ {r} : req'[q] = req[q]
           /\ req'[r].kind = req[r].kind /\ req'[r].todo = req[r].todo
           /\ req'[r].copy = status
           /\ req'[r].at = IF Conflicts(r) THEN "conflict" ELSE "write"
<1>0. TypeOK /\ Whole(req[r]) /\ req[r] \in Request /\ req[r].at = "find"
  BY DEF BaseInv, TypeOK, FindStatus, At
<1>1. PICK step \in {"conflict", "write"} : step = IF Conflicts(r) THEN "conflict" ELSE "write"
  OBVIOUS
<1>2. PICK new : new = [req[r] EXCEPT !.copy = status, !.at = step]
  OBVIOUS
<1>3. new \in Request
  BY <1>0, <1>2 DEF Request, Steps, TypeOK
<1>4. Whole(new) /\ new.kind = req[r].kind /\ new.todo = req[r].todo
      /\ new.copy = status /\ new.at = step
  BY <1>0, <1>2 DEF Whole, Request
<1>5. req' = [req EXCEPT ![r] = new]
  BY <1>1, <1>2 DEF FindStatus
<1>. QED
  BY <1>0, <1>1, <1>3, <1>4, <1>5, Becoming

LEMMA QueryDeltaKnown ==
    ASSUME SyncAssumption, BaseInv, NEW r \in Requests, QueryDelta(r)
    PROVE  /\ req' \in [Requests -> Request] /\ Whole(req'[r])
           /\ \A q \in Requests \ {r} : req'[q] = req[q]
           /\ req'[r].kind = "delta" /\ req'[r].at = "answer" /\ req'[r].phone = Mine(r)
           /\ req'[r].copy = IF status.at >= cursor[Mine(r)] THEN status ELSE None
<1>0. TypeOK /\ Whole(req[r]) /\ req[r] \in Request
  BY DEF BaseInv, TypeOK
<1>1. req[r].kind = "delta"
  <2>1. req[r].kind = "queue" => req[r].todo # <<>> /\ This(r).type = "delta"
    BY DEF QueryDelta, At, Doing
  <2>2. req[r].todo \in Seq(Action)
    BY <1>0 DEF Request
  <2>3. req[r].todo # <<>> => This(r) \in Action
    BY <2>2, HeadTailProperties DEF This
  <2>4. req[r].kind # "queue"
    BY <2>1, <2>3 DEF Action, Types
  <2>. QED
    BY <2>4 DEF QueryDelta, At, Doing
<1>2. PICK copy \in Status \cup {None} :
          copy = IF status.at >= cursor[Mine(r)] THEN status ELSE None
  BY <1>0 DEF TypeOK
<1>3. PICK new : new = [req[r] EXCEPT !.at = "answer", !.copy = copy]
  OBVIOUS
<1>4. new \in Request
  BY <1>0, <1>3 DEF Request, Steps
<1>5. Whole(new) /\ new.kind = "delta" /\ new.at = "answer" /\ new.phone = Mine(r)
      /\ new.copy = copy
  BY <1>0, <1>1, <1>3 DEF Whole, Request, Mine
<1>6. req' = [req EXCEPT ![r] = new]
  BY <1>2, <1>3 DEF QueryDelta
<1>. QED
  BY <1>0, <1>2, <1>4, <1>5, <1>6, Becoming

\* Within the cooldown the action is over; otherwise both sides learn of a rival.
LEMMA FindLastCheckInKnown ==
    ASSUME SyncAssumption, BaseInv, NEW r \in Requests, FindLastCheckIn(r)
    PROVE  \/ Recently(Mine(r)) /\ Moves(r)
           \/ /\ ~Recently(Mine(r))
              /\ req' \in [Requests -> Request] /\ \A q \in Requests : Whole(req'[q])
              /\ \A q \in Requests \ {r} : Apart(q)
              /\ \A q \in Rivals(r) : req'[q].rival
              /\ req'[r].kind = req[r].kind /\ req'[r].todo = req[r].todo
              /\ req'[r].phone = req[r].phone
              /\ req'[r].at = "write" /\ req'[r].rival = (Rivals(r) # {})
<1>0. TypeOK /\ Whole(req[r]) /\ req[r] \in Request /\ req[r].at = "find"
  BY DEF BaseInv, TypeOK, FindLastCheckIn, At
<1>1. CASE Recently(Mine(r))
  <2>1. Skip(r)
    BY <1>1 DEF FindLastCheckIn
  <2>. QED
    BY <1>0, <1>1, <2>1, SkipMoves DEF Whole
<1>2. CASE ~Recently(Mine(r))
  <2>1. req' = [q \in Requests |->
               IF q = r
               THEN [req[r] EXCEPT !.at = "write", !.rival = Rivals(r) # {}]
               ELSE IF q \in Rivals(r) THEN [req[q] EXCEPT !.rival = TRUE] ELSE req[q]]
    BY <1>2 DEF FindLastCheckIn
  <2>2. (Rivals(r) # {}) \in BOOLEAN
    OBVIOUS
  <2>3. PICK new : new = [req[r] EXCEPT !.at = "write", !.rival = Rivals(r) # {}]
    OBVIOUS
  <2>4. new \in Request
    BY <1>0, <2>2, <2>3 DEF Request, Steps
  <2>5. /\ Whole(new) /\ new.kind = req[r].kind /\ new.todo = req[r].todo
        /\ new.phone = req[r].phone /\ new.at = "write" /\ new.rival = (Rivals(r) # {})
    BY <1>0, <2>3 DEF Whole, Request
  <2>6. req'[r] = new
    BY <2>1, <2>3
  <2>7. ASSUME NEW q \in Requests \ {r}
        PROVE  req'[q] \in Request /\ Whole(req'[q]) /\ Apart(q) /\ (q \in Rivals(r) => req'[q].rival)
    <3>0. req[q] \in Request /\ Whole(req[q])
      BY <1>0 DEF TypeOK, BaseInv
    <3>1. CASE q \in Rivals(r)
      <4>1. req'[q] = [req[q] EXCEPT !.rival = TRUE]
        BY <2>1, <3>1
      <4>2. PICK other : other = [req[q] EXCEPT !.rival = TRUE]
        OBVIOUS
      <4>3. other \in Request
        BY <3>0, <4>2 DEF Request
      <4>4. /\ Whole(other) /\ other.rival /\ other.kind = req[q].kind /\ other.at = req[q].at
            /\ other.phone = req[q].phone /\ other.todo = req[q].todo /\ other.copy = req[q].copy
        BY <3>0, <4>2 DEF Request, Whole
      <4>. QED
        BY <4>1, <4>2, <4>3, <4>4 DEF Apart
    <3>2. CASE q \notin Rivals(r)
      BY <2>1, <3>0, <3>2 DEF Apart
    <3>. QED
      BY <3>1, <3>2
  <2>8. Rivals(r) \subseteq Requests \ {r}
    BY DEF Rivals, Others
  <2>9. req' \in [Requests -> Request]
    <3>1. \A q \in Requests : req'[q] \in Request
      BY <2>4, <2>6, <2>7
    <3>2. req' = [q \in Requests |-> req'[q]]
      BY <2>1
    <3>. QED
      BY <3>1, <3>2
  <2>. QED
    BY <1>2, <2>5, <2>6, <2>7, <2>8, <2>9
<1>. QED
  BY <1>1, <1>2

LEMMA RequestsStep ==
    ASSUME SyncAssumption, BaseInv, [Next]_vars
    PROVE  req' \in [Requests -> Request] /\ \A q \in Requests : Whole(req'[q])
<1>0. TypeOK /\ \A q \in Requests : Whole(req[q])
  BY DEF BaseInv
<1>1. CASE req' = req
  BY <1>0, <1>1 DEF TypeOK
<1>2. ASSUME NEW r \in Requests, Moves(r)
      PROVE  req' \in [Requests -> Request] /\ \A q \in Requests : Whole(req'[q])
  BY <1>0, <1>2, MovesKnown
<1>3. ASSUME NEW r \in Requests, Step(r)
      PROVE  req' \in [Requests -> Request] /\ \A q \in Requests : Whole(req'[q])
  <2>1. CASE FindStatus(r)
    BY <1>0, <2>1, FindStatusKnown
  <2>2. CASE QueryDelta(r)
    BY <1>0, <2>2, QueryDeltaKnown
  <2>3. CASE FindLastCheckIn(r)
    BY <1>2, <2>3, FindLastCheckInKnown
  <2>. QED
    BY <1>0, <1>2, <1>3, <2>1, <2>2, <2>3, Beginning, Continuing DEF Step
<1>4. CASE UNCHANGED vars \/ Tick \/ \E p \in Phones : RecordOffline(p)
  BY <1>1, <1>4 DEF vars, Tick, RecordOffline
<1>. QED
  BY <1>3, <1>4 DEF Next

-------------------------------------------------------------------------------
(* Types. *)

LEMMA QuietTyped ==
    ASSUME TypeOK, UNCHANGED <<clock, tables, phones, histories>>,
           req' \in [Requests -> Request]
    PROVE  TypeOK'
  BY DEF TypeOK, tables, phones, histories

LEMMA ForgetTyped ==
    ASSUME TypeOK, NEW p \in Phones, NEW ids, Forget(p, ids)
    PROVE  queue' \in [Phones -> Seq(Action)]
<1>1. PICK n \in 0 .. Len(queue[p]) :
          queue' = [queue EXCEPT ![p] = SubSeq(@, n + 1, Len(queue[p]))]
  BY DEF Forget
<1>2. queue[p] \in Seq(Action) /\ queue \in [Phones -> Seq(Action)]
  BY DEF TypeOK
<1>3. Len(queue[p]) \in Nat /\ \A i \in 1 .. Len(queue[p]) : queue[p][i] \in Action
  BY <1>2
<1>4. SubSeq(queue[p], n + 1, Len(queue[p])) \in Seq(Action)
  BY <1>2, <1>3, SubSeqProperties
<1>. QED
  BY <1>1, <1>2, <1>4

LEMMA RecordOfflineTyped ==
    ASSUME SyncAssumption, TypeOK, NEW p \in Phones, RecordOffline(p)
    PROVE  TypeOK'
<1>1. PICK t \in Types :
          /\ minted < MaxActions /\ minted' = minted + 1
          /\ queue' = [queue EXCEPT ![p] =
                         Append(@, [type |-> t, id |-> minted + 1, time |-> clock])]
          /\ UNCHANGED <<clock, tables, seen, cursor, req, histories>>
  BY DEF RecordOffline
<1>2. minted' \in 0 .. MaxActions
  BY <1>1, BoundsTyped DEF TypeOK
<1>3. PICK a \in Action : a = [type |-> t, id |-> minted + 1, time |-> clock]
  <2>1. minted + 1 \in Ids /\ clock \in 0 .. Horizon
    BY <1>1, BoundsTyped DEF Ids, TypeOK
  <2>2. [type |-> t, id |-> minted + 1, time |-> clock] \in Action
    BY <2>1 DEF Action
  <2>. QED
    BY <2>2, Zenon
<1>4. queue' \in [Phones -> Seq(Action)]
  <2>1. queue \in [Phones -> Seq(Action)] /\ Append(queue[p], a) \in Seq(Action)
    BY DEF TypeOK
  <2>2. queue' = [queue EXCEPT ![p] = Append(queue[p], a)]
    BY <1>1, <1>3
  <2>. QED
    BY <2>1, <2>2
<1>. QED
  BY <1>1, <1>2, <1>4 DEF TypeOK, tables, histories

LEMMA WriteStatusTyped ==
    ASSUME SyncAssumption, BaseInv, NEW r \in Requests, WriteStatus(r),
           req' \in [Requests -> Request]
    PROVE  TypeOK'
<1>0. TypeOK /\ Whole(req[r]) /\ \A q \in Requests : Whole(req[q])
  BY DEF BaseInv
<1>1. CASE status.id = IdOf(r)
  BY <1>0, <1>1 DEF WriteStatus, TypeOK, phones
<1>2. CASE status.id # IdOf(r)
  <2>1. Made(r) \in 0 .. Horizon /\ IdOf(r) \in 0 .. MaxActions
    BY <1>0, AtKnown DEF WriteStatus
  <2>2. status' \in Status /\ made' \in 0 .. Horizon
    BY <1>0, <1>2, <2>1 DEF WriteStatus, Status, TypeOK
  <2>3. stale' \subseteq BOOLEAN
    <3>1. (req[r].copy # status) \in BOOLEAN
      OBVIOUS
    <3>. QED
      BY <1>0, <1>2, <3>1 DEF WriteStatus, TypeOK
  <2>4. raced' \subseteq Phones \X (0 .. MaxActions)
    <3>1. ASSUME NEW q \in Others(r, {"delta"}, "answer") PROVE Mine(q) \in Phones
      <4>1. q \in Requests /\ At(q, {"delta"}, "answer") /\ Whole(req[q])
        BY <1>0 DEF Others
      <4>. QED
        BY <1>0, <4>1, AtKnown
    <3>. QED
      BY <1>0, <1>2, <2>1, <3>1 DEF WriteStatus, TypeOK
  <2>. QED
    BY <1>0, <1>2, <2>2, <2>3, <2>4 DEF WriteStatus, TypeOK, phones
<1>. QED
  BY <1>1, <1>2

LEMMA SaveCountTyped ==
    ASSUME SyncAssumption, BaseInv, NEW r \in Requests, SaveCount(r),
           req' \in [Requests -> Request]
    PROVE  TypeOK'
<1>0. TypeOK /\ req[r] \in Request
  BY DEF BaseInv, TypeOK
<1>1. req[r].day \in Days /\ req[r].row \in Nat /\ req[r].n \in 0 .. MaxSaves
      /\ MaxSaves \in Nat /\ counts \in [Days -> Seq(0 .. MaxSaves)]
  BY <1>0, BoundsTyped DEF Request, TypeOK
<1>2. Counted(r) \in 0 .. MaxSaves
  BY <1>1 DEF SaveCount, Counted
<1>3. counts' \in [Days -> Seq(0 .. MaxSaves)]
  <2>1. PICK n \in 0 .. MaxSaves : n = Counted(r)
    BY <1>2
  <2>2. PICK rows : rows = counts[req[r].day]
    OBVIOUS
  <2>3. rows \in Seq(0 .. MaxSaves)
    BY <1>1, <2>2
  <2>4. Append(rows, n) \in Seq(0 .. MaxSaves)
    BY <2>3
  <2>5. [rows EXCEPT ![req[r].row] = n] \in Seq(0 .. MaxSaves)
    <3>1. CASE req[r].row \in 1 .. Len(rows)
      BY <2>3, <3>1, ExceptSeq
    <3>2. CASE req[r].row \notin 1 .. Len(rows)
      <4>1. Len(rows) \in Nat /\ rows \in [1 .. Len(rows) -> 0 .. MaxSaves]
        BY <2>3
      <4>2. [rows EXCEPT ![req[r].row] = n] = rows
        <5>. DEFINE D == 1 .. Len(rows)
        <5>1. rows \in [D -> 0 .. MaxSaves] /\ req[r].row \notin D
          BY <3>2, <4>1
        <5>. HIDE DEF D
        <5>. QED
          BY <5>1
      <4>. QED
        BY <2>3, <4>2
    <3>. QED
      BY <3>1, <3>2
  <2>6. counts' = [counts EXCEPT ![req[r].day] =
                      IF req[r].row = 0 THEN Append(rows, n) ELSE [rows EXCEPT ![req[r].row] = n]]
    BY <2>1, <2>2 DEF SaveCount
  <2>. QED
    BY <1>1, <2>4, <2>5, <2>6
<1>4. excuses' \subseteq {"crossed", "broken", "uncounted", "replaced", "later"}
  BY <1>0 DEF SaveCount, TypeOK
<1>. QED
  BY <1>0, <1>3, <1>4 DEF SaveCount, TypeOK, phones

LEMMA InsertCheckInTyped ==
    ASSUME SyncAssumption, BaseInv, NEW r \in Requests, InsertCheckIn(r),
           req' \in [Requests -> Request]
    PROVE  TypeOK'
<1>0. TypeOK /\ Whole(req[r]) /\ req[r] \in Request
  BY DEF BaseInv, TypeOK
<1>1. Mine(r) \in Phones /\ Made(r) \in 0 .. Horizon /\ IdOf(r) \in 0 .. MaxActions
  BY <1>0, AtKnown DEF InsertCheckIn
<1>2. checkIns' \in [Phones -> SUBSET [id : 0 .. MaxActions, at : 0 .. Horizon]]
  <2>1. PICK c \in [id : 0 .. MaxActions, at : 0 .. Horizon] :
            c = [id |-> IdOf(r), at |-> Made(r)]
    BY <1>1
  <2>2. checkIns' = [checkIns EXCEPT ![Mine(r)] = checkIns[Mine(r)] \cup {c}]
    BY <2>1 DEF InsertCheckIn
  <2>. QED
    BY <1>0, <1>1, <2>2 DEF TypeOK
<1>3. close' \subseteq [late : BOOLEAN, rival : BOOLEAN]
  <2>1. \A c : (clock - c.at >= Cooldown) \in BOOLEAN
    OBVIOUS
  <2>2. req[r].rival \in BOOLEAN
    BY <1>0 DEF Request
  <2>3. \A c : [late |-> clock - c.at >= Cooldown, rival |-> req[r].rival]
                 \in [late : BOOLEAN, rival : BOOLEAN]
    BY <2>1, <2>2
  <2>4. PICK near : close' = close \cup {[late |-> clock - c.at >= Cooldown,
                                        rival |-> req[r].rival] : c \in near}
    BY DEF InsertCheckIn
  <2>5. close \subseteq [late : BOOLEAN, rival : BOOLEAN]
    BY <1>0 DEF TypeOK
  <2>6. {[late |-> clock - c.at >= Cooldown, rival |-> req[r].rival] : c \in near}
            \subseteq [late : BOOLEAN, rival : BOOLEAN]
    BY <2>3
  <2>. QED
    BY <2>4, <2>5, <2>6
<1>4. UNCHANGED <<clock, status, saved, counts, minted, queue, seen, cursor, made, refused, stale,
                  excuses, raced>>
  BY DEF InsertCheckIn, phones
<1>. QED
  BY <1>0, <1>2, <1>3, <1>4 DEF TypeOK

LEMMA StepTyped ==
    ASSUME SyncAssumption, BaseInv, NEW r \in Requests, Step(r),
           req' \in [Requests -> Request]
    PROVE  TypeOK'
<1>0. TypeOK /\ Whole(req[r]) /\ req[r] \in Request
  BY DEF BaseInv, TypeOK
<1>1. CASE \/ \E p \in Phones : Deliver(r, p)
           \/ NextAction(r) \/ RecordSuccess(r) \/ RecordConflict(r)
           \/ DeltaStart(r) \/ QueryDelta(r) \/ SaveStart(r) \/ StateStart(r)
           \/ FindUser(r) \/ FindCount(r) \/ CheckInStart(r) \/ FindLastCheckIn(r)
  <2>1. UNCHANGED <<clock, tables, phones, histories>>
    BY <1>1 DEF Deliver, NextAction, RecordSuccess, RecordConflict, DeltaStart, QueryDelta,
         SaveStart, StateStart, FindUser, FindCount, CheckInStart, FindLastCheckIn, Start
  <2>. QED
    BY <1>0, <2>1, QuietTyped
<1>2. CASE AnswerQueue(r)
  <2>1. Mine(r) \in Phones
    BY <1>0, <1>2 DEF AnswerQueue, Whole, Mine
  <2>2. queue' \in [Phones -> Seq(Action)]
    BY <1>0, <1>2, <2>1, ForgetTyped DEF AnswerQueue, TypeOK
  <2>. QED
    BY <1>0, <1>2, <2>2 DEF AnswerQueue, TypeOK, tables, histories
<1>3. CASE UpdateStart(r)
  <2>1. minted' \in 0 .. MaxActions
    <3>1. minted \in 0 .. MaxActions /\ MaxActions \in Nat
      BY <1>0, BoundsTyped DEF TypeOK
    <3>2. minted < MaxActions /\ minted' = minted + 1
      BY <1>3 DEF UpdateStart
    <3>. QED
      BY <3>1, <3>2
  <2>. QED
    BY <1>0, <1>3, <2>1 DEF UpdateStart, TypeOK, tables, histories
<1>4. CASE FindStatus(r)
  <2>1. Conflicts(r) => IdOf(r) \in Ids
    BY <1>0, <1>4, AtKnown DEF FindStatus, Conflicts
  <2>2. refused' \subseteq Ids
    BY <1>0, <1>4, <2>1 DEF FindStatus, TypeOK
  <2>. QED
    BY <1>0, <1>4, <2>2 DEF FindStatus, TypeOK, tables, phones
<1>5. CASE AnswerDelta(r)
  <2>1. Mine(r) \in Phones
    BY <1>0, <1>5, AtKnown DEF AnswerDelta
  <2>2. req[r].copy # None => req[r].copy.id \in 0 .. MaxActions
    BY <1>0 DEF Request, Status
  <2>3. seen' \in [Phones -> 0 .. MaxActions] /\ cursor' \in [Phones -> 0 .. Horizon]
    BY <1>0, <1>5, <2>1, <2>2 DEF AnswerDelta, TypeOK
  <2>. QED
    BY <1>0, <1>5, <2>3 DEF AnswerDelta, TypeOK, tables, histories
<1>6. CASE SaveUser(r) \/ SaveState(r)
  <2>1. Mine(r) \in Phones
    BY <1>0, <1>6, AtKnown DEF SaveUser, SaveState
  <2>2. saved' \subseteq Phones
    BY <1>0, <1>6, <2>1 DEF SaveUser, SaveState, TypeOK
  <2>3. excuses' \subseteq {"crossed", "broken", "uncounted", "replaced", "later"}
    BY <1>0, <1>6 DEF SaveUser, SaveState, CrossedList, TypeOK
  <2>. QED
    BY <1>0, <1>6, <2>2, <2>3 DEF SaveUser, SaveState, TypeOK, phones
<1>7. CASE Fail(r) \/ Crash(r)
  BY <1>0, <1>7 DEF Fail, Crash, Broken, TypeOK, tables, phones
<1>. QED
  BY <1>1, <1>2, <1>3, <1>4, <1>5, <1>6, <1>7, WriteStatusTyped, SaveCountTyped,
     InsertCheckInTyped DEF Step

LEMMA BaseStep ==
    ASSUME SyncAssumption, BaseInv, [Next]_vars
    PROVE  BaseInv'
<1>1. req' \in [Requests -> Request] /\ \A q \in Requests : Whole(req'[q])
  BY RequestsStep
<1>2. TypeOK'
  <2>1. CASE UNCHANGED vars
    BY <2>1 DEF BaseInv, TypeOK, vars, tables, phones, histories
  <2>2. CASE Tick
    <3>1. clock' \in 0 .. Horizon
      BY <2>2, BoundsTyped DEF Tick, BaseInv, TypeOK
    <3>. QED
      BY <2>2, <3>1 DEF Tick, BaseInv, TypeOK, tables, phones, histories
  <2>3. CASE \E p \in Phones : RecordOffline(p)
    BY <2>3, RecordOfflineTyped DEF BaseInv
  <2>. QED
    BY <1>1, <2>1, <2>2, <2>3, StepTyped DEF Next
<1>. QED
  BY <1>1, <1>2 DEF BaseInv

LEMMA BaseInit ==
    ASSUME SyncAssumption, Init
    PROVE  BaseInv
<1>1. 0 \in 0 .. MaxActions /\ 0 \in 0 .. Horizon
  BY BoundsTyped
<1>2. <<>> \in Seq(Action) /\ <<>> \in Seq(0 .. MaxSaves)
  OBVIOUS
<1>. QED
  BY <1>1, <1>2, IdleTyped DEF Init, BaseInv, TypeOK, Status

\* Every variable stays in its type, and with it every bound: the clock, the ids
\* and the counts never leave their ranges, a phone's queue holds actions only,
\* and a request always has the fields its next step reads.
THEOREM SyncTypes == Spec => []TypeOK
<1>1. Init => BaseInv
  BY BaseInit, SyncAssumption
<1>2. BaseInv /\ [Next]_vars => BaseInv'
  BY BaseStep, SyncAssumption
<1>3. BaseInv => TypeOK
  BY DEF BaseInv
<1>. QED
  BY <1>1, <1>2, <1>3, PTL DEF Spec

-------------------------------------------------------------------------------
(* Updates and deltas. *)

\* A step that leaves the row, the phones and the clock, and sends nobody to a write
\* or an answer.
LEMMA CalmStatus ==
    ASSUME StatusInv, UNCHANGED <<clock, status, cursor, seen, raced, stale>>,
           \A q \in Requests : Apart(q) \/ req'[q].at \notin {"write", "answer"}
    PROVE  StatusInv'
<1>1. ASSUME NEW q \in Requests PROVE ReadBefore(q)' /\ Announces(q)'
  <2>1. CASE req'[q].at \notin {"write", "answer"}
    BY <2>1 DEF ReadBefore, Announces, At
  <2>2. CASE Apart(q)
    <3>1. /\ \A D, step : At(q, D, step)' <=> At(q, D, step)
          /\ Mine(q)' = Mine(q) /\ Made(q)' = Made(q) /\ req'[q].copy = req[q].copy
      BY <2>2, ApartKnown DEF Apart
    <3>2. ReadBefore(q) /\ Announces(q)
      BY DEF StatusInv
    <3>3. ReadBefore(q)'
      BY <3>1, <3>2 DEF ReadBefore
    <3>4. Announces(q)'
      BY <3>1, <3>2 DEF Announces
    <3>. QED
      BY <3>3, <3>4
  <2>. QED
    BY <1>1, <2>1, <2>2
<1>. QED
  BY <1>1 DEF StatusInv, StaleUpdateHasACause, MissedChangeHasACause

LEMMA SameApart ==
    ASSUME NEW q, req'[q] = req[q]
    PROVE  Apart(q)
  BY DEF Apart

LEMMA FindStatusRead ==
    ASSUME SyncAssumption, BaseInv, StatusInv, NEW r \in Requests, FindStatus(r)
    PROVE  StatusInv'
<1>0. TypeOK /\ Whole(req[r])
  BY DEF BaseInv
<1>1. UNCHANGED <<clock, status, cursor, seen, raced, stale>>
  BY DEF FindStatus, tables, phones
<1>2. ASSUME NEW q \in Requests \ {r} PROVE ReadBefore(q)' /\ Announces(q)'
  <2>1. Apart(q)
    BY FindStatusKnown, SameApart
  <2>2. /\ \A D, step : At(q, D, step)' <=> At(q, D, step)
        /\ Mine(q)' = Mine(q) /\ Made(q)' = Made(q) /\ req'[q].copy = req[q].copy
    BY <1>1, <2>1, ApartKnown DEF Apart
  <2>3. ReadBefore(q) /\ Announces(q)
    BY DEF StatusInv
  <2>4. ReadBefore(q)'
    BY <2>2, <2>3 DEF ReadBefore
  <2>5. Announces(q)'
    BY <1>1, <2>2, <2>3 DEF Announces
  <2>. QED
    BY <2>4, <2>5
<1>3. ReadBefore(r)'
  <2>1. SUFFICES ASSUME req'[r].at = "write"
                 PROVE  req'[r].copy \in Status /\ ~(Made(r)' < req'[r].copy.at)
    BY DEF ReadBefore, At
  <2>2. req'[r].copy = status /\ ~Conflicts(r) /\ status \in Status
    BY <1>0, <2>1, FindStatusKnown DEF TypeOK
  <2>3. req'[r].kind = req[r].kind /\ req'[r].todo = req[r].todo
    BY FindStatusKnown
  <2>4. CASE req[r].kind = "queue"
    <3>1. Made(r)' = Made(r)
      BY <2>3, <2>4 DEF Made, This
    <3>. QED
      BY <2>2, <2>4, <3>1 DEF Conflicts
  <2>5. CASE req[r].kind # "queue"
    <3>1. Made(r)' = clock /\ status.at <= clock
      BY <1>1, <2>3, <2>5 DEF Made, StatusInv
    <3>2. status.at \in Int /\ clock \in Int
      BY <1>0 DEF TypeOK, Status
    <3>. QED
      BY <2>2, <3>1, <3>2
  <2>. QED
    BY <2>4, <2>5
<1>4. Announces(r)'
  BY FindStatusKnown DEF Announces, At
<1>. QED
  BY <1>1, <1>2, <1>3, <1>4 DEF StatusInv, StaleUpdateHasACause, MissedChangeHasACause

LEMMA QueryDeltaRead ==
    ASSUME SyncAssumption, NoneAssumption, BaseInv, StatusInv, NEW r \in Requests, QueryDelta(r)
    PROVE  StatusInv'
<1>0. TypeOK /\ Whole(req[r])
  BY DEF BaseInv
<1>1. UNCHANGED <<clock, status, cursor, seen, raced, stale>>
  BY DEF QueryDelta, tables, phones, histories
<1>2. ASSUME NEW q \in Requests \ {r} PROVE ReadBefore(q)' /\ Announces(q)'
  <2>1. Apart(q)
    BY QueryDeltaKnown, SameApart
  <2>2. /\ \A D, step : At(q, D, step)' <=> At(q, D, step)
        /\ Mine(q)' = Mine(q) /\ Made(q)' = Made(q) /\ req'[q].copy = req[q].copy
    BY <1>1, <2>1, ApartKnown DEF Apart
  <2>3. ReadBefore(q) /\ Announces(q)
    BY DEF StatusInv
  <2>4. ReadBefore(q)'
    BY <2>2, <2>3 DEF ReadBefore
  <2>5. Announces(q)'
    BY <1>1, <2>2, <2>3 DEF Announces
  <2>. QED
    BY <2>4, <2>5
<1>3. ReadBefore(r)'
  BY QueryDeltaKnown DEF ReadBefore, At
<1>4. Announces(r)'
  <2>1. Mine(r)' = Mine(r) /\ Mine(r) \in Phones
    BY <1>0, QueryDeltaKnown, AtKnown DEF Mine, QueryDelta
  <2>2. status \in Status /\ status.at \in Int /\ cursor[Mine(r)] \in Int
    BY <1>0, <2>1 DEF TypeOK, Status
  <2>3. CASE status.at >= cursor[Mine(r)]
    <3>1. req'[r].copy = status /\ status # None
      BY <2>2, <2>3, QueryDeltaKnown, NoneAssumption
    <3>. QED
      BY <1>1, <3>1 DEF Announces
  <2>4. CASE ~(status.at >= cursor[Mine(r)])
    <3>1. req'[r].copy = None /\ status.at < cursor[Mine(r)]
      BY <2>2, <2>4, QueryDeltaKnown
    <3>. QED
      BY <1>1, <2>1, <3>1 DEF Announces
  <2>. QED
    BY <2>3, <2>4
<1>. QED
  BY <1>1, <1>2, <1>3, <1>4 DEF StatusInv, StaleUpdateHasACause, MissedChangeHasACause

LEMMA WriteStatusCaused ==
    ASSUME SyncAssumption, BaseInv, StatusInv, NEW r \in Requests, WriteStatus(r)
    PROVE  StatusInv'
<1>0. TypeOK /\ Whole(req[r]) /\ Moves(r)
  BY Continuing DEF BaseInv
<1>1. /\ req'[r].at \notin {"write", "answer"}
      /\ \A q \in Requests \ {r} : req'[q] = req[q] /\ Apart(q)
  BY <1>0, MovesKnown, SameApart
<1>2. UNCHANGED <<clock, cursor, seen>>
  BY DEF WriteStatus, phones
<1>3. CASE status.id = IdOf(r)
  <2>1. UNCHANGED <<status, raced, stale>>
    BY <1>3 DEF WriteStatus
  <2>2. \A q \in Requests : Apart(q) \/ req'[q].at \notin {"write", "answer"}
    BY <1>1
  <2>. QED
    BY <1>2, <2>1, <2>2, CalmStatus
<1>4. CASE status.id # IdOf(r)
  <2>1. /\ status' = [id |-> IdOf(r), at |-> clock]
        /\ stale' = IF Made(r) < status.at THEN stale \cup {req[r].copy # status} ELSE stale
        /\ raced' = raced \cup {<<Mine(q), IdOf(r)>> : q \in Others(r, {"delta"}, "answer")}
    BY <1>4 DEF WriteStatus
  <2>2. FALSE \notin stale'
    <3>1. FALSE \notin stale /\ ReadBefore(r)
      BY DEF StatusInv, StaleUpdateHasACause
    <3>2. Made(r) < status.at => req[r].copy # status
      BY <3>1 DEF ReadBefore, WriteStatus
    <3>. QED
      BY <2>1, <3>1, <3>2
  <2>3. ASSUME NEW q \in Requests PROVE ReadBefore(q)' /\ Announces(q)'
    <3>1. CASE q = r
      BY <1>1, <3>1 DEF ReadBefore, Announces, At
    <3>2. CASE q # r
      <4>1. /\ \A D, step : At(q, D, step)' <=> At(q, D, step)
            /\ Mine(q)' = Mine(q) /\ Made(q)' = Made(q) /\ req'[q].copy = req[q].copy
        BY <1>1, <1>2, <3>2, ApartKnown
      <4>2. ReadBefore(q)'
        <5>1. ReadBefore(q)
          BY DEF StatusInv
        <5>. QED
          BY <4>1, <5>1 DEF ReadBefore
      <4>3. Announces(q)'
        <5>1. SUFFICES ASSUME At(q, {"delta"}, "answer")
                       PROVE  <<Mine(q), IdOf(r)>> \in raced'
          BY <2>1, <4>1 DEF Announces
        <5>2. q \in Others(r, {"delta"}, "answer")
          BY <3>2, <5>1 DEF Others
        <5>. QED
          BY <2>1, <5>2
      <4>. QED
        BY <4>2, <4>3
    <3>. QED
      BY <3>1, <3>2
  <2>4. \A p \in Phones : cursor[p] <= clock /\ cursor[p] \in Int /\ clock \in Int
    BY <1>0 DEF StatusInv, TypeOK
  <2>5. MissedChangeHasACause'
    BY <1>2, <2>1, <2>4 DEF MissedChangeHasACause
  <2>6. status'.at <= clock /\ \A p \in Phones : cursor'[p] <= clock
    BY <1>0, <1>2, <2>1, <2>4 DEF TypeOK
  <2>. QED
    BY <1>2, <2>2, <2>3, <2>5, <2>6 DEF StatusInv, StaleUpdateHasACause
<1>. QED
  BY <1>3, <1>4

LEMMA AnswerDeltaCaused ==
    ASSUME SyncAssumption, BaseInv, StatusInv, NEW r \in Requests, AnswerDelta(r)
    PROVE  StatusInv'
<1>0. TypeOK /\ Whole(req[r]) /\ Moves(r)
  BY Continuing DEF BaseInv
<1>1. /\ req'[r].at \notin {"write", "answer"}
      /\ \A q \in Requests \ {r} : req'[q] = req[q] /\ Apart(q)
  BY <1>0, MovesKnown, SameApart
<1>2. UNCHANGED <<clock, status, raced, stale>>
  BY DEF AnswerDelta, tables, histories
<1>3. Mine(r) \in Phones
  BY <1>0, AtKnown DEF AnswerDelta
<1>4. /\ cursor' = [cursor EXCEPT ![Mine(r)] = clock]
      /\ seen' = IF req[r].copy = None THEN seen
                 ELSE [seen EXCEPT ![Mine(r)] = req[r].copy.id]
  BY DEF AnswerDelta
<1>5. /\ clock \in Int /\ status.at \in Int /\ status.at <= clock
      /\ \A p \in Phones : cursor[p] \in Int /\ cursor[p] <= clock
  BY <1>0 DEF TypeOK, Status, StatusInv
<1>6. \A p \in Phones : cursor'[p] = IF p = Mine(r) THEN clock ELSE cursor[p]
  BY <1>0, <1>4 DEF TypeOK
<1>7. ASSUME NEW q \in Requests PROVE ReadBefore(q)' /\ Announces(q)'
  <2>1. CASE q = r
    BY <1>1, <2>1 DEF ReadBefore, Announces, At
  <2>2. CASE q # r
    <3>1. /\ \A D, step : At(q, D, step)' <=> At(q, D, step)
          /\ Mine(q)' = Mine(q) /\ Made(q)' = Made(q) /\ req'[q].copy = req[q].copy
      BY <1>1, <1>2, <2>2, ApartKnown
    <3>2. ReadBefore(q) /\ Announces(q)
      BY DEF StatusInv
    <3>3. ReadBefore(q)'
      BY <3>1, <3>2 DEF ReadBefore
    <3>4. Announces(q)'
      <4>1. At(q, {"delta"}, "answer") => Mine(q) \in Phones
        <5>1. Whole(req[q])
          BY DEF BaseInv
        <5>. QED
          BY <1>0, <5>1, AtKnown
      <4>2. At(q, {"delta"}, "answer") /\ status.at < cursor[Mine(q)]
              => status.at < cursor'[Mine(q)]
        BY <1>5, <1>6, <4>1
      <4>. QED
        BY <1>2, <3>1, <3>2, <4>2 DEF Announces
    <3>. QED
      BY <3>3, <3>4
  <2>. QED
    BY <2>1, <2>2
<1>8. MissedChangeHasACause'
  <2>1. SUFFICES ASSUME NEW p \in Phones, seen'[p] # status.id, cursor'[p] > status.at
                 PROVE  <<p, status.id>> \in raced
    BY <1>2 DEF MissedChangeHasACause
  <2>2. seen[p] # status.id /\ cursor[p] > status.at => <<p, status.id>> \in raced
    BY DEF StatusInv, MissedChangeHasACause
  <2>3. CASE p # Mine(r)
    BY <1>0, <1>4, <1>6, <2>1, <2>2, <2>3 DEF TypeOK
  <2>4. CASE p = Mine(r)
    <3>1. Announces(r) /\ At(r, {"delta"}, "answer")
      BY DEF StatusInv, AnswerDelta
    <3>2. CASE req[r].copy = None
      <4>1. seen'[p] = seen[p]
        BY <1>4, <3>2
      <4>2. status.at < cursor[p] => cursor[p] > status.at
        BY <1>5
      <4>. QED
        BY <2>1, <2>2, <2>4, <3>1, <3>2, <4>1, <4>2 DEF Announces
    <3>3. CASE req[r].copy # None
      <4>1. seen'[p] = req[r].copy.id
        BY <1>0, <1>4, <2>4, <3>3 DEF TypeOK
      <4>. QED
        BY <2>1, <2>4, <3>1, <3>3, <4>1 DEF Announces
    <3>. QED
      BY <3>2, <3>3
  <2>. QED
    BY <2>3, <2>4
<1>9. status'.at <= clock' /\ \A p \in Phones : cursor'[p] <= clock'
  BY <1>2, <1>5, <1>6
<1>10. StaleUpdateHasACause'
  BY <1>2 DEF StatusInv, StaleUpdateHasACause
<1>. QED
  BY <1>7, <1>8, <1>9, <1>10 DEF StatusInv

LEMMA TickStatus ==
    ASSUME SyncAssumption, BaseInv, StatusInv, Tick
    PROVE  StatusInv'
<1>0. TypeOK
  BY DEF BaseInv
<1>1. UNCHANGED <<req, status, cursor, seen, raced, stale>> /\ clock' = clock + 1
  BY DEF Tick, tables, phones, histories
<1>2. clock \in Int /\ status.at \in Int /\ \A p \in Phones : cursor[p] \in Int
  BY <1>0 DEF TypeOK, Status
<1>3. ASSUME NEW q \in Requests PROVE ReadBefore(q)' /\ Announces(q)'
  <2>1. Apart(q) /\ ReadBefore(q) /\ Announces(q) /\ Whole(req[q])
    BY <1>1, SameApart DEF StatusInv, BaseInv
  <2>2. /\ \A D, step : At(q, D, step)' <=> At(q, D, step)
        /\ Mine(q)' = Mine(q) /\ req'[q].copy = req[q].copy
    BY <2>1, ApartKnown DEF Apart
  <2>3. ReadBefore(q)'
    <3>1. SUFFICES ASSUME At(q, {"status"}, "write")
                   PROVE  ~(Made(q)' < req[q].copy.at)
      BY <2>1, <2>2 DEF ReadBefore
    <3>2. req[q].copy \in Status /\ ~(Made(q) < req[q].copy.at)
      BY <2>1, <3>1 DEF ReadBefore
    <3>3. Made(q)' = Made(q) \/ (Made(q) = clock /\ Made(q)' = clock + 1)
      BY <1>1 DEF Made, This
    <3>4. req[q].copy.at \in Int
      BY <3>2 DEF Status
    <3>. QED
      BY <1>2, <3>2, <3>3, <3>4
  <2>4. Announces(q)'
    BY <1>1, <2>1, <2>2 DEF Announces
  <2>. QED
    BY <2>3, <2>4
<1>4. status.at <= clock' /\ \A p \in Phones : cursor[p] <= clock'
  BY <1>1, <1>2 DEF StatusInv
<1>. QED
  BY <1>1, <1>3, <1>4 DEF StatusInv, StaleUpdateHasACause, MissedChangeHasACause

LEMMA StatusStep ==
    ASSUME SyncAssumption, NoneAssumption, BaseInv, StatusInv, [Next]_vars
    PROVE  StatusInv'
<1>0. TypeOK /\ \A r \in Requests : Whole(req[r])
  BY DEF BaseInv
<1>1. CASE UNCHANGED vars \/ \E p \in Phones : RecordOffline(p)
  <2>1. UNCHANGED <<req, clock, status, cursor, seen, raced, stale>>
    BY <1>1 DEF vars, RecordOffline, tables, phones, histories
  <2>. QED
    BY <2>1, SameApart, CalmStatus
<1>2. ASSUME NEW r \in Requests, Moves(r), UNCHANGED <<clock, status, cursor, seen, raced, stale>>
      PROVE  StatusInv'
  <2>1. \A q \in Requests : Apart(q) \/ req'[q].at \notin {"write", "answer"}
    BY <1>0, <1>2, MovesApart, MovesKnown
  <2>. QED
    BY <1>2, <2>1, CalmStatus
<1>3. ASSUME NEW r \in Requests, Step(r)
      PROVE  StatusInv'
  <2>1. CASE \/ \E p \in Phones : Deliver(r, p)
             \/ UpdateStart(r) \/ DeltaStart(r) \/ SaveStart(r) \/ StateStart(r)
             \/ CheckInStart(r)
    <3>1. UNCHANGED <<clock, status, cursor, seen, raced, stale>>
      BY <2>1 DEF Deliver, UpdateStart, DeltaStart, SaveStart, StateStart, CheckInStart,
           Start, tables, phones, histories
    <3>. QED
      BY <1>0, <1>2, <2>1, <3>1, Beginning
  <2>2. CASE \/ NextAction(r) \/ RecordSuccess(r) \/ AnswerQueue(r) \/ RecordConflict(r)
             \/ FindUser(r) \/ SaveUser(r) \/ SaveState(r) \/ FindCount(r) \/ SaveCount(r)
             \/ InsertCheckIn(r) \/ Fail(r) \/ Crash(r)
    <3>1. UNCHANGED <<clock, status, cursor, seen, raced, stale>>
      BY <2>2 DEF NextAction, RecordSuccess, AnswerQueue, RecordConflict, FindUser, SaveUser,
           SaveState, FindCount, SaveCount, InsertCheckIn, Fail, Crash, tables, phones, histories
    <3>. QED
      BY <1>2, <2>2, <3>1, Continuing
  <2>3. CASE FindLastCheckIn(r)
    <3>1. UNCHANGED <<clock, status, cursor, seen, raced, stale>>
      BY <2>3 DEF FindLastCheckIn, tables, phones, histories
    <3>2. CASE Moves(r)
      BY <1>2, <3>1, <3>2
    <3>3. CASE ~Moves(r)
      <4>1. /\ \A q \in Requests \ {r} : Apart(q)
            /\ req'[r].kind = req[r].kind /\ req'[r].todo = req[r].todo
            /\ req'[r].at = "write"
        BY <2>3, <3>3, FindLastCheckInKnown
      <4>2. ASSUME NEW q \in Requests PROVE ReadBefore(q)' /\ Announces(q)'
        <5>1. CASE q = r
          <6>1. Doing(r) = "checkIn" /\ Doing(r)' = Doing(r)
            BY <2>3, <4>1 DEF FindLastCheckIn, At, Doing, This
          <6>. QED
            BY <4>1, <5>1, <6>1 DEF ReadBefore, Announces, At
        <5>2. CASE q # r
          <6>1. /\ \A D, step : At(q, D, step)' <=> At(q, D, step)
                /\ Mine(q)' = Mine(q) /\ Made(q)' = Made(q) /\ req'[q].copy = req[q].copy
            BY <3>1, <4>1, <5>2, ApartKnown DEF Apart
          <6>2. ReadBefore(q) /\ Announces(q)
            BY DEF StatusInv
          <6>3. ReadBefore(q)'
            BY <6>1, <6>2 DEF ReadBefore
          <6>4. Announces(q)'
            BY <3>1, <6>1, <6>2 DEF Announces
          <6>. QED
            BY <6>3, <6>4
        <5>. QED
          BY <5>1, <5>2
      <4>. QED
        BY <3>1, <4>2 DEF StatusInv, StaleUpdateHasACause, MissedChangeHasACause
    <3>. QED
      BY <3>2, <3>3
  <2>. QED
    BY <1>3, <2>1, <2>2, <2>3, FindStatusRead, QueryDeltaRead, WriteStatusCaused,
       AnswerDeltaCaused DEF Step
<1>. QED
  BY <1>1, <1>3, TickStatus DEF Next

LEMMA StatusInit ==
    ASSUME SyncAssumption, Init
    PROVE  StatusInv
<1>1. ASSUME NEW r \in Requests PROVE ReadBefore(r) /\ Announces(r)
  BY IdleTyped DEF Init, ReadBefore, Announces, At
<1>. QED
  BY <1>1 DEF Init, StatusInv, StaleUpdateHasACause, MissedChangeHasACause

\* An update replaces a row written after it was made only where the row changed
\* between its findOne and its save: the comparison is made on the row that was
\* read (sync.service.ts 128-173), so a stale write takes another writer in between,
\* whatever the number of phones and requests.
THEOREM StaleUpdatesAreRaced == Spec => []StaleUpdateHasACause
<1>1. Init => BaseInv /\ StatusInv
  BY BaseInit, StatusInit, SyncAssumption
<1>2. (BaseInv /\ StatusInv) /\ [Next]_vars => (BaseInv /\ StatusInv)'
  BY BaseStep, StatusStep, SyncAssumption, NoneAssumption
<1>3. BaseInv /\ StatusInv => StaleUpdateHasACause
  BY DEF StatusInv
<1>. QED
  BY <1>1, <1>2, <1>3, PTL DEF Spec

\* A phone whose lastSync is past the row's last change and that shows something
\* else asked for its delta while that change was written: with the query's >= and
\* the lastSync taken after it, nothing else is missed (sync.service.ts 384-411).
THEOREM MissedChangesAreRaced == Spec => []MissedChangeHasACause
<1>1. Init => BaseInv /\ StatusInv
  BY BaseInit, StatusInit, SyncAssumption
<1>2. (BaseInv /\ StatusInv) /\ [Next]_vars => (BaseInv /\ StatusInv)'
  BY BaseStep, StatusStep, SyncAssumption, NoneAssumption
<1>3. BaseInv /\ StatusInv => MissedChangeHasACause
  BY DEF StatusInv
<1>. QED
  BY <1>1, <1>2, <1>3, PTL DEF Spec

-------------------------------------------------------------------------------
(* Check-ins. *)

\* A set of natural numbers that is not empty has a least one.
LEMMA LeastNat ==
    ASSUME NEW T \in SUBSET Nat, T # {}
    PROVE  \E m \in T : \A n \in T : m <= n
<1>1. PICK R : R = OpToRel(<, Nat)
  OBVIOUS
<1>2. IsWellFoundedOn(R, Nat)
  BY <1>1, NatLessThanWellFounded
<1>3. PICK m \in T : \A n \in T : <<n, m>> \notin R
  BY <1>2, WFMin
<1>4. \A n \in T : <<n, m>> \in R <=> n < m
  BY <1>1 DEF OpToRel
<1>5. \A n \in T : m \in Nat /\ n \in Nat /\ ~(n < m)
  BY <1>3, <1>4
<1>6. \A n \in T : m <= n
  BY <1>5
<1>. QED
  BY <1>6

\* The latest of them is compared, and no other is later: all are past the cooldown.
LEMMA NotRecently ==
    ASSUME SyncAssumption, TypeOK, NEW p \in Phones, ~Recently(p), NEW c \in checkIns[p]
    PROVE  clock - c.at >= Cooldown
<1>0. /\ Horizon \in Nat /\ Cooldown \in Nat /\ clock \in Int
      /\ \A d \in checkIns[p] : d.at \in 0 .. Horizon
  BY BoundsTyped DEF TypeOK
<1>1. PICK T : T = {Horizon - d.at : d \in checkIns[p]}
  OBVIOUS
<1>2. PICK m \in T : \A n \in T : m <= n
  <2>1. \A d \in checkIns[p] : Horizon - d.at \in Nat
    BY <1>0
  <2>2. T \in SUBSET Nat /\ T # {}
    BY <1>1, <2>1
  <2>. QED
    BY <2>2, LeastNat
<1>3. PICK l \in checkIns[p] : m = Horizon - l.at
  BY <1>1, <1>2
<1>4. \A d \in checkIns[p] : d.at <= l.at
  <2>1. \A d \in checkIns[p] : Horizon - l.at <= Horizon - d.at
    BY <1>1, <1>2, <1>3
  <2>. QED
    BY <1>0, <2>1
<1>5. ~(clock - l.at < Cooldown)
  BY <1>4 DEF Recently
<1>. QED
  BY <1>0, <1>4, <1>5

\* A step that writes no check-in and sends nobody to write one.
LEMMA CalmCheckIns ==
    ASSUME CheckInInv, UNCHANGED <<clock, checkIns, close>>,
           \A q \in Requests : Apart(q) \/ ~Writing(q)'
    PROVE  CheckInInv'
<1>1. ASSUME NEW q \in Requests, Writing(q)'
      PROVE  Writing(q) /\ Mine(q)' = Mine(q) /\ (req[q].rival => req'[q].rival)
  <2>1. Apart(q)
    BY <1>1
  <2>. QED
    BY <1>1, <2>1, ApartKnown DEF Apart
<1>2. RivalsKnow'
  BY <1>1 DEF CheckInInv, RivalsKnow
<1>3. ASSUME NEW q \in Requests PROVE Rested(q)'
  BY <1>1 DEF CheckInInv, Rested
<1>. QED
  BY <1>2, <1>3 DEF CheckInInv, CloseCheckInsHaveACause

LEMMA FindLastCheckInRests ==
    ASSUME SyncAssumption, BaseInv, CheckInInv, NEW r \in Requests, FindLastCheckIn(r)
    PROVE  CheckInInv'
<1>0. TypeOK /\ Whole(req[r])
  BY DEF BaseInv
<1>1. UNCHANGED <<clock, checkIns, close>>
  BY DEF FindLastCheckIn, tables, histories
<1>2. CASE Moves(r)
  <2>1. \A q \in Requests : Apart(q) \/ ~Writing(q)'
    BY <1>0, <1>2, MovesKnown, MovesApart DEF Writing, At
  <2>. QED
    BY <1>1, <2>1, CalmCheckIns
<1>3. CASE ~Moves(r)
  <2>1. /\ ~Recently(Mine(r))
        /\ \A q \in Requests \ {r} : Apart(q)
        /\ \A q \in Rivals(r) : req'[q].rival
        /\ req'[r].phone = req[r].phone /\ req'[r].rival = (Rivals(r) # {})
    BY <1>3, FindLastCheckInKnown
  <2>2. Mine(r)' = Mine(r) /\ Mine(r) \in Phones
    BY <1>0, <2>1, AtKnown DEF FindLastCheckIn, Mine
  <2>3. ASSUME NEW q \in Requests \ {r}, Writing(q)'
        PROVE  /\ Writing(q) /\ Mine(q)' = Mine(q) /\ (req[q].rival => req'[q].rival)
               /\ Mine(q) = Mine(r) => q \in Rivals(r)
    <3>1. Writing(q) /\ Mine(q)' = Mine(q) /\ (req[q].rival => req'[q].rival)
      BY <2>1, <2>3, ApartKnown DEF Apart
    <3>. QED
      BY <3>1 DEF Rivals, Others, Writing
  <2>4. RivalsKnow'
    <3>1. SUFFICES ASSUME NEW p \in Requests, NEW q \in Requests, p # q,
                          Writing(p)', Writing(q)', Mine(p)' = Mine(q)'
                   PROVE  req'[p].rival
      BY DEF RivalsKnow
    <3>2. CASE p = r
      <4>1. q \in Rivals(r)
        BY <2>2, <2>3, <3>1, <3>2
      <4>. QED
        BY <2>1, <3>2, <4>1
    <3>3. CASE q = r
      <4>1. p \in Rivals(r)
        BY <2>2, <2>3, <3>1, <3>3
      <4>. QED
        BY <2>1, <4>1
    <3>4. CASE p # r /\ q # r
      BY <2>3, <3>1, <3>4 DEF CheckInInv, RivalsKnow
    <3>. QED
      BY <3>2, <3>3, <3>4
  <2>5. ASSUME NEW q \in Requests PROVE Rested(q)'
    <3>1. CASE q = r
      BY <1>0, <1>1, <2>1, <2>2, <3>1, NotRecently DEF Rested
    <3>2. CASE q # r
      BY <1>1, <2>3, <3>2 DEF Rested, CheckInInv
    <3>. QED
      BY <3>1, <3>2
  <2>. QED
    BY <1>1, <2>4, <2>5 DEF CheckInInv, CloseCheckInsHaveACause
<1>. QED
  BY <1>2, <1>3

LEMMA InsertCheckInCaused ==
    ASSUME SyncAssumption, BaseInv, CheckInInv, NEW r \in Requests, InsertCheckIn(r)
    PROVE  CheckInInv'
<1>0. TypeOK /\ Whole(req[r]) /\ Moves(r) /\ Writing(r)
  BY Continuing DEF BaseInv, InsertCheckIn, Writing
<1>1. /\ ~Writing(r)'
      /\ \A q \in Requests \ {r} : req'[q] = req[q] /\ Apart(q)
  BY <1>0, MovesKnown, SameApart DEF Writing, At
<1>2. clock' = clock /\ Mine(r) \in Phones
  BY <1>0, AtKnown DEF InsertCheckIn
<1>3. ASSUME NEW q \in Requests, Writing(q)'
      PROVE  q # r /\ Writing(q) /\ Mine(q)' = Mine(q) /\ req'[q] = req[q]
  BY <1>1, <1>3, ApartKnown
<1>4. RivalsKnow'
  BY <1>3 DEF CheckInInv, RivalsKnow
<1>5. ASSUME NEW q \in Requests PROVE Rested(q)'
  <2>1. SUFFICES ASSUME Writing(q)', ~req'[q].rival, NEW c \in checkIns'[Mine(q)']
                 PROVE  clock - c.at >= Cooldown
    BY <1>2 DEF Rested
  <2>2. q # r /\ Writing(q) /\ Mine(q)' = Mine(q) /\ ~req[q].rival
    BY <1>3, <2>1
  <2>3. Mine(q) # Mine(r)
    BY <1>0, <2>2 DEF CheckInInv, RivalsKnow
  <2>4. checkIns'[Mine(q)] = checkIns[Mine(q)]
    BY <1>0, <2>3 DEF InsertCheckIn
  <2>. QED
    BY <2>1, <2>2, <2>4 DEF CheckInInv, Rested
<1>6. CloseCheckInsHaveACause'
  <2>1. SUFFICES ASSUME NEW x \in close' \ close
                 PROVE  x.late \/ x.rival
    BY DEF CloseCheckInsHaveACause, CheckInInv
  <2>2. PICK c \in checkIns[Mine(r)] :
            x = [late |-> clock - c.at >= Cooldown, rival |-> req[r].rival]
    BY <2>1 DEF InsertCheckIn
  <2>3. req[r].rival \/ clock - c.at >= Cooldown
    BY <1>0 DEF CheckInInv, Rested
  <2>. QED
    BY <2>2, <2>3
<1>. QED
  BY <1>4, <1>5, <1>6 DEF CheckInInv

LEMMA TickCheckIns ==
    ASSUME SyncAssumption, BaseInv, CheckInInv, Tick
    PROVE  CheckInInv'
<1>0. TypeOK /\ \A q \in Requests : Whole(req[q])
  BY DEF BaseInv
<1>1. UNCHANGED <<req, checkIns, close>> /\ clock' = clock + 1 /\ clock \in Int /\ Cooldown \in Int
  BY <1>0, BoundsTyped DEF Tick, tables, histories, TypeOK
<1>2. ASSUME NEW q \in Requests
      PROVE  (Writing(q)' <=> Writing(q)) /\ Mine(q)' = Mine(q)
  BY <1>1, SameApart, ApartKnown
<1>3. RivalsKnow'
  BY <1>1, <1>2 DEF CheckInInv, RivalsKnow
<1>4. ASSUME NEW q \in Requests PROVE Rested(q)'
  <2>1. SUFFICES ASSUME Writing(q), ~req[q].rival, NEW c \in checkIns[Mine(q)]
                 PROVE  clock' - c.at >= Cooldown
    BY <1>1, <1>2 DEF Rested
  <2>2. clock - c.at >= Cooldown
    BY <2>1 DEF CheckInInv, Rested
  <2>3. Mine(q) \in Phones
    BY <1>0, <2>1, AtKnown DEF Writing
  <2>4. c.at \in Int
    BY <1>0, <2>3 DEF TypeOK
  <2>. QED
    BY <1>1, <2>2, <2>4
<1>. QED
  BY <1>1, <1>3, <1>4 DEF CheckInInv, CloseCheckInsHaveACause

LEMMA CheckInStep ==
    ASSUME SyncAssumption, BaseInv, CheckInInv, [Next]_vars
    PROVE  CheckInInv'
<1>0. TypeOK /\ \A r \in Requests : Whole(req[r])
  BY DEF BaseInv
<1>1. CASE UNCHANGED vars \/ \E p \in Phones : RecordOffline(p)
  <2>1. UNCHANGED <<req, clock, checkIns, close>>
    BY <1>1 DEF vars, RecordOffline, tables, histories
  <2>. QED
    BY <2>1, SameApart, CalmCheckIns
<1>2. ASSUME NEW r \in Requests, Moves(r), UNCHANGED <<clock, checkIns, close>>
      PROVE  CheckInInv'
  <2>1. \A q \in Requests : Apart(q) \/ ~Writing(q)'
    BY <1>0, <1>2, MovesApart, MovesKnown DEF Writing, At
  <2>. QED
    BY <1>2, <2>1, CalmCheckIns
<1>3. ASSUME NEW r \in Requests, Step(r)
      PROVE  CheckInInv'
  <2>1. CASE \/ \E p \in Phones : Deliver(r, p)
             \/ UpdateStart(r) \/ DeltaStart(r) \/ SaveStart(r) \/ StateStart(r)
             \/ CheckInStart(r)
    <3>1. UNCHANGED <<clock, checkIns, close>>
      BY <2>1 DEF Deliver, UpdateStart, DeltaStart, SaveStart, StateStart, CheckInStart,
           Start, tables, histories
    <3>. QED
      BY <1>0, <1>2, <2>1, <3>1, Beginning
  <2>2. CASE \/ NextAction(r) \/ RecordSuccess(r) \/ AnswerQueue(r) \/ RecordConflict(r)
             \/ WriteStatus(r) \/ AnswerDelta(r) \/ FindUser(r) \/ SaveUser(r) \/ SaveState(r)
             \/ FindCount(r) \/ SaveCount(r) \/ Fail(r) \/ Crash(r)
    <3>1. UNCHANGED <<clock, checkIns, close>>
      BY <2>2 DEF NextAction, RecordSuccess, AnswerQueue, RecordConflict, WriteStatus,
           AnswerDelta, FindUser, SaveUser, SaveState, FindCount, SaveCount, Fail, Crash,
           tables, histories
    <3>. QED
      BY <1>2, <2>2, <3>1, Continuing
  <2>3. CASE FindStatus(r)
    <3>1. UNCHANGED <<clock, checkIns, close>>
      BY <2>3 DEF FindStatus, tables
    <3>2. Doing(r)' = Doing(r) /\ Doing(r) = "status"
      <4>1. req'[r].kind = req[r].kind /\ req'[r].todo = req[r].todo
        BY <2>3, FindStatusKnown
      <4>. QED
        BY <2>3, <4>1 DEF FindStatus, At, Doing, This
    <3>3. \A q \in Requests : Apart(q) \/ ~Writing(q)'
      BY <2>3, <3>2, FindStatusKnown, SameApart DEF Writing, At
    <3>. QED
      BY <3>1, <3>3, CalmCheckIns
  <2>4. CASE QueryDelta(r)
    <3>1. UNCHANGED <<clock, checkIns, close>>
      BY <2>4 DEF QueryDelta, tables, histories
    <3>2. \A q \in Requests : Apart(q) \/ ~Writing(q)'
      BY <2>4, QueryDeltaKnown, SameApart DEF Writing, At
    <3>. QED
      BY <3>1, <3>2, CalmCheckIns
  <2>. QED
    BY <1>3, <2>1, <2>2, <2>3, <2>4, FindLastCheckInRests, InsertCheckInCaused DEF Step
<1>. QED
  BY <1>1, <1>3, TickCheckIns DEF Next

LEMMA CheckInInit ==
    ASSUME SyncAssumption, Init
    PROVE  CheckInInv
<1>1. \A r \in Requests : ~Writing(r)
  BY IdleTyped DEF Init, Writing, At
<1>. QED
  BY <1>1 DEF Init, CheckInInv, RivalsKnow, Rested, CloseCheckInsHaveACause

\* A user is given points for two check-ins closer than the cooldown only if the
\* second arrived later than the cooldown after the first was made, or the two
\* requests overlapped: the check of the cooldown looks at one row, and the row it
\* looks at is enough (engagement.service.ts 88-91), for any number of phones.
THEOREM CloseCheckInsAreLateOrRivals == Spec => []CloseCheckInsHaveACause
<1>1. Init => BaseInv /\ CheckInInv
  BY BaseInit, CheckInInit, SyncAssumption
<1>2. (BaseInv /\ CheckInInv) /\ [Next]_vars => (BaseInv /\ CheckInInv)'
  BY BaseStep, CheckInStep, SyncAssumption
<1>3. BaseInv /\ CheckInInv => CloseCheckInsHaveACause
  BY DEF CheckInInv
<1>. QED
  BY <1>1, <1>2, <1>3, PTL DEF Spec

-------------------------------------------------------------------------------
(* The count of saves. *)

\* Those who have changed the list and will still count that.
Counting(r, doing) == At(r, {doing}, "count") \/ At(r, {doing}, "saveCount")
Uncounted(doing) == {r \in Requests : Counting(r, doing)}

\* What was read of the list is still so.
ListRead(r) ==
    At(r, {"save", "unsave"}, "saveUser") =>
        /\ req[r].rival <=> Mine(r) \in saved
        /\ Doing(r) = "save" => Mine(r) \notin saved

\* What was read of a day's rows is still so.
RowRead(r) ==
    At(r, {"save", "unsave"}, "saveCount") =>
        IF req[r].row = 0 THEN counts[req[r].day] = <<>> /\ req[r].n = 0
        ELSE /\ req[r].row \in DOMAIN counts[req[r].day]
             /\ req[r].n = counts[req[r].day][req[r].row]

\* While nothing has spoiled the count, the two tables differ by what is still to be counted.
Balanced ==
    /\ IsFiniteSet(CountedSaves) /\ IsFiniteSet(saved)
    /\ IsFiniteSet(Uncounted("save")) /\ IsFiniteSet(Uncounted("unsave"))
    /\ Cardinality(CountedSaves) + Cardinality(Uncounted("save"))
         = Cardinality(saved) + Cardinality(Uncounted("unsave"))

CountInv ==
    excuses = {} => Balanced /\ \A r \in Requests : ListRead(r) /\ RowRead(r)

\* Where a request remembers something of the two tables, or owes a count.
CountSteps == {"saveUser", "count", "saveCount"}

\* q stays as it is, or has nothing to do with saves and their count.
Aside(q) ==
    \/ req'[q] = req[q]
    \/ /\ ~Counting(q, "save") /\ ~Counting(q, "unsave")
       /\ req'[q].at \notin CountSteps

LEMMA SameRequest ==
    ASSUME NEW q, req'[q] = req[q]
    PROVE  /\ \A D, step : At(q, D, step)' <=> At(q, D, step)
           /\ Mine(q)' = Mine(q) /\ Doing(q)' = Doing(q)
           /\ \A doing : Counting(q, doing)' <=> Counting(q, doing)
<1>1. Doing(q)' = Doing(q) /\ Mine(q)' = Mine(q)
  BY DEF Doing, Mine, This
<1>2. \A D, step : At(q, D, step)' <=> At(q, D, step)
  BY <1>1 DEF At
<1>3. \A doing : Counting(q, doing)' <=> Counting(q, doing)
  BY <1>2 DEF Counting
<1>. QED
  BY <1>1, <1>2, <1>3

LEMMA NotAtCount ==
    ASSUME NEW q, req[q].at \notin CountSteps
    PROVE  ~Counting(q, "save") /\ ~Counting(q, "unsave") /\ ListRead(q) /\ RowRead(q)
  BY DEF CountSteps, Counting, ListRead, RowRead, At

LEMMA NotAtCountNext ==
    ASSUME NEW q, req'[q].at \notin CountSteps
    PROVE  /\ ~Counting(q, "save")' /\ ~Counting(q, "unsave")'
           /\ ListRead(q)' /\ RowRead(q)'
  BY DEF CountSteps, Counting, ListRead, RowRead, At

\* A step that leaves both tables, and nobody with more to count.
LEMMA CalmSaves ==
    ASSUME CountInv, excuses \subseteq excuses', counts' = counts,
           excuses' = {} => saved' = saved /\ \A q \in Requests : Aside(q)
    PROVE  CountInv'
<1>. SUFFICES ASSUME excuses' = {}
              PROVE  Balanced' /\ \A q \in Requests : ListRead(q)' /\ RowRead(q)'
  BY DEF CountInv
<1>1. /\ Balanced /\ \A q \in Requests : ListRead(q) /\ RowRead(q)
      /\ saved' = saved /\ \A q \in Requests : Aside(q)
  BY DEF CountInv
<1>2. ASSUME NEW q \in Requests PROVE ListRead(q)' /\ RowRead(q)'
  <2>1. CASE req'[q] = req[q]
    <3>1. ListRead(q)'
      BY <1>1, <2>1, SameRequest DEF ListRead
    <3>2. RowRead(q)'
      BY <1>1, <2>1, SameRequest DEF RowRead
    <3>. QED
      BY <3>1, <3>2
  <2>2. CASE req'[q].at \notin CountSteps
    BY <2>2, NotAtCountNext
  <2>. QED
    BY <1>1, <2>1, <2>2 DEF Aside
<1>3. \A q \in Requests : /\ Counting(q, "save")' <=> Counting(q, "save")
                          /\ Counting(q, "unsave")' <=> Counting(q, "unsave")
  BY <1>1, SameRequest, NotAtCountNext DEF Aside
<1>4. Uncounted("save")' = Uncounted("save") /\ Uncounted("unsave")' = Uncounted("unsave")
  BY <1>3 DEF Uncounted
<1>5. CountedSaves' = CountedSaves
  BY DEF CountedSaves
<1>6. Balanced'
  BY <1>1, <1>4, <1>5 DEF Balanced
<1>. QED
  BY <1>2, <1>6

LEMMA EndedKnown ==
    ASSUME TypeOK, NEW r \in Requests, Skip(r) \/ Done(r) \/ Finish(r)
    PROVE  /\ req'[r].at \notin CountSteps
           /\ \A q \in Requests \ {r} : req'[q] = req[q]
<1>0. req \in [Requests -> Request] /\ req[r] \in Request
  BY DEF TypeOK
<1>1. CASE Finish(r)
  BY <1>0, <1>1 DEF Finish, Idle, CountSteps
<1>2. CASE Goto(r, "record")
  BY <1>0, <1>2 DEF Goto, Request, CountSteps
<1>3. CASE Skip(r) /\ ~Finish(r)
  <2>1. PICK todo : req' = [req EXCEPT ![r] = [Idle EXCEPT
                    !.kind = "queue", !.at = "next", !.phone = Mine(r),
                    !.todo = todo, !.sent = req[r].sent]]
    BY <1>3 DEF Skip
  <2>. QED
    BY <1>0, <2>1 DEF Idle, CountSteps
<1>. QED
  BY <1>1, <1>2, <1>3 DEF Done

LEMMA BegunKnown ==
    ASSUME TypeOK, NEW r \in Requests,
           \/ \E p \in Phones : Deliver(r, p)
           \/ UpdateStart(r) \/ DeltaStart(r) \/ SaveStart(r) \/ StateStart(r) \/ CheckInStart(r)
    PROVE  /\ req'[r].at \notin CountSteps /\ req[r].at \notin CountSteps
           /\ \A q \in Requests \ {r} : req'[q] = req[q]
           /\ UNCHANGED <<saved, counts, excuses>>
<1>0. req \in [Requests -> Request]
  BY DEF TypeOK
<1>1. req[r] = Idle
  BY DEF Deliver, UpdateStart, DeltaStart, SaveStart, StateStart, CheckInStart, Start
<1>2. /\ req'[r].at \in {"next", "find", "query", "user"}
      /\ \A q \in Requests \ {r} : req'[q] = req[q]
  <2>1. CASE \E p \in Phones : Deliver(r, p)
    <3>1. PICK p, todo, sent : req' = [req EXCEPT ![r] = [Idle EXCEPT
                  !.kind = "queue", !.at = "next", !.phone = p, !.todo = todo, !.sent = sent]]
      BY <2>1 DEF Deliver
    <3>. QED
      BY <1>0, <3>1 DEF Idle
  <2>2. CASE UpdateStart(r)
    <3>1. PICK p, todo : req' = [req EXCEPT ![r] = [Idle EXCEPT
                  !.kind = "status", !.phone = p, !.at = "find", !.todo = todo]]
      BY <2>2 DEF UpdateStart
    <3>. QED
      BY <1>0, <3>1 DEF Idle
  <2>3. CASE DeltaStart(r) \/ SaveStart(r) \/ StateStart(r) \/ CheckInStart(r)
    <3>1. PICK kind, p, at : Start(r, kind, p, at) /\ at \in {"find", "query", "user"}
      BY <2>3 DEF DeltaStart, SaveStart, StateStart, CheckInStart
    <3>2. req' = [req EXCEPT ![r] = [Idle EXCEPT !.kind = kind, !.phone = p, !.at = at]]
      BY <3>1 DEF Start
    <3>. QED
      BY <1>0, <3>1, <3>2 DEF Idle
  <2>. QED
    BY <2>1, <2>2, <2>3
<1>3. UNCHANGED <<saved, counts, excuses>>
  BY DEF Deliver, UpdateStart, DeltaStart, SaveStart, StateStart, CheckInStart, Start,
         tables, histories
<1>. QED
  BY <1>1, <1>2, <1>3 DEF CountSteps, Idle

\* Every step but the four that read or write the two tables.
LEMMA SavesAside ==
    ASSUME SyncAssumption, BaseInv, NEW r \in Requests, Step(r),
           ~FindUser(r), ~SaveUser(r), ~FindCount(r), ~SaveCount(r)
    PROVE  /\ excuses \subseteq excuses' /\ counts' = counts
           /\ excuses' = {} => saved' = saved /\ \A q \in Requests : Aside(q)
<1>0. TypeOK /\ req \in [Requests -> Request] /\ req[r] \in Request
  BY DEF BaseInv, TypeOK
<1>1. ASSUME UNCHANGED <<saved, counts, excuses>>, req[r].at \notin {"count", "saveCount"},
             req'[r].at \notin CountSteps, \A q \in Requests \ {r} : req'[q] = req[q]
      PROVE  /\ excuses \subseteq excuses' /\ counts' = counts
             /\ excuses' = {} => saved' = saved /\ \A q \in Requests : Aside(q)
  BY <1>1 DEF Aside, Counting, At
<1>2. CASE \/ \E p \in Phones : Deliver(r, p)
           \/ UpdateStart(r) \/ DeltaStart(r) \/ SaveStart(r) \/ StateStart(r) \/ CheckInStart(r)
  BY <1>0, <1>1, <1>2, BegunKnown DEF CountSteps
<1>3. CASE \/ RecordSuccess(r) \/ AnswerQueue(r) \/ RecordConflict(r)
           \/ WriteStatus(r) \/ AnswerDelta(r) \/ InsertCheckIn(r)
  <2>1. UNCHANGED <<saved, counts, excuses>> /\ req[r].at \notin {"count", "saveCount"}
    BY <1>3 DEF RecordSuccess, AnswerQueue, RecordConflict, WriteStatus, AnswerDelta,
         InsertCheckIn, At, tables, histories
  <2>2. Skip(r) \/ Done(r) \/ Finish(r)
    BY <1>3 DEF RecordSuccess, AnswerQueue, RecordConflict, WriteStatus, AnswerDelta,
         InsertCheckIn
  <2>. QED
    BY <1>0, <1>1, <2>1, <2>2, EndedKnown
<1>4. CASE NextAction(r)
  <2>1. UNCHANGED <<saved, counts, excuses>> /\ req[r].at \notin {"count", "saveCount"}
    BY <1>4 DEF NextAction, tables, histories
  <2>2. PICK step \in {"user", "find"} : Goto(r, step)
    BY <1>4 DEF NextAction
  <2>3. req'[r].at \notin CountSteps /\ \A q \in Requests \ {r} : req'[q] = req[q]
    BY <1>0, <2>2 DEF Goto, Request, CountSteps
  <2>. QED
    BY <1>1, <2>1, <2>3
<1>5. CASE FindStatus(r)
  <2>1. UNCHANGED <<saved, counts, excuses>> /\ req[r].at \notin {"count", "saveCount"}
    BY <1>5 DEF FindStatus, At, tables
  <2>. QED
    BY <1>1, <1>5, <2>1, FindStatusKnown DEF CountSteps
<1>6. CASE QueryDelta(r)
  <2>1. UNCHANGED <<saved, counts, excuses>> /\ req[r].at \notin {"count", "saveCount"}
    BY <1>6 DEF QueryDelta, At, tables, histories
  <2>. QED
    BY <1>1, <1>6, <2>1, QueryDeltaKnown DEF CountSteps
<1>7. CASE FindLastCheckIn(r)
  <2>1. UNCHANGED <<saved, counts, excuses>> /\ req[r].at = "find"
    BY <1>7 DEF FindLastCheckIn, At, tables, histories
  <2>2. CASE Skip(r)
    BY <1>0, <1>1, <2>1, <2>2, EndedKnown
  <2>3. CASE req' = [q \in Requests |->
               IF q = r
               THEN [req[r] EXCEPT !.at = "write", !.rival = Rivals(r) # {}]
               ELSE IF q \in Rivals(r) THEN [req[q] EXCEPT !.rival = TRUE] ELSE req[q]]
    <3>1. req'[r].at = "write"
      BY <1>0, <2>3 DEF Request
    <3>2. Aside(r)
      BY <2>1, <3>1 DEF Aside, Counting, At, CountSteps
    <3>3. ASSUME NEW q \in Requests \ {r} PROVE Aside(q)
      <4>1. CASE q \notin Rivals(r)
        BY <2>3, <4>1 DEF Aside
      <4>2. CASE q \in Rivals(r)
        <5>1. req[q].at = "write" /\ req[q] \in Request
          BY <1>0, <4>2 DEF Rivals, Others, At
        <5>2. req'[q].at = "write"
          BY <2>3, <4>2, <5>1 DEF Request
        <5>. QED
          BY <5>1, <5>2 DEF Aside, Counting, At, CountSteps
      <4>. QED
        BY <4>1, <4>2
    <3>. QED
      BY <2>1, <3>2, <3>3
  <2>. QED
    BY <1>7, <2>2, <2>3 DEF FindLastCheckIn
<1>8. CASE SaveState(r)
  <2>1. excuses \subseteq excuses' /\ counts' = counts /\ Finish(r) /\ req[r].at = "saveUser"
    BY <1>8 DEF SaveState, At
  <2>2. excuses' = {} => saved' = saved
    BY <1>8 DEF SaveState
  <2>3. req'[r].at \notin CountSteps /\ \A q \in Requests \ {r} : req'[q] = req[q]
    BY <1>0, <2>1, EndedKnown
  <2>. QED
    BY <2>1, <2>2, <2>3 DEF Aside, Counting, At
<1>9. CASE Fail(r) \/ Crash(r)
  <2>1. /\ excuses \subseteq excuses' /\ counts' = counts /\ saved' = saved
        /\ excuses' = {} => ~Counting(r, "save") /\ ~Counting(r, "unsave")
    BY <1>9 DEF Fail, Crash, Broken, tables, Counting, At
  <2>2. req'[r].at \notin CountSteps /\ \A q \in Requests \ {r} : req'[q] = req[q]
    BY <1>0, <1>9, EndedKnown DEF Fail, Crash
  <2>. QED
    BY <2>1, <2>2 DEF Aside
<1>. QED
  BY <1>2, <1>3, <1>4, <1>5, <1>6, <1>7, <1>8, <1>9 DEF Step

\* The user is read: what is remembered of the list is the list.
LEMMA FindUserCounted ==
    ASSUME SyncAssumption, BaseInv, CountInv, NEW r \in Requests, FindUser(r)
    PROVE  CountInv'
<1>0. TypeOK /\ req \in [Requests -> Request] /\ req[r] \in Request
  BY DEF BaseInv, TypeOK
<1>1. UNCHANGED <<saved, counts, excuses>> /\ req[r].at = "user"
  BY DEF FindUser, At, tables, histories
<1>2. CASE Done(r)
  <2>1. \A q \in Requests : Aside(q)
    BY <1>0, <1>1, <1>2, EndedKnown, NotAtCount DEF Aside, CountSteps
  <2>. QED
    BY <1>1, <2>1, CalmSaves
<1>3. CASE /\ ~(Doing(r) = "save" /\ Mine(r) \in saved)
           /\ req' = [req EXCEPT ![r].at = "saveUser", ![r].rival = Mine(r) \in saved]
  <2>. SUFFICES ASSUME excuses = {}
                PROVE  Balanced' /\ \A q \in Requests : ListRead(q)' /\ RowRead(q)'
    BY <1>1 DEF CountInv
  <2>1. /\ req'[r].at = "saveUser" /\ (req'[r].rival <=> Mine(r) \in saved)
        /\ req'[r].kind = req[r].kind /\ req'[r].todo = req[r].todo
        /\ req'[r].phone = req[r].phone
        /\ \A q \in Requests \ {r} : req'[q] = req[q]
    BY <1>0, <1>3 DEF Request
  <2>2. Doing(r)' = Doing(r) /\ Mine(r)' = Mine(r)
    BY <2>1 DEF Doing, Mine, This
  <2>3. ListRead(r)' /\ RowRead(r)'
    BY <1>1, <1>3, <2>1, <2>2 DEF ListRead, RowRead, At
  <2>4. ASSUME NEW q \in Requests \ {r} PROVE ListRead(q)' /\ RowRead(q)'
    <3>1. ListRead(q) /\ RowRead(q)
      BY DEF CountInv
    <3>2. ListRead(q)'
      BY <1>1, <2>1, <3>1, SameRequest DEF ListRead
    <3>3. RowRead(q)'
      BY <1>1, <2>1, <3>1, SameRequest DEF RowRead
    <3>. QED
      BY <3>2, <3>3
  <2>5. ASSUME NEW q \in Requests, NEW doing \in {"save", "unsave"}
        PROVE  Counting(q, doing)' <=> Counting(q, doing)
    <3>1. CASE q = r
      BY <1>1, <2>1, <3>1 DEF Counting, At
    <3>2. CASE q # r
      BY <2>1, <3>2, SameRequest
    <3>. QED
      BY <3>1, <3>2
  <2>6. Uncounted("save")' = Uncounted("save") /\ Uncounted("unsave")' = Uncounted("unsave")
    BY <2>5 DEF Uncounted
  <2>7. CountedSaves' = CountedSaves
    BY <1>1 DEF CountedSaves
  <2>8. Balanced'
    BY <1>1, <2>6, <2>7 DEF Balanced, CountInv
  <2>. QED
    BY <2>3, <2>4, <2>8
<1>. QED
  BY <1>2, <1>3 DEF FindUser

\* What one who moves among the steps of a save was and is counting.
LEMMA UncountedMoves ==
    ASSUME NEW r \in Requests, \A q \in Requests \ {r} : req'[q] = req[q], NEW doing
    PROVE  /\ Counting(r, doing)' /\ ~Counting(r, doing) =>
                 Uncounted(doing)' = Uncounted(doing) \cup {r} /\ r \notin Uncounted(doing)
           /\ ~Counting(r, doing)' /\ Counting(r, doing) =>
                 Uncounted(doing)' = Uncounted(doing) \ {r} /\ r \in Uncounted(doing)
           /\ (Counting(r, doing)' <=> Counting(r, doing)) => Uncounted(doing)' = Uncounted(doing)
<1>1. \A q \in Requests \ {r} : Counting(q, doing)' <=> Counting(q, doing)
  BY SameRequest
<1>2. CASE Counting(r, doing)' /\ ~Counting(r, doing)
  BY <1>1, <1>2 DEF Uncounted
<1>3. CASE ~Counting(r, doing)' /\ Counting(r, doing)
  BY <1>1, <1>3 DEF Uncounted
<1>4. CASE Counting(r, doing)' <=> Counting(r, doing)
  BY <1>1, <1>4 DEF Uncounted
<1>. QED
  BY <1>2, <1>3, <1>4

LEMMA GotoKnown ==
    ASSUME TypeOK, NEW r \in Requests, NEW step, Goto(r, step)
    PROVE  /\ req'[r].at = step /\ Doing(r)' = Doing(r) /\ Mine(r)' = Mine(r)
           /\ \A q \in Requests \ {r} : req'[q] = req[q]
<1>1. req \in [Requests -> Request] /\ req[r] \in Request
  BY DEF TypeOK
<1>2. /\ req'[r].at = step /\ \A q \in Requests \ {r} : req'[q] = req[q]
      /\ req'[r].kind = req[r].kind /\ req'[r].todo = req[r].todo /\ req'[r].phone = req[r].phone
  BY <1>1 DEF Goto, Request
<1>. QED
  BY <1>2 DEF Doing, Mine, This

\* The list is written: who had read it and is of another user has read it still.
LEMMA SaveUserCounted ==
    ASSUME SyncAssumption, BaseInv, CountInv, NEW r \in Requests, SaveUser(r)
    PROVE  CountInv'
<1>0. TypeOK /\ Whole(req[r]) /\ req \in [Requests -> Request] /\ req[r] \in Request
  BY DEF BaseInv, TypeOK
<1>1. /\ At(r, {"save", "unsave"}, "saveUser") /\ counts' = counts
      /\ excuses \subseteq excuses' /\ CrossedList(r) \subseteq excuses'
  BY DEF SaveUser
<1>. SUFFICES ASSUME excuses' = {}
              PROVE  Balanced' /\ \A q \in Requests : ListRead(q)' /\ RowRead(q)'
  BY DEF CountInv
<1>2. /\ Balanced /\ \A q \in Requests : ListRead(q) /\ RowRead(q)
      /\ req[r].rival <=> Mine(r) \in saved
      /\ Doing(r) = "save" => Mine(r) \notin saved
      /\ Doing(r) \in {"save", "unsave"} /\ req[r].at = "saveUser"
  BY <1>1 DEF CountInv, ListRead, At
<1>3. /\ req'[r].at \in {"count", "idle", "next", "record"}
      /\ \A q \in Requests \ {r} : req'[q] = req[q]
  <2>1. CASE Done(r)
    <3>1. req'[r].at \in {"idle", "record"}
      BY <1>0, <2>1, GotoKnown DEF Done, Finish, Idle
    <3>. QED
      BY <1>0, <2>1, <3>1, EndedKnown
  <2>2. CASE Goto(r, "count")
    BY <1>0, <2>2, GotoKnown
  <2>. QED
    BY <2>1, <2>2 DEF SaveUser
<1>4. ASSUME NEW q \in Requests PROVE ListRead(q)' /\ RowRead(q)'
  <2>1. CASE q = r
    BY <1>3, <2>1 DEF ListRead, RowRead, At
  <2>2. CASE q # r
    <3>1. req'[q] = req[q] /\ ListRead(q) /\ RowRead(q)
      BY <1>2, <1>3, <2>2
    <3>2. RowRead(q)'
      BY <1>1, <3>1, SameRequest DEF RowRead
    <3>3. ASSUME At(q, {"save", "unsave"}, "saveUser")
          PROVE  Mine(q) \in saved' <=> Mine(q) \in saved
      <4>1. Mine(q) # Mine(r)
        BY <1>1, <2>2, <3>3 DEF CrossedList, Others, At
      <4>. QED
        BY <4>1 DEF SaveUser
    <3>4. ListRead(q)'
      BY <3>1, <3>3, SameRequest DEF ListRead
    <3>. QED
      BY <3>2, <3>4
  <2>. QED
    BY <2>1, <2>2
<1>5. ~Counting(r, "save") /\ ~Counting(r, "unsave")
  BY <1>2 DEF Counting, At
<1>6. CountedSaves' = CountedSaves
  BY <1>1 DEF CountedSaves
<1>7. /\ IsFiniteSet(CountedSaves) /\ IsFiniteSet(saved)
      /\ IsFiniteSet(Uncounted("save")) /\ IsFiniteSet(Uncounted("unsave"))
      /\ Cardinality(CountedSaves) \in Nat /\ Cardinality(saved) \in Nat
      /\ Cardinality(Uncounted("save")) \in Nat /\ Cardinality(Uncounted("unsave")) \in Nat
      /\ Cardinality(CountedSaves) + Cardinality(Uncounted("save"))
           = Cardinality(saved) + Cardinality(Uncounted("unsave"))
  BY <1>2, FS_CardinalityType DEF Balanced
<1>8. CASE Doing(r) = "save"
  <2>1. Goto(r, "count") /\ saved' = saved \cup {Mine(r)} /\ Mine(r) \notin saved
    BY <1>2, <1>8 DEF SaveUser
  <2>2. Counting(r, "save")' /\ ~Counting(r, "unsave")'
    BY <1>0, <1>8, <2>1, GotoKnown DEF Counting, At
  <2>3. /\ Uncounted("save")' = Uncounted("save") \cup {r} /\ r \notin Uncounted("save")
        /\ Uncounted("unsave")' = Uncounted("unsave")
    BY <1>3, <1>5, <2>2, UncountedMoves
  <2>4. /\ IsFiniteSet(saved') /\ Cardinality(saved') = Cardinality(saved) + 1
        /\ IsFiniteSet(Uncounted("save")')
        /\ Cardinality(Uncounted("save")') = Cardinality(Uncounted("save")) + 1
    BY <1>7, <2>1, <2>3, FS_AddElement
  <2>. QED
    BY <1>4, <1>6, <1>7, <2>3, <2>4 DEF Balanced
<1>9. CASE Doing(r) = "unsave" /\ Mine(r) \in saved
  <2>1. Goto(r, "count") /\ saved' = saved \ {Mine(r)}
    BY <1>2, <1>9 DEF SaveUser
  <2>2. Counting(r, "unsave")' /\ ~Counting(r, "save")'
    BY <1>0, <1>9, <2>1, GotoKnown DEF Counting, At
  <2>3. /\ Uncounted("unsave")' = Uncounted("unsave") \cup {r} /\ r \notin Uncounted("unsave")
        /\ Uncounted("save")' = Uncounted("save")
    BY <1>3, <1>5, <2>2, UncountedMoves
  <2>4. /\ IsFiniteSet(saved') /\ Cardinality(saved') = Cardinality(saved) - 1
        /\ IsFiniteSet(Uncounted("unsave")')
        /\ Cardinality(Uncounted("unsave")') = Cardinality(Uncounted("unsave")) + 1
    BY <1>7, <1>9, <2>1, <2>3, FS_AddElement, FS_RemoveElement
  <2>. QED
    BY <1>4, <1>6, <1>7, <2>3, <2>4 DEF Balanced
<1>10. CASE Doing(r) = "unsave" /\ Mine(r) \notin saved
  <2>1. Done(r) /\ saved' = saved
    BY <1>2, <1>10 DEF SaveUser
  <2>2. ~Counting(r, "save")' /\ ~Counting(r, "unsave")'
    BY <1>0, <2>1, EndedKnown, NotAtCountNext
  <2>3. Uncounted("save")' = Uncounted("save") /\ Uncounted("unsave")' = Uncounted("unsave")
    BY <1>3, <1>5, <2>2, UncountedMoves
  <2>. QED
    BY <1>4, <1>6, <1>7, <2>1, <2>3 DEF Balanced
<1>. QED
  BY <1>2, <1>8, <1>9, <1>10

\* A day's rows are read: what is remembered of them is what they are.
LEMMA FindCountCounted ==
    ASSUME SyncAssumption, BaseInv, CountInv, NEW r \in Requests, FindCount(r)
    PROVE  CountInv'
<1>0. TypeOK /\ req \in [Requests -> Request] /\ req[r] \in Request
  BY DEF BaseInv, TypeOK
<1>1. /\ UNCHANGED <<saved, counts, excuses>> /\ req[r].at = "count"
      /\ Doing(r) \in {"save", "unsave"}
  BY DEF FindCount, At, tables, histories
<1>2. PICK i, n :
          /\ req' = [req EXCEPT ![r].at = "saveCount", ![r].day = Today, ![r].row = i, ![r].n = n]
          /\ \/ i = 0 /\ n = 0 /\ counts[Today] = <<>>
             \/ i \in DOMAIN counts[Today] /\ n = counts[Today][i]
  BY DEF FindCount
<1>3. /\ req'[r].at = "saveCount" /\ req'[r].day = Today /\ req'[r].row = i /\ req'[r].n = n
      /\ req'[r].kind = req[r].kind /\ req'[r].todo = req[r].todo
      /\ \A q \in Requests \ {r} : req'[q] = req[q]
  BY <1>0, <1>2 DEF Request
<1>4. Doing(r)' = Doing(r)
  BY <1>3 DEF Doing, This
<1>5. i \in DOMAIN counts[Today] => i # 0
  <2>1. Today \in Days
    BY <1>0, BoundsTyped DEF TypeOK, Today
  <2>2. counts[Today] \in Seq(0 .. MaxSaves)
    BY <1>0, <2>1 DEF TypeOK
  <2>. QED
    BY <2>2
<1>. SUFFICES ASSUME excuses = {}
              PROVE  Balanced' /\ \A q \in Requests : ListRead(q)' /\ RowRead(q)'
  BY <1>1 DEF CountInv
<1>6. ListRead(r)' /\ RowRead(r)'
  BY <1>1, <1>2, <1>3, <1>5 DEF ListRead, RowRead, At
<1>7. ASSUME NEW q \in Requests \ {r} PROVE ListRead(q)' /\ RowRead(q)'
  <2>1. ListRead(q) /\ RowRead(q)
    BY DEF CountInv
  <2>2. ListRead(q)'
    BY <1>1, <1>3, <2>1, SameRequest DEF ListRead
  <2>3. RowRead(q)'
    BY <1>1, <1>3, <2>1, SameRequest DEF RowRead
  <2>. QED
    BY <2>2, <2>3
<1>8. \A doing : Counting(r, doing)' <=> Counting(r, doing)
  BY <1>1, <1>3, <1>4 DEF Counting, At
<1>9. Uncounted("save")' = Uncounted("save") /\ Uncounted("unsave")' = Uncounted("unsave")
  BY <1>3, <1>8, UncountedMoves
<1>10. CountedSaves' = CountedSaves
  BY <1>1 DEF CountedSaves
<1>11. Balanced'
  BY <1>1, <1>9, <1>10 DEF Balanced, CountInv
<1>. QED
  BY <1>6, <1>7, <1>11

\* The counted saves, one by one.
LEMMA SavesKnown ==
    \A u : u \in CountedSaves <=>
        \E d \in Days : \E i \in DOMAIN counts[d] : \E n \in 1 .. counts[d][i] : u = <<d, <<i, n>>>>
  BY DEF CountedSaves

\* A row of a day counts one save more.
LEMMA SaveAdded ==
    ASSUME NEW d \in Days, NEW i, NEW n \in Nat,
           DOMAIN counts' = DOMAIN counts, \A e \in Days \ {d} : counts'[e] = counts[e],
           DOMAIN counts'[d] = DOMAIN counts[d] \cup {i}, counts'[d][i] = n + 1,
           \A j \in DOMAIN counts[d] \ {i} : counts'[d][j] = counts[d][j],
           i \in DOMAIN counts[d] => counts[d][i] = n,
           i \notin DOMAIN counts[d] => n = 0
    PROVE  /\ CountedSaves' = CountedSaves \cup {<<d, <<i, n + 1>>>>}
           /\ <<d, <<i, n + 1>>>> \notin CountedSaves
<1>. DEFINE new == <<d, <<i, n + 1>>>>
<1>1. \A u : u \in CountedSaves <=>
          \E e \in Days : \E j \in DOMAIN counts[e] : \E m \in 1 .. counts[e][j] : u = <<e, <<j, m>>>>
  BY SavesKnown
<1>2. \A u : u \in CountedSaves' <=>
          \E e \in Days : \E j \in DOMAIN counts'[e] : \E m \in 1 .. counts'[e][j] : u = <<e, <<j, m>>>>
  BY DEF CountedSaves
<1>3. 1 .. n + 1 = (1 .. n) \cup {n + 1} /\ n + 1 \notin 1 .. n
  OBVIOUS
<1>4. new \notin CountedSaves
  <2>. SUFFICES ASSUME new \in CountedSaves PROVE FALSE
    OBVIOUS
  <2>1. PICK e, j, m :
            e \in Days /\ j \in DOMAIN counts[e] /\ m \in 1 .. counts[e][j] /\ new = <<e, <<j, m>>>>
    BY <1>1
  <2>2. e = d /\ j = i /\ m = n + 1
    BY <2>1
  <2>. QED
    BY <1>3, <2>1, <2>2
<1>5. ASSUME NEW u \in CountedSaves PROVE u \in CountedSaves'
  <2>1. PICK e, j, m :
            e \in Days /\ j \in DOMAIN counts[e] /\ m \in 1 .. counts[e][j] /\ u = <<e, <<j, m>>>>
    BY <1>1
  <2>2. j \in DOMAIN counts'[e] /\ m \in 1 .. counts'[e][j]
    <3>1. CASE e # d
      BY <2>1, <3>1
    <3>2. CASE e = d /\ j # i
      BY <2>1, <3>2
    <3>3. CASE e = d /\ j = i
      BY <1>3, <2>1, <3>3
    <3>. QED
      BY <3>1, <3>2, <3>3
  <2>. QED
    BY <1>2, <2>1, <2>2
<1>6. new \in CountedSaves'
  <2>1. i \in DOMAIN counts'[d] /\ n + 1 \in 1 .. counts'[d][i]
    OBVIOUS
  <2>. QED
    BY <1>2, <2>1
<1>7. ASSUME NEW u \in CountedSaves', u # new PROVE u \in CountedSaves
  <2>1. PICK e, j, m :
            e \in Days /\ j \in DOMAIN counts'[e] /\ m \in 1 .. counts'[e][j] /\ u = <<e, <<j, m>>>>
    BY <1>2
  <2>2. j \in DOMAIN counts[e] /\ m \in 1 .. counts[e][j]
    <3>1. CASE e # d
      BY <2>1, <3>1
    <3>2. CASE e = d /\ j # i
      BY <2>1, <3>2
    <3>3. CASE e = d /\ j = i
      <4>1. m \in 1 .. n + 1 /\ m # n + 1
        BY <1>7, <2>1, <3>3
      <4>2. m \in 1 .. n
        BY <1>3, <4>1
      <4>3. i \in DOMAIN counts[d]
        BY <4>2
      <4>. QED
        BY <3>3, <4>2, <4>3
    <3>. QED
      BY <3>1, <3>2, <3>3
  <2>. QED
    BY <1>1, <2>1, <2>2
<1>. HIDE DEF new
<1>8. CountedSaves' = CountedSaves \cup {new} /\ new \notin CountedSaves
  BY <1>4, <1>5, <1>6, <1>7
<1>. QED
  BY <1>8 DEF new

\* A row of a day counts one save less.
LEMMA SaveTaken ==
    ASSUME NEW d \in Days, NEW i \in DOMAIN counts[d], NEW n \in Nat, counts[d][i] = n + 1,
           DOMAIN counts' = DOMAIN counts, \A e \in Days \ {d} : counts'[e] = counts[e],
           DOMAIN counts'[d] = DOMAIN counts[d], counts'[d][i] = n,
           \A j \in DOMAIN counts[d] \ {i} : counts'[d][j] = counts[d][j]
    PROVE  /\ CountedSaves' = CountedSaves \ {<<d, <<i, n + 1>>>>}
           /\ <<d, <<i, n + 1>>>> \in CountedSaves
<1>. DEFINE old == <<d, <<i, n + 1>>>>
<1>1. \A u : u \in CountedSaves <=>
          \E e \in Days : \E j \in DOMAIN counts[e] : \E m \in 1 .. counts[e][j] : u = <<e, <<j, m>>>>
  BY SavesKnown
<1>2. \A u : u \in CountedSaves' <=>
          \E e \in Days : \E j \in DOMAIN counts'[e] : \E m \in 1 .. counts'[e][j] : u = <<e, <<j, m>>>>
  BY DEF CountedSaves
<1>3. 1 .. n + 1 = (1 .. n) \cup {n + 1} /\ n + 1 \notin 1 .. n
  OBVIOUS
<1>4. old \in CountedSaves
  <2>1. n + 1 \in 1 .. counts[d][i]
    OBVIOUS
  <2>. QED
    BY <1>1, <2>1
<1>5. old \notin CountedSaves'
  <2>. SUFFICES ASSUME old \in CountedSaves' PROVE FALSE
    OBVIOUS
  <2>1. PICK e, j, m :
            e \in Days /\ j \in DOMAIN counts'[e] /\ m \in 1 .. counts'[e][j] /\ old = <<e, <<j, m>>>>
    BY <1>2
  <2>2. e = d /\ j = i /\ m = n + 1
    BY <2>1
  <2>. QED
    BY <1>3, <2>1, <2>2
<1>6. ASSUME NEW u \in CountedSaves' PROVE u \in CountedSaves
  <2>1. PICK e, j, m :
            e \in Days /\ j \in DOMAIN counts'[e] /\ m \in 1 .. counts'[e][j] /\ u = <<e, <<j, m>>>>
    BY <1>2
  <2>2. j \in DOMAIN counts[e] /\ m \in 1 .. counts[e][j]
    <3>1. CASE e # d
      BY <2>1, <3>1
    <3>2. CASE e = d /\ j # i
      BY <2>1, <3>2
    <3>3. CASE e = d /\ j = i
      BY <1>3, <2>1, <3>3
    <3>. QED
      BY <3>1, <3>2, <3>3
  <2>. QED
    BY <1>1, <2>1, <2>2
<1>7. ASSUME NEW u \in CountedSaves, u # old PROVE u \in CountedSaves'
  <2>1. PICK e, j, m :
            e \in Days /\ j \in DOMAIN counts[e] /\ m \in 1 .. counts[e][j] /\ u = <<e, <<j, m>>>>
    BY <1>1
  <2>2. j \in DOMAIN counts'[e] /\ m \in 1 .. counts'[e][j]
    <3>1. CASE e # d
      BY <2>1, <3>1
    <3>2. CASE e = d /\ j # i
      BY <2>1, <3>2
    <3>3. CASE e = d /\ j = i
      <4>1. m \in 1 .. n + 1 /\ m # n + 1
        BY <1>7, <2>1, <3>3
      <4>. QED
        BY <1>3, <3>3, <4>1
    <3>. QED
      BY <3>1, <3>2, <3>3
  <2>. QED
    BY <1>2, <2>1, <2>2
<1>. HIDE DEF old
<1>8. CountedSaves' = CountedSaves \ {old} /\ old \in CountedSaves
  BY <1>4, <1>5, <1>6, <1>7
<1>. QED
  BY <1>8 DEF old

\* A day's row is written: nobody else had read one.
LEMMA SaveCountCounted ==
    ASSUME SyncAssumption, BaseInv, CountInv, NEW r \in Requests, SaveCount(r)
    PROVE  CountInv'
<1>0. TypeOK /\ Whole(req[r]) /\ req[r] \in Request /\ counts \in [Days -> Seq(0 .. MaxSaves)]
  BY DEF BaseInv, TypeOK
<1>1. /\ req[r].at = "saveCount" /\ Doing(r) \in {"save", "unsave"}
      /\ saved' = saved /\ excuses \subseteq excuses' /\ Done(r)
  BY DEF SaveCount, At
<1>. SUFFICES ASSUME excuses' = {}
              PROVE  Balanced' /\ \A q \in Requests : ListRead(q)' /\ RowRead(q)'
  BY DEF CountInv
<1>2. /\ Balanced /\ \A q \in Requests : ListRead(q) /\ RowRead(q)
      /\ Others(r, {"save", "unsave"}, "saveCount") = {}
      /\ ~(Doing(r) = "unsave" /\ req[r].n = 0)
  BY <1>1 DEF CountInv, SaveCount
<1>3. /\ req'[r].at \notin CountSteps /\ \A q \in Requests \ {r} : req'[q] = req[q]
  BY <1>0, <1>1, EndedKnown
<1>4. ASSUME NEW q \in Requests PROVE ListRead(q)' /\ RowRead(q)'
  <2>1. CASE q = r
    BY <1>3, <2>1, NotAtCountNext
  <2>2. CASE q # r
    <3>1. req'[q] = req[q] /\ ListRead(q) /\ ~At(q, {"save", "unsave"}, "saveCount")
      BY <1>2, <1>3, <2>2 DEF Others
    <3>2. RowRead(q)'
      BY <3>1, SameRequest DEF RowRead
    <3>3. ListRead(q)'
      BY <1>1, <3>1, SameRequest DEF ListRead
    <3>. QED
      BY <3>2, <3>3
  <2>. QED
    BY <2>1, <2>2
<1>5. /\ IsFiniteSet(CountedSaves) /\ IsFiniteSet(saved)
      /\ IsFiniteSet(Uncounted("save")) /\ IsFiniteSet(Uncounted("unsave"))
      /\ Cardinality(CountedSaves) \in Nat /\ Cardinality(saved) \in Nat
      /\ Cardinality(Uncounted("save")) \in Nat /\ Cardinality(Uncounted("unsave")) \in Nat
      /\ Cardinality(CountedSaves) + Cardinality(Uncounted("save"))
           = Cardinality(saved) + Cardinality(Uncounted("unsave"))
  BY <1>2, FS_CardinalityType DEF Balanced
<1>6. PICK d \in Days, i \in Nat, n \in Nat : d = req[r].day /\ i = req[r].row /\ n = req[r].n
  <2>1. MaxSaves \in Nat
    BY BoundsTyped
  <2>. QED
    BY <1>0, <2>1 DEF Request
<1>7. IF i = 0 THEN counts[d] = <<>> /\ n = 0 ELSE i \in DOMAIN counts[d] /\ n = counts[d][i]
  BY <1>1, <1>2, <1>6 DEF RowRead, At
<1>8. ~Counting(r, "save")' /\ ~Counting(r, "unsave")'
  BY <1>3, NotAtCountNext
<1>9. \A e \in Days \ {d} : counts'[e] = counts[e]
  BY <1>0, <1>6 DEF SaveCount
<1>10. DOMAIN counts' = DOMAIN counts
  BY <1>0, <1>6 DEF SaveCount
<1>11. CASE Doing(r) = "save"
  <2>1. Counted(r) = n + 1
    BY <1>6, <1>11 DEF Counted
  <2>2. PICK k : /\ DOMAIN counts'[d] = DOMAIN counts[d] \cup {k} /\ counts'[d][k] = n + 1
                 /\ \A j \in DOMAIN counts[d] \ {k} : counts'[d][j] = counts[d][j]
                 /\ k \in DOMAIN counts[d] => counts[d][k] = n
                 /\ k \notin DOMAIN counts[d] => n = 0
    <3>1. CASE i = 0
      <4>1. counts'[d] = Append(<<>>, n + 1) /\ counts[d] = <<>> /\ n = 0
        BY <1>0, <1>6, <1>7, <2>1, <3>1 DEF SaveCount
      <4>2. DOMAIN counts'[d] = {1} /\ counts'[d][1] = n + 1 /\ DOMAIN counts[d] = {}
        BY <4>1
      <4>. QED
        BY <4>1, <4>2
    <3>2. CASE i # 0
      <4>1. counts'[d] = [counts[d] EXCEPT ![i] = n + 1] /\ i \in DOMAIN counts[d] /\ n = counts[d][i]
        BY <1>0, <1>6, <1>7, <2>1, <3>2 DEF SaveCount
      <4>2. DOMAIN counts'[d] = DOMAIN counts[d] \cup {i} /\ counts'[d][i] = n + 1
            /\ \A j \in DOMAIN counts[d] \ {i} : counts'[d][j] = counts[d][j]
        BY <4>1
      <4>. QED
        BY <4>1, <4>2
    <3>. QED
      BY <3>1, <3>2
  <2>3. /\ CountedSaves' = CountedSaves \cup {<<d, <<k, n + 1>>>>}
        /\ <<d, <<k, n + 1>>>> \notin CountedSaves
    BY <1>9, <1>10, <2>2, SaveAdded
  <2>4. Counting(r, "save") /\ ~Counting(r, "unsave")
    BY <1>1, <1>11 DEF Counting, At
  <2>5. /\ Uncounted("save")' = Uncounted("save") \ {r} /\ r \in Uncounted("save")
        /\ Uncounted("unsave")' = Uncounted("unsave")
    BY <1>3, <1>8, <2>4, UncountedMoves
  <2>6. /\ IsFiniteSet(CountedSaves') /\ Cardinality(CountedSaves') = Cardinality(CountedSaves) + 1
    BY <1>5, <2>3, FS_AddElement
  <2>7. /\ IsFiniteSet(Uncounted("save")')
        /\ Cardinality(Uncounted("save")') = Cardinality(Uncounted("save")) - 1
    BY <1>5, <2>5, FS_RemoveElement
  <2>. QED
    BY <1>1, <1>4, <1>5, <2>5, <2>6, <2>7 DEF Balanced
<1>12. CASE Doing(r) = "unsave"
  <2>1. n # 0 /\ i # 0
    BY <1>2, <1>6, <1>7, <1>12
  <2>2. PICK m \in Nat : n = m + 1
    BY <2>1
  <2>3. Counted(r) = m
    BY <1>6, <1>12, <2>2 DEF Counted
  <2>4. counts'[d] = [counts[d] EXCEPT ![i] = m] /\ i \in DOMAIN counts[d] /\ counts[d][i] = m + 1
    BY <1>0, <1>6, <1>7, <2>1, <2>2, <2>3 DEF SaveCount
  <2>5. /\ DOMAIN counts'[d] = DOMAIN counts[d] /\ counts'[d][i] = m
        /\ \A j \in DOMAIN counts[d] \ {i} : counts'[d][j] = counts[d][j]
    BY <2>4
  <2>6. /\ CountedSaves' = CountedSaves \ {<<d, <<i, m + 1>>>>}
        /\ <<d, <<i, m + 1>>>> \in CountedSaves
    BY <1>9, <1>10, <2>4, <2>5, SaveTaken
  <2>7. Counting(r, "unsave") /\ ~Counting(r, "save")
    BY <1>1, <1>12 DEF Counting, At
  <2>8. /\ Uncounted("unsave")' = Uncounted("unsave") \ {r} /\ r \in Uncounted("unsave")
        /\ Uncounted("save")' = Uncounted("save")
    BY <1>3, <1>8, <2>7, UncountedMoves
  <2>9. /\ IsFiniteSet(CountedSaves') /\ Cardinality(CountedSaves') = Cardinality(CountedSaves) - 1
    <3>1. PICK e : CountedSaves' = CountedSaves \ {e} /\ e \in CountedSaves
      BY <2>6
    <3>2. IsFiniteSet(CountedSaves)
      BY <1>5
    <3>. QED
      BY <3>1, <3>2, FS_RemoveElement
  <2>10. /\ IsFiniteSet(Uncounted("unsave")')
         /\ Cardinality(Uncounted("unsave")') = Cardinality(Uncounted("unsave")) - 1
    BY <1>5, <2>8, FS_RemoveElement
  <2>. QED
    BY <1>1, <1>4, <1>5, <2>8, <2>9, <2>10 DEF Balanced
<1>. QED
  BY <1>1, <1>11, <1>12

LEMMA CountStep ==
    ASSUME SyncAssumption, BaseInv, CountInv, [Next]_vars
    PROVE  CountInv'
<1>1. CASE UNCHANGED vars \/ Tick \/ \E p \in Phones : RecordOffline(p)
  <2>1. UNCHANGED <<req, saved, counts, excuses>>
    BY <1>1 DEF vars, Tick, RecordOffline, tables, histories
  <2>2. \A q \in Requests : Aside(q)
    BY <2>1 DEF Aside
  <2>. QED
    BY <2>1, <2>2, CalmSaves
<1>2. ASSUME NEW r \in Requests, Step(r), ~FindUser(r), ~SaveUser(r), ~FindCount(r), ~SaveCount(r)
      PROVE  CountInv'
  BY <1>2, SavesAside, CalmSaves
<1>. QED
  BY <1>1, <1>2, FindUserCounted, SaveUserCounted, FindCountCounted, SaveCountCounted DEF Next

LEMMA CountInit ==
    ASSUME SyncAssumption, Init
    PROVE  CountInv
<1>1. \A r \in Requests : req[r].at \notin CountSteps
  BY IdleTyped DEF Init, CountSteps
<1>2. Uncounted("save") = {} /\ Uncounted("unsave") = {}
  BY <1>1, NotAtCount DEF Uncounted
<1>3. CountedSaves = {} /\ saved = {}
  <2>1. \A d \in Days : DOMAIN counts[d] = {}
    BY DEF Init
  <2>2. CountedSaves = {}
    BY <2>1 DEF CountedSaves
  <2>. QED
    BY <2>2 DEF Init
<1>4. Balanced
  BY <1>2, <1>3, FS_EmptySet DEF Balanced
<1>. QED
  BY <1>1, <1>4, NotAtCount DEF CountInv

\* Once no save is half done, the saves counted are the users who have the venue,
\* unless one of the five things happened that the code does nothing about: crossed
\* writes, a failure between the two rows, an online unsave, a list replaced, an
\* unsave of a later day (sync.service.ts 40-48 and 288-306, users.service.ts 130-161).
THEOREM MiscountsHaveACause == Spec => []MiscountHasACause
<1>1. Init => BaseInv /\ CountInv
  BY BaseInit, CountInit, SyncAssumption
<1>2. (BaseInv /\ CountInv) /\ [Next]_vars => (BaseInv /\ CountInv)'
  BY BaseStep, CountStep, SyncAssumption
<1>3. CountInv => MiscountHasACause
  <2>. SUFFICES ASSUME CountInv, excuses = {},
                       \A r \in Requests : ~At(r, {"save", "unsave"}, "count")
                                            /\ ~At(r, {"save", "unsave"}, "saveCount")
                PROVE  Total = Cardinality(saved)
    BY DEF MiscountHasACause
  <2>1. Uncounted("save") = {} /\ Uncounted("unsave") = {}
    BY DEF Uncounted, Counting, At
  <2>2. Cardinality({}) = 0 /\ Cardinality(CountedSaves) \in Nat /\ Cardinality(saved) \in Nat
    BY FS_EmptySet, FS_CardinalityType DEF CountInv, Balanced
  <2>. QED
    BY <2>1, <2>2 DEF CountInv, Balanced, Total
<1>. QED
  BY <1>1, <1>2, <1>3, PTL DEF Spec
================================================================================
