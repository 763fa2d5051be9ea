----------------------------- MODULE BillingProofs -----------------------------
(***************************************************************************)
(* Proofs about Billing, for any keys, plans, requests and endpoints in    *)
(* use, and with saves that overlap in any way: types; that rights of a    *)
(* paid plan were paid for; that a row mirrors Stripe unless a save took   *)
(* it back; and that the rows implement StripeMirror.                      *)
(***************************************************************************)
EXTENDS Billing, FiniteSetTheorems, TLAPS

-------------------------------------------------------------------------------
(* The inductive invariant. *)

\* Whoever says that subscription k is active or past due, its first invoice was paid.
Backed(k, s) == s.status \in Changeable => Receipt(k, "paid") \in receipts

RemoteBacked == \A k \in Keys : Backed(k, remote[k].is)
EventsBacked == \A i \in DOMAIN events : Backed(events[i].key, events[i].is)
RowsBacked == \A k \in Keys : Backed(k, row[k].is)

\* What a request will write was backed when it was read.
CopyBacked(r) ==
    req[r].at \in {"store", "schedule", "savePending", "saveGrace"}
        => Backed(req[r].key, req[r].copy.is)

\* A delivery in progress is of an event that was sent, about the subscription it names.
Delivers(r) ==
    req[r].at \in {"findEvent", "insertEvent", "apply", "store", "done", "fail"}
        => Sent(req[r].event) /\ req[r].event.key = req[r].key

RequestsBacked == \A r \in Requests : CopyBacked(r) /\ Delivers(r)

\* Stripe's clock has at most one new second per event.
SecondsPast == \A i \in DOMAIN events : events[i].created <= i

BillingInv ==
    /\ TypeOK /\ SecondsPast
    /\ RemoteBacked /\ EventsBacked /\ RowsBacked /\ RequestsBacked
-------------------------------------------------------------------------------
(* Requests. *)

LEMMA NoRequestIdle == NoRequest.at = "idle" /\ "idle" \notin Steps
  BY DEF NoRequest, Steps

LEMMA RequestTyped ==
    ASSUME TypeOK, NEW r \in Requests, req[r].at \in Steps
    PROVE  req[r] \in Request
  BY NoRequestIdle DEF TypeOK

LEMMA FinishTyped ==
    ASSUME TypeOK, NEW r \in Requests, Finish(r)
    PROVE  /\ req' \in [Requests -> Request \cup {NoRequest}]
           /\ req'[r].at = "idle"
           /\ \A q \in Requests \ {r} : req'[q] = req[q]
  BY NoRequestIdle DEF TypeOK, Finish

LEMMA MoveTyped ==
    ASSUME TypeOK, NEW r \in Requests, req[r].at \in Steps,
           NEW step \in Steps, NEW on \in Keys, NEW copy \in Subscription,
           Move(r, step, on, copy)
    PROVE  /\ req' \in [Requests -> Request \cup {NoRequest}]
           /\ req'[r].at = step /\ req'[r].key = req[r].key /\ req'[r].copy = copy
           /\ req'[r].event = req[r].event
           /\ req'[r].base = IF step = "store" THEN row[req[r].key].from ELSE req[r].base
           /\ \A q \in Requests \ {r} : req'[q] = req[q]
<1>. DEFINE base == IF step = "store" THEN row[req[r].key].from ELSE req[r].base
            new == [at |-> step, key |-> req[r].key, on |-> on, copy |-> copy,
                    base |-> base, event |-> req[r].event, plan |-> req[r].plan]
<1>1. req[r] \in Request
  BY RequestTyped
<1>2. new \in Request
  <2>1. row[req[r].key].from \in 0..MaxEvents /\ req[r].base \in 0..MaxEvents
    BY <1>1 DEF TypeOK, Subscription, Request
  <2>2. base \in 0..MaxEvents
    BY <2>1
  <2>. HIDE DEF base
  <2>. QED
    BY <1>1, <2>2 DEF Request
<1>3. req' = [req EXCEPT ![r] = new] /\ req \in [Requests -> Request \cup {NoRequest}]
  BY DEF TypeOK, Move
<1>. HIDE DEF new
<1>4. req' \in [Requests -> Request \cup {NoRequest}] /\ req'[r] = new
      /\ \A q \in Requests \ {r} : req'[q] = req[q]
  BY <1>2, <1>3
<1>. QED
  BY <1>4 DEF new

LEMMA GotoTyped ==
    ASSUME TypeOK, NEW r \in Requests, req[r].at \in Steps, NEW step \in Steps,
           Goto(r, step)
    PROVE  /\ req' \in [Requests -> Request \cup {NoRequest}]
           /\ req'[r].at = step /\ req'[r].key = req[r].key /\ req'[r].copy = req[r].copy
           /\ req'[r].event = req[r].event
           /\ step # "store" => req'[r].base = req[r].base
           /\ \A q \in Requests \ {r} : req'[q] = req[q]
<1>1. req[r] \in Request
  BY RequestTyped
<1>2. req[r].on \in Keys /\ req[r].copy \in Subscription
  BY <1>1 DEF Request
<1>3. PICK on \in Keys, copy \in Subscription : on = req[r].on /\ copy = req[r].copy
  BY <1>2
<1>4. Move(r, step, on, copy)
  BY <1>3 DEF Goto
<1>. QED
  BY <1>3, <1>4, MoveTyped

LEMMA StartTyped ==
    ASSUME TypeOK, NEW r \in Requests, NEW step \in Steps, NEW k \in Keys,
           NEW copy \in Subscription, NEW e \in Event, NEW p \in Plans,
           Start(r, step, k, copy, e, p)
    PROVE  /\ req' \in [Requests -> Request \cup {NoRequest}]
           /\ req'[r].at = step /\ req'[r].key = k /\ req'[r].copy = copy
           /\ req'[r].event = e /\ req'[r].base = copy.from
           /\ \A q \in Requests \ {r} : req'[q] = req[q]
<1>. DEFINE new == [at |-> step, key |-> k, on |-> k, copy |-> copy, base |-> copy.from,
                    event |-> e, plan |-> p]
<1>1. new \in Request
  BY DEF Request, Subscription
<1>2. req' = [req EXCEPT ![r] = new] /\ req \in [Requests -> Request \cup {NoRequest}]
  BY DEF TypeOK, Start
<1>. HIDE DEF new
<1>3. req' \in [Requests -> Request \cup {NoRequest}] /\ req'[r] = new
      /\ \A q \in Requests \ {r} : req'[q] = req[q]
  BY <1>1, <1>2
<1>. QED
  BY <1>3 DEF new

-------------------------------------------------------------------------------
(* Steps of the server: Stripe stays as it is. *)

LEMMA ServerStep ==
    ASSUME BillingInv, UNCHANGED stripe, NEW r \in Requests,
           req' \in [Requests -> Request \cup {NoRequest}],
           \A q \in Requests \ {r} : req'[q] = req[q],
           CopyBacked(r)', Delivers(r)',
           row' \in [Keys -> Subscription], RowsBacked',
           inbox' \in [Event -> {"none", "processing", "processed", "failed"}],
           attempt' \in [Keys -> [outcome : {"none", "initiated", "requires_confirmation",
                                        "success", "declined"},
                                  intent : {"unknown", "known"}]],
           faults' \in 0..MaxFaults, restarts' \in 0..MaxRestarts,
           overtaken' \subseteq Keys
    PROVE  BillingInv'
<1>1. TypeOK'
  BY DEF BillingInv, TypeOK, stripe
<1>2. SecondsPast' /\ RemoteBacked' /\ EventsBacked'
  BY DEF BillingInv, SecondsPast, RemoteBacked, EventsBacked, Backed, stripe
<1>3. RequestsBacked'
  <2>1. ASSUME NEW q \in Requests \ {r} PROVE CopyBacked(q)' /\ Delivers(q)'
    <3>1. req'[q] = req[q] /\ CopyBacked(q) /\ Delivers(q)
      BY <2>1 DEF BillingInv, RequestsBacked
    <3>. QED
      BY <3>1 DEF CopyBacked, Delivers, Backed, Sent, stripe
  <2>. QED
    BY <2>1 DEF RequestsBacked
<1>. QED
  BY <1>1, <1>2, <1>3 DEF BillingInv

\* The tables stay as well, and the request goes on with what it has, or ends.
LEMMA QuietStep ==
    ASSUME BillingInv, UNCHANGED <<stripe, row, mishaps>>, NEW r \in Requests,
           req' \in [Requests -> Request \cup {NoRequest}],
           \A q \in Requests \ {r} : req'[q] = req[q],
           CopyBacked(r)', Delivers(r)',
           inbox' \in [Event -> {"none", "processing", "processed", "failed"}],
           attempt' \in [Keys -> [outcome : {"none", "initiated", "requires_confirmation",
                                        "success", "declined"},
                                  intent : {"unknown", "known"}]]
    PROVE  BillingInv'
<1>1. row' \in [Keys -> Subscription] /\ RowsBacked'
  BY DEF BillingInv, TypeOK, RowsBacked, Backed, stripe
<1>2. /\ faults' \in 0..MaxFaults /\ restarts' \in 0..MaxRestarts
      /\ overtaken' \subseteq Keys /\ UNCHANGED stripe
  BY DEF BillingInv, TypeOK, mishaps
<1>. QED
  BY <1>1, <1>2, ServerStep

-------------------------------------------------------------------------------
(* Steps of Stripe: a subscription becomes what its first payment allows. *)

LEMMA BecomesTyped ==
    ASSUME ConstantsAssumption, BillingInv, NEW k \in Keys, NEW s \in Snapshot,
           NEW next \in Plans \cup {NoPlan}, Becomes(k, s, next)
    PROVE  /\ remote' \in [Keys -> [is : Snapshot, next : Plans \cup {NoPlan}]]
           /\ remote'[k].is = s /\ \A j \in Keys \ {k} : remote'[j] = remote[j]
           /\ events' \in Seq([key : Keys, created : 1..MaxEvents, is : Snapshot])
           /\ Len(events') = Len(events) + 1 /\ Len(events') <= MaxEvents
           /\ \A i \in DOMAIN events : events'[i] = events[i]
           /\ events'[Len(events) + 1].key = k /\ events'[Len(events) + 1].is = s
           /\ SecondsPast'
<1>. DEFINE n == Len(events)
            E == [key : Keys, created : 1..MaxEvents, is : Snapshot]
<1>1. events \in Seq(E) /\ n \in Nat /\ n < MaxEvents /\ MaxEvents \in Nat
      /\ DOMAIN events = 1..n
  BY DEF Becomes, Unreachable, BillingInv, TypeOK, ConstantsAssumption
<1>. HIDE DEF E
<1>2. \A i \in 1..n : events[i] \in E /\ events[i].created \in 1..i
  <2>1. \A i \in 1..n : events[i].created <= i
    BY <1>1 DEF BillingInv, SecondsPast
  <2>2. \A i \in 1..n : events[i] \in E
    BY <1>1
  <2>3. \A x \in E : x.created \in 1..MaxEvents
    BY DEF E
  <2>4. ASSUME NEW i \in 1..n PROVE events[i].created \in 1..i
    <3>1. events[i].created <= i /\ events[i].created \in 1..MaxEvents
      BY <2>1, <2>2, <2>3
    <3>. QED
      BY <3>1, <1>1
  <2>. QED
    BY <2>2, <2>4
<1>3. Now \in 0..n
  <2>1. CASE n = 0
    BY <2>1, <1>1 DEF Now
  <2>2. CASE n > 0
    BY <2>2, <1>1, <1>2 DEF Now
  <2>. QED
    BY <2>1, <2>2, <1>1
<1>4. PICK second \in 1..(n + 1) :
          events' = Append(events, [key |-> k, created |-> second, is |-> s])
  BY <1>3, <1>1 DEF Becomes
<1>. DEFINE new == [key |-> k, created |-> second, is |-> s]
<1>5. new \in E
  BY <1>1 DEF E
<1>6. events' = Append(events, new)
  BY <1>4
<1>. HIDE DEF new
<1>7. /\ events' \in Seq(E) /\ Len(events') = n + 1 /\ events'[n + 1] = new
      /\ \A i \in 1..n : events'[i] = events[i]
  BY <1>1, <1>5, <1>6
<1>8. DOMAIN events' = 1..(n + 1)
  BY <1>1, <1>7
<1>9. new.created <= n + 1 /\ new.key = k /\ new.is = s
  BY <1>1 DEF new
<1>10. SecondsPast'
  BY <1>1, <1>2, <1>7, <1>8, <1>9 DEF SecondsPast
<1>11. /\ remote' \in [Keys -> [is : Snapshot, next : Plans \cup {NoPlan}]]
       /\ remote'[k].is = s /\ \A j \in Keys \ {k} : remote'[j] = remote[j]
  BY DEF Becomes, BillingInv, TypeOK
<1>. QED
  BY <1>1, <1>7, <1>9, <1>10, <1>11 DEF E

LEMMA StripeStep ==
    ASSUME ConstantsAssumption, BillingInv, NEW k \in Keys, NEW s \in Snapshot,
           NEW next \in Plans \cup {NoPlan}, Becomes(k, s, next),
           receipts \subseteq receipts', receipts' \subseteq Event, seen' \subseteq Keys,
           UNCHANGED <<tables, mishaps>>,
           s.status \in Changeable => Receipt(k, "paid") \in receipts',
           req' \in [Requests -> Request \cup {NoRequest}],
           \A q \in Requests : req'[q] = req[q] \/ req'[q].at \in {"idle", "record"}
    PROVE  BillingInv'
<1>1. TypeOK'
  BY BecomesTyped DEF BillingInv, TypeOK, tables, mishaps
<1>2. RemoteBacked'
  BY BecomesTyped DEF BillingInv, RemoteBacked, Backed
<1>3. EventsBacked'
  <2>1. DOMAIN events = 1..Len(events) /\ DOMAIN events' = 1..(Len(events) + 1)
        /\ Len(events) \in Nat
    BY BecomesTyped DEF BillingInv, TypeOK
  <2>2. ASSUME NEW i \in DOMAIN events' PROVE Backed(events[i].key, events[i].is)'
    <3>1. CASE i \in DOMAIN events
      BY <3>1, BecomesTyped DEF BillingInv, EventsBacked, Backed
    <3>2. CASE i = Len(events) + 1
      BY <3>2, BecomesTyped DEF Backed
    <3>. QED
      BY <2>1, <3>1, <3>2
  <2>. QED
    BY <2>2 DEF EventsBacked
<1>4. RowsBacked'
  BY DEF BillingInv, RowsBacked, Backed, tables
<1>5. RequestsBacked'
  <2>1. \A e \in Event : Sent(e) => Sent(e)'
    <3>1. DOMAIN events \subseteq DOMAIN events'
      BY BecomesTyped DEF BillingInv, TypeOK
    <3>. QED
      BY <3>1, BecomesTyped DEF Sent
  <2>2. ASSUME NEW q \in Requests PROVE CopyBacked(q)' /\ Delivers(q)'
    <3>1. CASE req'[q].at \in {"idle", "record"}
      BY <3>1 DEF CopyBacked, Delivers
    <3>2. CASE req'[q] = req[q]
      <4>1. CopyBacked(q) /\ Delivers(q)
        BY DEF BillingInv, RequestsBacked
      <4>2. CopyBacked(q)'
        BY <3>2, <4>1 DEF CopyBacked, Backed
      <4>3. Delivers(q)'
        <5>1. ASSUME req[q].at \in {"findEvent", "insertEvent", "apply", "store", "done",
                                    "fail"}
              PROVE  req[q].event \in Event
          BY <5>1, RequestTyped DEF BillingInv, Steps, Request
        <5>. QED
          BY <3>2, <4>1, <5>1, <2>1 DEF Delivers
      <4>. QED
        BY <4>2, <4>3
    <3>. QED
      BY <3>1, <3>2
  <2>. QED
    BY <2>2 DEF RequestsBacked
<1>. QED
  BY <1>1, <1>2, <1>3, <1>4, <1>5, BecomesTyped DEF BillingInv

-------------------------------------------------------------------------------
(* The parts of records. *)

LEMMA SnapTyped ==
    ASSUME NEW status \in Statuses, NEW p \in Plans \cup {NoPlan}
    PROVE  Snap(status, p) \in Snapshot /\ Snap(status, p).status = status
  BY DEF Snap, Snapshot

LEMMA NoRowTyped ==
    ASSUME ConstantsAssumption
    PROVE  NoRow \in Subscription /\ NoRow.is.status = "none"
<1>1. Cardinality(Keys) \in Nat
  BY FS_CardinalityType DEF ConstantsAssumption
<1>2. Unsubscribed \in Snapshot /\ Unsubscribed.status = "none"
  BY SnapTyped DEF Unsubscribed, Statuses
<1>. QED
  BY <1>1, <1>2 DEF NoRow, Subscription, ConstantsAssumption

LEMMA NoEventTyped ==
    ASSUME NEW k \in Keys
    PROVE  NoEvent(k) \in Event /\ NoEvent(k).key = k /\ NoEvent(k).kind # "subscription"
  BY DEF NoEvent, Receipt, Event

LEMMA SnapshotChanged ==
    ASSUME NEW s \in Snapshot
    PROVE  /\ \A status \in Statuses :
                  /\ [s EXCEPT !.status = status] \in Snapshot
                  /\ [s EXCEPT !.status = status].status = status
           /\ \A p \in Plans \cup {NoPlan} :
                  /\ [s EXCEPT !.price = p] \in Snapshot
                  /\ [s EXCEPT !.price = p].status = s.status
           /\ \A ends \in {"never", "atPeriodEnd"} :
                  /\ [s EXCEPT !.ends = ends] \in Snapshot
                  /\ [s EXCEPT !.ends = ends].status = s.status
  BY DEF Snapshot

\* Two copies of a row tell the same event.
SameEvent(c, new) == new.is = c.is /\ new.from = c.from /\ new.last = c.last

LEMMA SubscriptionChanged ==
    ASSUME NEW c \in Subscription
    PROVE  /\ \A p \in Plans \cup {NoPlan} :
                  /\ [c EXCEPT !.pending = p] \in Subscription
                  /\ SameEvent(c, [c EXCEPT !.pending = p])
           /\ [c EXCEPT !.grace = "given"] \in Subscription
           /\ SameEvent(c, [c EXCEPT !.grace = "given"])
           /\ \A n \in 0..Cardinality(Keys) :
                  /\ [c EXCEPT !.born = n] \in Subscription
                  /\ SameEvent(c, [c EXCEPT !.born = n])
  BY DEF Subscription, SameEvent

LEMMA EventTyped ==
    ASSUME BillingInv, NEW e \in Event, Sent(e), e.kind = "subscription"
    PROVE  /\ events[e.n] \in [key : Keys, created : 1..MaxEvents, is : Snapshot]
           /\ events[e.n].key = e.key /\ Backed(e.key, events[e.n].is)
<1>. DEFINE E == [key : Keys, created : 1..MaxEvents, is : Snapshot]
<1>1. e.n \in DOMAIN events /\ events[e.n].key = e.key
  BY DEF Sent
<1>2. events \in Seq(E)
  BY DEF BillingInv, TypeOK
<1>. HIDE DEF E
<1>3. events[e.n] \in E
  BY <1>1, <1>2
<1>4. Backed(e.key, events[e.n].is)
  BY <1>1 DEF BillingInv, EventsBacked
<1>. QED
  BY <1>1, <1>3, <1>4 DEF E

LEMMA RemoteTyped ==
    ASSUME BillingInv, NEW k \in Keys
    PROVE  /\ remote[k].is \in Snapshot /\ remote[k].next \in Plans \cup {NoPlan}
           /\ Backed(k, remote[k].is)
  BY DEF BillingInv, TypeOK, RemoteBacked

LEMMA RowTyped ==
    ASSUME BillingInv, NEW k \in Keys
    PROVE  row[k] \in Subscription /\ Backed(k, row[k].is)
  BY DEF BillingInv, TypeOK, RowsBacked

\* What is known of a request that is at a step.
LEMMA RequestKnown ==
    ASSUME BillingInv, NEW r \in Requests, req[r].at \in Steps
    PROVE  /\ req[r] \in Request /\ req[r].key \in Keys /\ req[r].on \in Keys
           /\ req[r].copy \in Subscription /\ req[r].event \in Event /\ req[r].plan \in Plans
           /\ CopyBacked(r) /\ Delivers(r)
<1>1. req[r] \in Request
  BY RequestTyped DEF BillingInv
<1>. QED
  BY <1>1 DEF Request, BillingInv, RequestsBacked

LEMMA SaveTyped ==
    ASSUME BillingInv, NEW r \in Requests, req[r].at \in Steps, NEW new, Save(r, new)
    PROVE  overtaken' \subseteq Keys
<1>1. req[r].key \in Keys /\ overtaken \subseteq Keys
  BY RequestKnown DEF BillingInv, TypeOK
<1>. QED
  BY <1>1 DEF Save

\* A row that is not there yet will have its place among those of all keys.
LEMMA NewBorn ==
    ASSUME ConstantsAssumption, NEW k \in Keys, ~Copied(k)
    PROVE  1 + Cardinality({j \in Keys : Copied(j)}) \in 0..Cardinality(Keys)
<1>. DEFINE others == {j \in Keys : Copied(j)}
<1>1. IsFiniteSet(Keys)
  BY DEF ConstantsAssumption
<1>2. others \in SUBSET Keys /\ k \notin others
  OBVIOUS
<1>3. IsFiniteSet(others) /\ Cardinality(others) <= Cardinality(Keys)
      /\ (Cardinality(others) = Cardinality(Keys) => others = Keys)
  BY <1>1, <1>2, FS_Subset
<1>4. Cardinality(others) \in Nat /\ Cardinality(Keys) \in Nat
  BY <1>1, <1>3, FS_CardinalityType
<1>5. Cardinality(others) # Cardinality(Keys)
  BY <1>2, <1>3
<1>. HIDE DEF others
<1>6. 1 + Cardinality(others) \in 0..Cardinality(Keys)
  BY <1>3, <1>4, <1>5
<1>. QED
  BY <1>6 DEF others
-------------------------------------------------------------------------------
(* One lemma per group of handlers. *)

LEMMA InitKeeps ==
    ASSUME ConstantsAssumption, BillingInv, NEW r \in Requests
    PROVE  /\ InitUpsert(r) => BillingInv'
           /\ InitFind(r) => BillingInv'
           /\ InitRecord(r) => BillingInv'
           /\ \A k \in Keys : InitStart(r, k) => BillingInv'
<1>. DEFINE Outcomes == {"none", "initiated", "requires_confirmation", "success", "declined"}
<1>0. TypeOK /\ inbox \in [Event -> {"none", "processing", "processed", "failed"}]
      /\ attempt \in [Keys -> [outcome : Outcomes, intent : {"unknown", "known"}]]
  BY DEF BillingInv, TypeOK
<1>1. ASSUME InitUpsert(r) PROVE BillingInv'
  <2>1. req[r].at \in Steps /\ "find" \in Steps
    BY <1>1 DEF InitUpsert, At, Steps
  <2>2. PICK k \in Keys : k = req[r].key
    BY <2>1, RequestKnown
  <2>3. attempt' = [attempt EXCEPT ![k].outcome = "initiated"]
    BY <1>1, <2>2 DEF InitUpsert
  <2>4. attempt' \in [Keys -> [outcome : Outcomes, intent : {"unknown", "known"}]]
    BY <2>3, <1>0
  <2>5. /\ req' \in [Requests -> Request \cup {NoRequest}] /\ req'[r].at = "find"
        /\ \A q \in Requests \ {r} : req'[q] = req[q]
    BY <1>1, <1>0, <2>1, GotoTyped DEF InitUpsert
  <2>6. CopyBacked(r)' /\ Delivers(r)'
    BY <2>5 DEF CopyBacked, Delivers
  <2>. QED
    BY <1>0, <1>1, <2>4, <2>5, <2>6, QuietStep DEF InitUpsert
<1>2. ASSUME InitFind(r) PROVE BillingInv'
  <2>1. req[r].at \in Steps /\ "change" \in Steps /\ "create" \in Steps
    BY <1>2 DEF InitFind, At, Steps
  <2>2. PICK copy \in Subscription : copy = req[r].copy
    BY <2>1, RequestKnown
  <2>. DEFINE Waiting == /\ req' \in [Requests -> Request \cup {NoRequest}]
                         /\ req'[r].at \in {"change", "create"}
                         /\ \A q \in Requests \ {r} : req'[q] = req[q]
  <2>3. Waiting
    <3>1. ASSUME NEW k \in Keys, Move(r, "change", k, req[r].copy) PROVE Waiting
      BY <3>1, <1>0, <2>1, <2>2, MoveTyped
    <3>2. ASSUME Goto(r, "create") PROVE Waiting
      BY <3>2, <1>0, <2>1, GotoTyped
    <3>. QED
      BY <1>2, <3>1, <3>2 DEF InitFind
  <2>4. CopyBacked(r)' /\ Delivers(r)'
    BY <2>3 DEF CopyBacked, Delivers
  <2>. QED
    BY <1>0, <1>2, <2>3, <2>4, QuietStep DEF InitFind, tables
<1>3. ASSUME InitRecord(r) PROVE BillingInv'
  <2>1. req[r].at \in Steps
    BY <1>3 DEF InitRecord, At, Steps
  <2>2. PICK k \in Keys : k = req[r].key
    BY <2>1, RequestKnown
  <2>3. attempt' = [attempt EXCEPT ![k] =
                       [outcome |-> "requires_confirmation", intent |-> "known"]]
    BY <1>3, <2>2 DEF InitRecord
  <2>4. attempt' \in [Keys -> [outcome : Outcomes, intent : {"unknown", "known"}]]
    BY <2>3, <1>0
  <2>5. /\ req' \in [Requests -> Request \cup {NoRequest}] /\ req'[r].at = "idle"
        /\ \A q \in Requests \ {r} : req'[q] = req[q]
    BY <1>3, <1>0, FinishTyped DEF InitRecord
  <2>6. CopyBacked(r)' /\ Delivers(r)'
    BY <2>5 DEF CopyBacked, Delivers
  <2>. QED
    BY <1>0, <1>3, <2>4, <2>5, <2>6, QuietStep DEF InitRecord
<1>4. ASSUME NEW k \in Keys, InitStart(r, k) PROVE BillingInv'
  <2>1. NoRow \in Subscription /\ NoEvent(k) \in Event /\ PlanOf[k] \in Plans
        /\ "upsert" \in Steps
    BY NoRowTyped, NoEventTyped DEF ConstantsAssumption, Steps
  <2>2. PICK copy \in Subscription, e \in Event, p \in Plans :
            copy = NoRow /\ e = NoEvent(k) /\ p = PlanOf[k]
    BY <2>1
  <2>3. /\ req' \in [Requests -> Request \cup {NoRequest}] /\ req'[r].at = "upsert"
        /\ \A q \in Requests \ {r} : req'[q] = req[q]
    BY <1>4, <1>0, <2>1, <2>2, StartTyped DEF InitStart
  <2>4. CopyBacked(r)' /\ Delivers(r)'
    BY <2>3 DEF CopyBacked, Delivers
  <2>. QED
    BY <1>0, <1>4, <2>3, <2>4, QuietStep DEF InitStart, tables
<1>. QED
  BY <1>1, <1>2, <1>3, <1>4


LEMMA ScheduleKeeps ==
    ASSUME ConstantsAssumption, BillingInv, NEW r \in Requests
    PROVE  /\ ChangeNextSave(r) => BillingInv'
           /\ ExtendGraceSave(r) => BillingInv'
           /\ \A k \in Keys, p \in Plans : ChangeNextStart(r, k, p) => BillingInv'
           /\ \A k \in Keys : ExtendGraceStart(r, k) => BillingInv'
<1>0. /\ TypeOK /\ RowsBacked
      /\ row \in [Keys -> Subscription]
      /\ inbox \in [Event -> {"none", "processing", "processed", "failed"}]
      /\ attempt \in [Keys -> [outcome : {"none", "initiated", "requires_confirmation",
                                        "success", "declined"}, intent : {"unknown", "known"}]]
      /\ faults \in 0..MaxFaults /\ restarts \in 0..MaxRestarts
  BY DEF BillingInv, TypeOK
<1>1. ASSUME req[r].at \in {"savePending", "saveGrace"}, NEW c \in Subscription,
             c.is = req[r].copy.is, Save(r, c), Finish(r),
             UNCHANGED <<stripe, inbox, attempt>>
      PROVE  BillingInv'
  <2>1. PICK k \in Keys : k = req[r].key
    BY <1>1, RequestKnown DEF Steps
  <2>2. row' \in [Keys -> Subscription] /\ row' = [row EXCEPT ![k] = c]
        /\ UNCHANGED <<faults, restarts>>
    BY <1>0, <1>1, <2>1 DEF Save
  <2>7. overtaken' \subseteq Keys
    BY <1>1, SaveTyped DEF Steps
  <2>3. Backed(k, c.is)
    BY <1>1, <2>1, RequestKnown DEF CopyBacked, Steps
  <2>4. RowsBacked'
    BY <1>0, <1>1, <2>2, <2>3 DEF RowsBacked, Backed, stripe
  <2>5. /\ req' \in [Requests -> Request \cup {NoRequest}] /\ req'[r].at = "idle"
        /\ \A q \in Requests \ {r} : req'[q] = req[q]
    BY <1>0, <1>1, FinishTyped
  <2>6. CopyBacked(r)' /\ Delivers(r)'
    BY <2>5 DEF CopyBacked, Delivers
  <2>. QED
    BY <1>0, <1>1, <2>2, <2>4, <2>5, <2>6, <2>7, ServerStep
<1>2. ASSUME NEW k \in Keys, NEW p \in Plans, NEW step \in {"schedule", "saveGrace"},
             Start(r, step, k, row[k], NoEvent(k), p),
             UNCHANGED <<stripe, tables, mishaps>>
      PROVE  BillingInv'
  <2>1. PICK copy \in Subscription, e \in Event : copy = row[k] /\ e = NoEvent(k)
    BY RowTyped, NoEventTyped
  <2>2. /\ req' \in [Requests -> Request \cup {NoRequest}] /\ req'[r].at = step
        /\ req'[r].key = k /\ req'[r].copy = copy
        /\ \A q \in Requests \ {r} : req'[q] = req[q]
    BY <1>0, <1>2, <2>1, StartTyped DEF Steps
  <2>3. CopyBacked(r)' /\ Delivers(r)'
    BY <1>2, <2>1, <2>2, RowTyped DEF CopyBacked, Delivers, Backed, stripe
  <2>. QED
    BY <1>0, <1>2, <2>2, <2>3, QuietStep DEF tables
<1>3. ASSUME ChangeNextSave(r) PROVE BillingInv'
  <2>1. req[r].at = "savePending" /\ req[r].copy \in Subscription /\ req[r].plan \in Plans
    BY <1>3, RequestKnown DEF ChangeNextSave, At, Steps
  <2>2. PICK c \in Subscription : c = [req[r].copy EXCEPT !.pending = req[r].plan]
    BY <2>1, SubscriptionChanged
  <2>3. c.is = req[r].copy.is
    BY <2>1, <2>2, SubscriptionChanged DEF SameEvent
  <2>. QED
    BY <1>1, <1>3, <2>1, <2>2, <2>3 DEF ChangeNextSave
<1>4. ASSUME ExtendGraceSave(r) PROVE BillingInv'
  <2>1. req[r].at = "saveGrace" /\ req[r].copy \in Subscription
    BY <1>4, RequestKnown DEF ExtendGraceSave, At, Steps
  <2>2. PICK c \in Subscription : c = [req[r].copy EXCEPT !.grace = "given"]
    BY <2>1, SubscriptionChanged
  <2>3. c.is = req[r].copy.is
    BY <2>1, <2>2, SubscriptionChanged DEF SameEvent
  <2>. QED
    BY <1>1, <1>4, <2>1, <2>2, <2>3 DEF ExtendGraceSave
<1>5. ASSUME NEW k \in Keys, NEW p \in Plans, ChangeNextStart(r, k, p) PROVE BillingInv'
  BY <1>2, <1>5 DEF ChangeNextStart
<1>6. ASSUME NEW k \in Keys, ExtendGraceStart(r, k) PROVE BillingInv'
  <2>1. PICK p \in Plans : p = PlanOf[k]
    BY DEF ConstantsAssumption
  <2>. QED
    BY <1>2, <1>6, <2>1 DEF ExtendGraceStart
<1>. QED
  BY <1>3, <1>4, <1>5, <1>6

LEMMA DeliveryKeeps ==
    ASSUME ConstantsAssumption, BillingInv, NEW r \in Requests
    PROVE  /\ HookFind(r) => BillingInv'
           /\ HookInsert(r) => BillingInv'
           /\ HookDone(r) => BillingInv'
           /\ HookFail(r) => BillingInv'
           /\ \A e \in Event : HookStart(r, e) => BillingInv'
<1>. DEFINE Marks == {"none", "processing", "processed", "failed"}
            During == {"insertEvent", "apply", "done", "fail"}
<1>0. /\ TypeOK /\ inbox \in [Event -> Marks]
      /\ attempt \in [Keys -> [outcome : {"none", "initiated", "requires_confirmation",
                                        "success", "declined"}, intent : {"unknown", "known"}]]
  BY DEF BillingInv, TypeOK
<1>1. ASSUME req[r].at \in During \cup {"findEvent"}, NEW step \in During, Goto(r, step),
             UNCHANGED <<stripe, row, attempt, mishaps>>, inbox' \in [Event -> Marks]
      PROVE  BillingInv'
  <2>1. /\ req' \in [Requests -> Request \cup {NoRequest}]
        /\ req'[r].at = step /\ req'[r].key = req[r].key /\ req'[r].event = req[r].event
        /\ \A q \in Requests \ {r} : req'[q] = req[q]
    BY <1>0, <1>1, GotoTyped DEF Steps
  <2>2. Delivers(r)
    BY DEF BillingInv, RequestsBacked
  <2>3. CopyBacked(r)' /\ Delivers(r)'
    BY <1>1, <2>1, <2>2 DEF CopyBacked, Delivers, Sent, stripe
  <2>. QED
    BY <1>0, <1>1, <2>1, <2>3, QuietStep
<1>2. ASSUME Finish(r), UNCHANGED <<stripe, row, attempt, mishaps>>,
             inbox' \in [Event -> Marks]
      PROVE  BillingInv'
  <2>1. /\ req' \in [Requests -> Request \cup {NoRequest}] /\ req'[r].at = "idle"
        /\ \A q \in Requests \ {r} : req'[q] = req[q]
    BY <1>0, <1>2, FinishTyped
  <2>2. CopyBacked(r)' /\ Delivers(r)'
    BY <2>1 DEF CopyBacked, Delivers
  <2>. QED
    BY <1>0, <1>2, <2>1, <2>2, QuietStep
<1>3. ASSUME HookFind(r) PROVE BillingInv'
  <2>1. PICK step \in {"insertEvent", "apply"} : Goto(r, step)
    BY <1>3 DEF HookFind
  <2>. QED
    BY <1>0, <1>1, <1>3, <2>1 DEF HookFind, At, tables
<1>4. ASSUME HookInsert(r) PROVE BillingInv'
  <2>1. PICK e \in Event : e = req[r].event
    BY <1>4, RequestKnown DEF HookInsert, At, Steps
  <2>2. inbox' = inbox \/ inbox' = [inbox EXCEPT ![e] = "processing"]
    BY <1>4, <2>1 DEF HookInsert
  <2>3. inbox' \in [Event -> Marks]
    BY <1>0, <2>2
  <2>. QED
    BY <1>1, <1>2, <1>4, <2>3 DEF HookInsert, At
<1>5. ASSUME HookDone(r) PROVE BillingInv'
  <2>1. PICK e \in Event : e = req[r].event
    BY <1>5, RequestKnown DEF HookDone, At, Steps
  <2>2. inbox' \in [Event -> Marks]
    BY <1>0, <1>5, <2>1 DEF HookDone
  <2>. QED
    BY <1>2, <1>5, <2>2 DEF HookDone
<1>6. ASSUME HookFail(r) PROVE BillingInv'
  <2>1. PICK e \in Event : e = req[r].event
    BY <1>6, RequestKnown DEF HookFail, At, Steps
  <2>2. inbox' \in [Event -> Marks]
    BY <1>0, <1>6, <2>1 DEF HookFail
  <2>. QED
    BY <1>2, <1>6, <2>2 DEF HookFail
<1>7. ASSUME NEW e \in Event, HookStart(r, e) PROVE BillingInv'
  <2>1. e.key \in Keys
    BY DEF Event
  <2>2. PICK k \in Keys, copy \in Subscription, p \in Plans :
            k = e.key /\ copy = NoRow /\ p = PlanOf[e.key]
    BY <2>1, NoRowTyped DEF ConstantsAssumption
  <2>3. /\ req' \in [Requests -> Request \cup {NoRequest}] /\ req'[r].at = "findEvent"
        /\ req'[r].key = k /\ req'[r].event = e
        /\ \A q \in Requests \ {r} : req'[q] = req[q]
    BY <1>0, <1>7, <2>2, StartTyped DEF HookStart, Steps
  <2>4. CopyBacked(r)' /\ Delivers(r)'
    BY <1>7, <2>2, <2>3 DEF CopyBacked, Delivers, HookStart, Sent, stripe
  <2>. QED
    BY <1>0, <1>7, <2>3, <2>4, QuietStep DEF HookStart, tables
<1>. QED
  BY <1>3, <1>4, <1>5, <1>6, <1>7


LEMMA SyncedTyped ==
    ASSUME NEW old \in Subscription, NEW n \in 0..MaxEvents,
           events[n] \in [key : Keys, created : 1..MaxEvents, is : Snapshot]
    PROVE  /\ Synced(old, n) \in Subscription
           /\ Synced(old, n).is = events[n].is /\ Synced(old, n).from = n
           /\ Synced(old, n).last = events[n].created
<1>. PICK sent \in [key : Keys, created : 1..MaxEvents, is : Snapshot] : sent = events[n]
  OBVIOUS
<1>1. /\ sent.is \in Snapshot /\ sent.created \in 0..MaxEvents
      /\ sent.is.price \in Plans \cup {NoPlan}
  BY DEF Snapshot
<1>2. old.pending \in Plans \cup {NoPlan} /\ old.born \in 0..Cardinality(Keys)
  BY DEF Subscription
<1>. QED
  BY <1>1, <1>2 DEF Synced, Subscription

LEMMA SyncKeeps ==
    ASSUME ConstantsAssumption, BillingInv, NEW r \in Requests
    PROVE  /\ HookSync(r) => BillingInv'
           /\ HookStore(r) => BillingInv'
           /\ HookAttempt(r) => BillingInv'
           /\ HookFault(r) => BillingInv'
<1>. DEFINE Outcomes == {"none", "initiated", "requires_confirmation", "success", "declined"}
            Goes == /\ req' \in [Requests -> Request \cup {NoRequest}]
                    /\ \A q \in Requests \ {r} : req'[q] = req[q]
                    /\ CopyBacked(r)' /\ Delivers(r)'
<1>0. /\ TypeOK /\ row \in [Keys -> Subscription] /\ RowsBacked
      /\ inbox \in [Event -> {"none", "processing", "processed", "failed"}]
      /\ attempt \in [Keys -> [outcome : Outcomes, intent : {"unknown", "known"}]]
      /\ faults \in 0..MaxFaults /\ restarts \in 0..MaxRestarts
  BY DEF BillingInv, TypeOK
<1>1. ASSUME req[r].at \in {"apply", "store"}, NEW step \in {"done", "fail"}, Goto(r, step),
             UNCHANGED stripe
      PROVE  Goes
  <2>1. /\ req' \in [Requests -> Request \cup {NoRequest}]
        /\ req'[r].at = step /\ req'[r].key = req[r].key /\ req'[r].event = req[r].event
        /\ \A q \in Requests \ {r} : req'[q] = req[q]
    BY <1>0, <1>1, GotoTyped DEF Steps
  <2>2. Delivers(r)
    BY DEF BillingInv, RequestsBacked
  <2>. QED
    BY <1>1, <2>1, <2>2 DEF CopyBacked, Delivers, Sent, stripe
<1>2. ASSUME HookSync(r) PROVE BillingInv'
  <2>1. req[r].at = "apply" /\ UNCHANGED <<stripe, tables, mishaps>>
    BY <1>2 DEF HookSync, At
  <2>2. PICK e \in Event, k \in Keys, on \in Keys :
            e = req[r].event /\ k = req[r].key /\ on = req[r].on
    BY <2>1, RequestKnown DEF Steps
  <2>3. Sent(e) /\ e.key = k /\ e.kind = "subscription"
    BY <1>2, <2>1, <2>2, RequestKnown DEF Delivers, HookSync, Steps
  <2>4. CASE Goto(r, "done")
    BY <1>0, <1>1, <2>1, <2>4, QuietStep DEF tables
  <2>5. CASE Move(r, "store", req[r].on, Synced(row[e.key], e.n))
    <3>1. /\ events[e.n] \in [key : Keys, created : 1..MaxEvents, is : Snapshot]
          /\ e.n \in 0..MaxEvents
      BY <2>3, EventTyped DEF Event
    <3>2. PICK old \in Subscription : old = row[e.key]
      BY <2>3, RowTyped
    <3>3. PICK copy \in Subscription : copy = Synced(old, e.n) /\ copy.is = events[e.n].is
      BY <3>1, SyncedTyped
    <3>5. Move(r, "store", on, copy)
      BY <2>2, <2>5, <3>2, <3>3
    <3>6. /\ req' \in [Requests -> Request \cup {NoRequest}]
          /\ req'[r].at = "store" /\ req'[r].key = k /\ req'[r].event = e
          /\ req'[r].copy = copy
          /\ \A q \in Requests \ {r} : req'[q] = req[q]
      BY <1>0, <2>1, <2>2, <3>5, MoveTyped DEF Steps
    <3>7. Backed(k, copy.is)
      BY <2>3, <3>3, EventTyped
    <3>8. CopyBacked(r)' /\ Delivers(r)'
      BY <2>1, <2>3, <3>6, <3>7 DEF CopyBacked, Delivers, Backed, Sent, stripe
    <3>. QED
      BY <1>0, <2>1, <3>6, <3>8, QuietStep DEF tables
  <2>. QED
    BY <1>2, <2>2, <2>4, <2>5 DEF HookSync
<1>3. ASSUME HookStore(r) PROVE BillingInv'
  <2>1. req[r].at = "store" /\ UNCHANGED <<stripe, inbox, attempt>>
    BY <1>3 DEF HookStore, At
  <2>2. PICK k \in Keys, c \in Subscription : k = req[r].key /\ c = req[r].copy
    BY <2>1, RequestKnown DEF Steps
  <2>3. Backed(k, c.is)
    BY <2>1, <2>2, RequestKnown DEF CopyBacked, Steps
  <2>4. PICK born \in 0..Cardinality(Keys) :
            born = IF Copied(k) THEN row[k].born
                                ELSE 1 + Cardinality({j \in Keys : Copied(j)})
    BY NewBorn, RowTyped DEF Subscription
  <2>5. PICK new \in Subscription : new = [c EXCEPT !.born = born]
    BY SubscriptionChanged
  <2>6. new.is = c.is
    BY <2>5, SubscriptionChanged DEF SameEvent
  <2>a. \/ Goto(r, "fail") /\ UNCHANGED <<row, mishaps>>
        \/ Goto(r, "done") /\ Save(r, new)
    BY <1>3, <2>2, <2>4, <2>5 DEF HookStore
  <2>7. /\ \/ Goto(r, "fail") /\ UNCHANGED row
           \/ Goto(r, "done") /\ row' = [row EXCEPT ![k] = new]
        /\ UNCHANGED <<faults, restarts>>
    BY <2>2, <2>a DEF Save, mishaps
  <2>b. overtaken' \subseteq Keys
    BY <2>1, <2>a, SaveTyped DEF Steps, mishaps, BillingInv, TypeOK
  <2>8. row' \in [Keys -> Subscription]
    BY <1>0, <2>7
  <2>9. RowsBacked'
    BY <1>0, <2>1, <2>3, <2>6, <2>7 DEF RowsBacked, Backed, stripe
  <2>. QED
    BY <1>0, <1>1, <2>1, <2>7, <2>8, <2>9, <2>b, ServerStep
<1>4. ASSUME HookAttempt(r) PROVE BillingInv'
  <2>1. req[r].at = "apply" /\ Goto(r, "done") /\ UNCHANGED <<stripe, row, inbox, mishaps>>
    BY <1>4 DEF HookAttempt, At
  <2>2. PICK e \in Event : e = req[r].event
    BY <2>1, RequestKnown DEF Steps
  <2>3. PICK outcome \in {"success", "declined"} :
            attempt' = attempt \/ attempt' = [attempt EXCEPT ![e.key].outcome = outcome]
    BY <1>4, <2>2 DEF HookAttempt
  <2>4. attempt' \in [Keys -> [outcome : Outcomes, intent : {"unknown", "known"}]]
    BY <1>0, <2>3 DEF Event
  <2>. QED
    BY <1>0, <1>1, <2>1, <2>4, QuietStep
<1>5. ASSUME HookFault(r) PROVE BillingInv'
  <2>1. /\ req[r].at \in {"apply", "store"} /\ Goto(r, "fail")
        /\ UNCHANGED <<stripe, tables, restarts, overtaken>>
        /\ faults < MaxFaults /\ faults' = faults + 1
    BY <1>5 DEF HookFault
  <2>2. faults' \in 0..MaxFaults
    BY <1>0, <2>1 DEF ConstantsAssumption
  <2>3. RowsBacked' /\ overtaken' \subseteq Keys
    BY <1>0, <2>1 DEF RowsBacked, Backed, stripe, tables, TypeOK
  <2>. QED
    BY <1>0, <1>1, <2>1, <2>2, <2>3, ServerStep DEF tables
<1>. QED
  BY <1>2, <1>3, <1>4, <1>5

-------------------------------------------------------------------------------
(* The handlers that change a subscription at Stripe, and Stripe on its own. *)

\* Nobody else is disturbed, and nothing is paid: the status stays what it was, or is one
\* that needs no payment.
LEMMA UnpaidKeeps ==
    ASSUME ConstantsAssumption, BillingInv, NEW k \in Keys, NEW s \in Snapshot,
           NEW next \in Plans \cup {NoPlan}, Becomes(k, s, next),
           s.status \notin Changeable \/ remote[k].is.status \in Changeable,
           UNCHANGED <<receipts, tables, mishaps>>, seen' \subseteq Keys,
           req' \in [Requests -> Request \cup {NoRequest}],
           \A q \in Requests : req'[q] = req[q] \/ req'[q].at \in {"idle", "record"}
    PROVE  BillingInv'
<1>1. s.status \in Changeable => Receipt(k, "paid") \in receipts'
  BY RemoteTyped DEF Backed
<1>2. receipts \subseteq receipts' /\ receipts' \subseteq Event
  BY DEF BillingInv, TypeOK
<1>. QED
  BY <1>1, <1>2, StripeStep

LEMMA CreateKeeps ==
    ASSUME ConstantsAssumption, BillingInv, NEW r \in Requests
    PROVE  /\ InitCreate(r) => BillingInv'
           /\ InitChange(r) => BillingInv'
           /\ ChangeNextSchedule(r) => BillingInv'
<1>0. /\ TypeOK /\ seen \subseteq Keys
      /\ inbox \in [Event -> {"none", "processing", "processed", "failed"}]
      /\ attempt \in [Keys -> [outcome : {"none", "initiated", "requires_confirmation",
                                        "success", "declined"}, intent : {"unknown", "known"}]]
      /\ remote \in [Keys -> [is : Snapshot, next : Plans \cup {NoPlan}]]
  BY DEF BillingInv, TypeOK
<1>1. ASSUME NEW step \in {"record", "savePending"}, req[r].at \in Steps,
             Goto(r, step) \/ Finish(r)
      PROVE  /\ req' \in [Requests -> Request \cup {NoRequest}]
             /\ \A q \in Requests \ {r} : req'[q] = req[q]
             /\ req'[r].at = "idle" \/ (req'[r].at = step /\ req'[r].key = req[r].key
                                        /\ req'[r].copy = req[r].copy)
  BY <1>0, <1>1, GotoTyped, FinishTyped DEF Steps
<1>2. ASSUME InitCreate(r) PROVE BillingInv'
  <2>1. req[r].at \in Steps /\ UNCHANGED <<tables, mishaps>>
    BY <1>2 DEF InitCreate, At, Steps
  <2>2. PICK k \in Keys : k = req[r].key
    BY <2>1, RequestKnown
  <2>3. Goto(r, "record") \/ Finish(r)
    BY <1>2, <2>2 DEF InitCreate
  <2>4. /\ req' \in [Requests -> Request \cup {NoRequest}]
        /\ \A q \in Requests \ {r} : req'[q] = req[q]
        /\ req'[r].at \in {"idle", "record"}
    BY <1>1, <2>1, <2>3
  <2>5. CASE UNCHANGED stripe
    <3>1. CopyBacked(r)' /\ Delivers(r)'
      BY <2>4 DEF CopyBacked, Delivers
    <3>. QED
      BY <1>0, <2>1, <2>4, <2>5, <3>1, QuietStep DEF tables
  <2>6. CASE /\ Becomes(k, Snap("incomplete", PlanOf[k]), NoPlan)
             /\ seen' = seen \cup {k} /\ UNCHANGED receipts
    <3>1. PICK s \in Snapshot : s = Snap("incomplete", PlanOf[k]) /\ s.status = "incomplete"
      BY SnapTyped DEF ConstantsAssumption, Statuses
    <3>2. PICK next \in Plans \cup {NoPlan} : next = NoPlan
      OBVIOUS
    <3>3. seen' \subseteq Keys /\ "incomplete" \notin Changeable
      BY <1>0, <2>6 DEF Changeable
    <3>. QED
      BY <2>1, <2>4, <2>6, <3>1, <3>2, <3>3, UnpaidKeeps
  <2>. QED
    BY <1>2, <2>2, <2>5, <2>6 DEF InitCreate
<1>3. ASSUME InitChange(r) PROVE BillingInv'
  <2>1. req[r].at \in Steps /\ UNCHANGED <<tables, mishaps>> /\ Finish(r)
    BY <1>3 DEF InitChange, At, Steps
  <2>2. PICK k \in Keys, key \in Keys : k = req[r].on /\ key = req[r].key
    BY <2>1, RequestKnown
  <2>3. /\ req' \in [Requests -> Request \cup {NoRequest}]
        /\ \A q \in Requests \ {r} : req'[q] = req[q]
        /\ req'[r].at = "idle"
    BY <1>0, <2>1, FinishTyped
  <2>4. CASE UNCHANGED stripe
    <3>1. CopyBacked(r)' /\ Delivers(r)'
      BY <2>3 DEF CopyBacked, Delivers
    <3>. QED
      BY <1>0, <2>1, <2>3, <2>4, <3>1, QuietStep DEF tables
  <2>5. CASE /\ remote[k].is.status \in Changeable
             /\ Becomes(k, [remote[k].is EXCEPT !.price = PlanOf[key]], remote[k].next)
             /\ seen' = seen \cup {key} /\ UNCHANGED receipts
    <3>1. PICK now \in Snapshot, next \in Plans \cup {NoPlan}, p \in Plans :
              now = remote[k].is /\ next = remote[k].next /\ p = PlanOf[key]
      BY RemoteTyped DEF ConstantsAssumption
    <3>2. PICK s \in Snapshot : s = [now EXCEPT !.price = p]
      BY SnapshotChanged
    <3>3. seen' \subseteq Keys
      BY <1>0, <2>5
    <3>. QED
      BY <2>1, <2>3, <2>5, <3>1, <3>2, <3>3, UnpaidKeeps
  <2>. QED
    BY <1>3, <2>2, <2>4, <2>5 DEF InitChange
<1>4. ASSUME ChangeNextSchedule(r) PROVE BillingInv'
  <2>1. /\ req[r].at = "schedule"
        /\ UNCHANGED <<events, receipts, seen, tables, mishaps>>
        /\ Goto(r, "savePending") \/ Finish(r)
    BY <1>4 DEF ChangeNextSchedule, At
  <2>2. PICK k \in Keys, p \in Plans : k = req[r].key /\ p = req[r].plan
    BY <2>1, RequestKnown DEF Steps
  <2>3. remote' = remote \/ remote' = [remote EXCEPT ![k].next = p]
    BY <1>4, <2>2 DEF ChangeNextSchedule
  <2>4. /\ remote' \in [Keys -> [is : Snapshot, next : Plans \cup {NoPlan}]]
        /\ \A j \in Keys : remote'[j].is = remote[j].is
    <3>. DEFINE Subs == [is : Snapshot, next : Plans \cup {NoPlan}]
    <3>1. remote[k] \in Subs
      BY <1>0
    <3>2. PICK new \in Subs : new = [remote[k] EXCEPT !.next = p] /\ new.is = remote[k].is
      <4>1. PICK old \in Subs : old = remote[k]
        BY <3>1
      <4>2. [old EXCEPT !.next = p] \in Subs /\ [old EXCEPT !.next = p].is = old.is
        OBVIOUS
      <4>. HIDE DEF Subs
      <4>. QED
        BY <4>1, <4>2
    <3>. HIDE DEF Subs
    <3>3. remote' = remote \/ remote' = [remote EXCEPT ![k] = new]
      BY <2>3, <3>2
    <3>4. remote \in [Keys -> Subs]
      BY <1>0 DEF Subs
    <3>5. remote' \in [Keys -> Subs]
      BY <3>2, <3>3, <3>4
    <3>6. \A j \in Keys : remote'[j] = remote[j] \/ (j = k /\ remote'[j] = new)
      BY <3>3, <3>4
    <3>7. \A j \in Keys : remote'[j].is = remote[j].is
      BY <3>2, <3>6
    <3>. QED
      BY <3>5, <3>7 DEF Subs
  <2>5. /\ req' \in [Requests -> Request \cup {NoRequest}]
        /\ \A q \in Requests \ {r} : req'[q] = req[q]
        /\ req'[r].at = "idle" \/ (req'[r].at = "savePending" /\ req'[r].key = req[r].key
                                   /\ req'[r].copy = req[r].copy)
    BY <1>1, <2>1 DEF Steps
  <2>6. TypeOK'
    BY <2>1, <2>4, <2>5 DEF BillingInv, TypeOK, tables, mishaps
  <2>7. SecondsPast' /\ RemoteBacked' /\ EventsBacked' /\ RowsBacked'
    BY <2>1, <2>4
       DEF BillingInv, SecondsPast, RemoteBacked, EventsBacked, RowsBacked, Backed, tables
  <2>8. CopyBacked(r)' /\ Delivers(r)'
    BY <2>1, <2>5, RequestKnown DEF CopyBacked, Delivers, Backed, Steps
  <2>9. ASSUME NEW q \in Requests \ {r} PROVE CopyBacked(q)' /\ Delivers(q)'
    <3>1. req'[q] = req[q] /\ CopyBacked(q) /\ Delivers(q)
      BY <2>5 DEF BillingInv, RequestsBacked
    <3>. QED
      BY <2>1, <3>1 DEF CopyBacked, Delivers, Backed, Sent
  <2>. QED
    BY <2>6, <2>7, <2>8, <2>9 DEF BillingInv, RequestsBacked
<1>. QED
  BY <1>2, <1>3, <1>4

LEMMA ChangeKeeps ==
    ASSUME ConstantsAssumption, BillingInv, NEW k \in Keys
    PROVE  /\ \A p \in Plans : ChangeNow(k, p) => BillingInv'
           /\ \A atPeriodEnd \in BOOLEAN : Cancel(k, atPeriodEnd) => BillingInv'
           /\ Reactivate(k) => BillingInv'
           /\ StripeRenews(k) => BillingInv'
<1>. PICK now \in Snapshot, next \in Plans \cup {NoPlan} :
         now = remote[k].is /\ next = remote[k].next
  BY RemoteTyped
<1>0. /\ TypeOK /\ seen \subseteq Keys /\ req \in [Requests -> Request \cup {NoRequest}]
      /\ NoPlan \in Plans \cup {NoPlan} /\ now.status \in Statuses
  BY DEF BillingInv, TypeOK, Snapshot
<1>1. ASSUME NEW s \in Snapshot, NEW then \in Plans \cup {NoPlan}, Becomes(k, s, then),
             s.status \notin Changeable \/ now.status \in Changeable,
             UNCHANGED <<receipts, seen, tables, req, mishaps>>
      PROVE  BillingInv'
  BY <1>0, <1>1, UnpaidKeeps
<1>2. PICK canceled \in Snapshot : canceled = [now EXCEPT !.status = "canceled"]
                                   /\ canceled.status = "canceled"
  <2>1. "canceled" \in Statuses
    BY DEF Statuses
  <2>2. [now EXCEPT !.status = "canceled"] \in Snapshot
        /\ [now EXCEPT !.status = "canceled"].status = "canceled"
    BY <2>1, SnapshotChanged
  <2>. QED
    BY <2>2
<1>3. PICK active \in Snapshot : active = [now EXCEPT !.status = "active"]
  BY SnapshotChanged DEF Statuses
<1>4. PICK late \in Snapshot : late = [now EXCEPT !.status = "past_due"]
  BY SnapshotChanged DEF Statuses
<1>5. PICK ending \in Snapshot : ending = [now EXCEPT !.ends = "atPeriodEnd"]
                                 /\ ending.status = now.status
  BY SnapshotChanged
<1>6. PICK kept \in Snapshot : kept = [now EXCEPT !.ends = "never"]
                                /\ kept.status = now.status
  BY SnapshotChanged
<1>7. ASSUME NEW p \in Plans, ChangeNow(k, p) PROVE BillingInv'
  <2>1. PICK priced \in Snapshot :
            priced = [status |-> now.status, price |-> p, plan |-> p, ends |-> now.ends]
    BY DEF Snapshot
  <2>. QED
    BY <1>1, <1>7, <2>1 DEF ChangeNow
<1>8. ASSUME NEW atPeriodEnd \in BOOLEAN, Cancel(k, atPeriodEnd) PROVE BillingInv'
  <2>1. now.status # "canceled" /\ "canceled" \notin Changeable
    BY <1>8 DEF Cancel, Changeable
  <2>. QED
    BY <1>1, <1>2, <1>8, <1>5, <2>1 DEF Cancel, With
<1>9. ASSUME Reactivate(k) PROVE BillingInv'
  BY <1>1, <1>9, <1>6 DEF Reactivate
<1>10. ASSUME StripeRenews(k) PROVE BillingInv'
  <2>1. PICK priced \in Snapshot : priced = [now EXCEPT !.price = next]
                                   /\ priced.status = now.status
    <3>1. \A p \in Plans \cup {NoPlan} : /\ [now EXCEPT !.price = p] \in Snapshot
                                         /\ [now EXCEPT !.price = p].status = now.status
      BY SnapshotChanged
    <3>2. [now EXCEPT !.price = next] \in Snapshot
          /\ [now EXCEPT !.price = next].status = now.status
      BY <3>1
    <3>. QED
      BY <3>2
  <2>2. UNCHANGED <<receipts, seen, tables, req, mishaps>>
    BY <1>10 DEF StripeRenews
  <2>3. /\ "canceled" \notin Changeable /\ "active" \in Changeable
        /\ "past_due" \in Changeable
    BY DEF Changeable
  <2>4. CASE now.status = "active" /\ Becomes(k, late, next)
    BY <1>1, <2>2, <2>3, <2>4
  <2>5. CASE now.status = "past_due" /\ Becomes(k, active, next)
    BY <1>1, <2>2, <2>3, <2>5
  <2>6. CASE Becomes(k, canceled, NoPlan)
    BY <1>0, <1>1, <1>2, <2>2, <2>3, <2>6
  <2>7. CASE now.status = "active" /\ Becomes(k, priced, NoPlan)
    BY <1>0, <1>1, <2>1, <2>2, <2>3, <2>7
  <2>. QED
    BY <1>2, <1>10, <1>3, <1>4, <2>1, <2>4, <2>5, <2>6, <2>7 DEF StripeRenews, With
<1>. QED
  BY <1>7, <1>8, <1>9, <1>10

LEMMA PaymentKeeps ==
    ASSUME ConstantsAssumption, BillingInv, NEW k \in Keys
    PROVE  /\ StripeCharges(k) => BillingInv'
           /\ StripeDeclines(k) => BillingInv'
<1>0. /\ TypeOK /\ seen \subseteq Keys /\ receipts \subseteq Event
      /\ req \in [Requests -> Request \cup {NoRequest}]
      /\ Receipt(k, "paid") \in Event /\ Receipt(k, "declined") \in Event
  BY DEF BillingInv, TypeOK, Receipt, Event
<1>1. ASSUME StripeCharges(k) PROVE BillingInv'
  <2>1. PICK s \in Snapshot, next \in Plans \cup {NoPlan} :
            s = With(k, "active") /\ next = remote[k].next
    BY RemoteTyped, SnapshotChanged DEF With, Statuses
  <2>2. /\ receipts \subseteq receipts' /\ receipts' \subseteq Event
        /\ Receipt(k, "paid") \in receipts'
    BY <1>0, <1>1 DEF StripeCharges
  <2>. QED
    BY <1>0, <1>1, <2>1, <2>2, StripeStep DEF StripeCharges
<1>2. ASSUME StripeDeclines(k) PROVE BillingInv'
  <2>1. /\ receipts \subseteq receipts' /\ receipts' \subseteq Event
        /\ UNCHANGED <<remote, events, seen, tables, req, mishaps>>
    BY <1>0, <1>2 DEF StripeDeclines
  <2>2. TypeOK'
    BY <2>1 DEF BillingInv, TypeOK, tables, mishaps
  <2>3. SecondsPast' /\ RemoteBacked' /\ EventsBacked' /\ RowsBacked'
    BY <2>1 DEF BillingInv, SecondsPast, RemoteBacked, EventsBacked, RowsBacked, Backed, tables
  <2>4. RequestsBacked'
    BY <2>1 DEF BillingInv, RequestsBacked, CopyBacked, Delivers, Backed, Sent
  <2>. QED
    BY <2>2, <2>3, <2>4 DEF BillingInv
<1>. QED
  BY <1>1, <1>2

LEMMA RestartKeeps ==
    ASSUME ConstantsAssumption, BillingInv, Restart
    PROVE  BillingInv'
<1>1. restarts' \in 0..MaxRestarts
  BY DEF BillingInv, TypeOK, Restart, ConstantsAssumption
<1>2. /\ req' \in [Requests -> Request \cup {NoRequest}]
      /\ \A r \in Requests : req'[r].at = "idle"
  BY NoRequestIdle DEF Restart
<1>3. TypeOK'
  BY <1>1, <1>2 DEF BillingInv, TypeOK, Restart, stripe, tables
<1>4. SecondsPast' /\ RemoteBacked' /\ EventsBacked' /\ RowsBacked'
  BY DEF BillingInv, SecondsPast, RemoteBacked, EventsBacked, RowsBacked, Backed, Restart,
         stripe, tables
<1>5. RequestsBacked'
  BY <1>2 DEF RequestsBacked, CopyBacked, Delivers
<1>. QED
  BY <1>3, <1>4, <1>5 DEF BillingInv
-------------------------------------------------------------------------------
(* The theorems. *)

LEMMA BillingInvInit ==
    ASSUME ConstantsAssumption, Init
    PROVE  BillingInv
<1>1. PICK old \in SUBSET Keys : InitWith(old) /\ (old = {} \/ \E k \in Keys : old = {k})
  BY DEF Init, ConstantsAssumption
<1>. DEFINE now(k) == IF k \in old THEN Snap("active", PlanOf[k]) ELSE Unsubscribed
<1>2. ASSUME NEW k \in Keys
      PROVE  now(k) \in Snapshot /\ (now(k).status \in Changeable => k \in old)
  <2>1. CASE k \in old
    BY <2>1, SnapTyped DEF ConstantsAssumption, Statuses
  <2>2. CASE k \notin old
    BY <2>2, SnapTyped DEF Unsubscribed, Statuses, Changeable
  <2>. QED
    BY <2>1, <2>2
<1>3. ASSUME NEW k \in old PROVE 1 \in 0..Cardinality(Keys)
  <2>1. IsFiniteSet({k}) /\ Cardinality({k}) = 1 /\ {k} \subseteq Keys
    BY FS_Singleton
  <2>2. Cardinality({k}) <= Cardinality(Keys) /\ Cardinality(Keys) \in Nat
    BY <2>1, FS_Subset, FS_CardinalityType DEF ConstantsAssumption
  <2>. QED
    BY <2>1, <2>2
<1>4. 0 \in 0..Cardinality(Keys) /\ 0 \in 0..MaxEvents /\ 0 <= MaxEvents
  BY FS_CardinalityType DEF ConstantsAssumption
<1>5. remote = [k \in Keys |-> [is |-> now(k), next |-> NoPlan]]
      /\ row = [k \in Keys |-> [is |-> now(k), pending |-> NoPlan, grace |-> "none",
                                last |-> 0, from |-> 0,
                                born |-> IF k \in old THEN 1 ELSE 0]]
  BY <1>1 DEF InitWith
<1>. HIDE DEF now
<1>6. /\ remote \in [Keys -> [is : Snapshot, next : Plans \cup {NoPlan}]]
      /\ row \in [Keys -> Subscription]
  BY <1>2, <1>3, <1>4, <1>5 DEF Subscription
<1>7. /\ events = <<>> /\ seen = old /\ receipts = {Receipt(k, "paid") : k \in old}
      /\ inbox \in [Event -> {"none", "processing", "processed", "failed"}]
      /\ attempt \in [Keys -> [outcome : {"none", "initiated", "requires_confirmation",
                                        "success", "declined"}, intent : {"unknown", "known"}]]
      /\ req = [r \in Requests |-> NoRequest] /\ faults = 0 /\ restarts = 0
      /\ overtaken = {}
  BY <1>1 DEF InitWith
<1>8. receipts \subseteq Event
  BY <1>7 DEF Receipt, Event
<1>9. TypeOK
  BY <1>4, <1>6, <1>7, <1>8 DEF TypeOK, ConstantsAssumption
<1>10. RemoteBacked /\ RowsBacked
  BY <1>2, <1>5, <1>7 DEF RemoteBacked, RowsBacked, Backed
<1>11. SecondsPast /\ EventsBacked
  BY <1>7 DEF SecondsPast, EventsBacked
<1>12. RequestsBacked
  BY <1>7, NoRequestIdle DEF RequestsBacked, CopyBacked, Delivers
<1>. QED
  BY <1>9, <1>10, <1>11, <1>12 DEF BillingInv

LEMMA BillingInvStep ==
    ASSUME ConstantsAssumption, BillingInv, [Next]_vars
    PROVE  BillingInv'
<1>1. ASSUME NEW r \in Requests, Begin(r) PROVE BillingInv'
  BY <1>1, InitKeeps, ScheduleKeeps DEF Begin
<1>2. ASSUME NEW r \in Requests, Continue(r) PROVE BillingInv'
  BY <1>2, InitKeeps, CreateKeeps, ScheduleKeeps, DeliveryKeeps, SyncKeeps DEF Continue
<1>3. ASSUME NEW r \in Requests, HookFault(r) PROVE BillingInv'
  BY <1>3, SyncKeeps
<1>4. ASSUME NEW e \in Event, Deliver(e) PROVE BillingInv'
  BY <1>4, DeliveryKeeps DEF Deliver
<1>5. ASSUME NEW k \in Keys,
             \/ \E p \in Plans : ChangeNow(k, p)
             \/ \E atPeriodEnd \in BOOLEAN : Cancel(k, atPeriodEnd)
             \/ Reactivate(k) \/ StripeCharges(k) \/ StripeDeclines(k) \/ StripeRenews(k)
      PROVE  BillingInv'
  BY <1>5, ChangeKeeps, PaymentKeeps
<1>6. ASSUME Restart PROVE BillingInv'
  BY <1>6, RestartKeeps
<1>7. ASSUME UNCHANGED vars PROVE BillingInv'
  <2>1. TypeOK'
    BY <1>7 DEF BillingInv, TypeOK, vars, stripe, tables, mishaps
  <2>2. SecondsPast' /\ RemoteBacked' /\ EventsBacked' /\ RowsBacked'
    BY <1>7 DEF BillingInv, SecondsPast, RemoteBacked, EventsBacked, RowsBacked, Backed,
                vars, stripe, tables
  <2>3. RequestsBacked'
    BY <1>7 DEF BillingInv, RequestsBacked, CopyBacked, Delivers, Backed, Sent, vars, stripe
  <2>. QED
    BY <2>1, <2>2, <2>3 DEF BillingInv
<1>. QED
  BY <1>1, <1>2, <1>3, <1>4, <1>5, <1>6, <1>7 DEF Next

LEMMA BillingInvAlways == Spec => []BillingInv
<1>1. Init => BillingInv
  BY BillingInvInit, ConstantsAssumption
<1>2. BillingInv /\ [Next]_vars => BillingInv'
  BY BillingInvStep, ConstantsAssumption
<1>. QED
  BY <1>1, <1>2, PTL DEF Spec

\* Every table and every request keeps its type: a webhook stores only states that Stripe
\* has sent, and the row it inserts finds its place among those of the other subscriptions
\* (syncSubscription, processEvent).
THEOREM TypeCorrect == Spec => []TypeOK
<1>1. BillingInv => TypeOK
  BY DEF BillingInv
<1>. QED
  BY <1>1, BillingInvAlways, PTL

\* A business has the rights of a paid plan only through a subscription whose first
\* invoice was paid, with any number of requests and deliveries that overlap in any way,
\* save rows read long ago, fail and are repeated (isPremiumState, syncSubscription,
\* changePlan, adminExtendGrace).
THEOREM PremiumWasAlwaysPaid == Spec => []PremiumWasPaid
<1>1. BillingInv => PremiumWasPaid
  BY DEF BillingInv, RowsBacked, Backed, PremiumWasPaid, Premium, Changeable
<1>. QED
  BY <1>1, BillingInvAlways, PTL
-------------------------------------------------------------------------------
(* Which event a row tells, through saves that cross and events of one second. *)

\* Stripe's clock does not go back.
InOrder ==
    \A i, j \in DOMAIN events : i <= j => events[i].created <= events[j].created

About(k) == {i \in DOMAIN events : events[i].key = k}

\* Stripe's subscription is as its last event says.
LastIsNow(k) ==
    \A i \in About(k) : (\A j \in About(k) : j <= i) => remote[k].is = events[i].is

\* The row of subscription k, or a copy of it, says what the event it names said.
Tells(k, s) ==
    s.from # 0 => /\ s.from \in About(k)
                  /\ s.is = events[s.from].is /\ s.last = events[s.from].created
NamesNone(s) == s.from = 0 => s.last = 0

\* What names no event says what was so at first, and that is still so at Stripe while it
\* has sent none.
Holds(r) == req[r].at \in {"schedule", "savePending", "saveGrace"}
AtFirst(k) ==
    \E s \in Snapshot :
        /\ About(k) = {} => remote[k].is = s
        /\ row[k].from = 0 => row[k].is = s
        /\ \A r \in Requests :
               Holds(r) /\ req[r].key = k /\ req[r].copy.from = 0 => req[r].copy.is = s

\* A row that was overtaken has still to hear of a newer event.
StillBehind(k) == k \in overtaken => ~LatestOf(k, row[k].from)

\* The row is as new as every event of it that was processed, or is about to be marked so.
Landed(e) ==
    inbox[e] = "processed" \/ \E r \in Requests : At(r, "done") /\ req[r].event = e
Reached(e) == Sent(e) /\ (e.key \in overtaken \/ e.n <= row[e.key].from)
LandedIsReached == \A e \in Event : e.kind = "subscription" /\ Landed(e) => Reached(e)

\* What a request has read: a whole row, or one that the event to store is not older than.
HasRead(r) ==
    /\ Holds(r) => /\ Tells(req[r].key, req[r].copy) /\ NamesNone(req[r].copy)
                   /\ req[r].base = req[r].copy.from
    /\ At(r, "store") =>
           /\ req[r].event.kind = "subscription" /\ req[r].copy.from = req[r].event.n
           /\ Tells(req[r].key, req[r].copy)
           /\ req[r].base # 0 => /\ req[r].base \in About(req[r].key)
                                 /\ events[req[r].base].created <= req[r].copy.last

MirrorInv ==
    /\ InOrder /\ LandedIsReached
    /\ \A k \in Keys : /\ LastIsNow(k) /\ Tells(k, row[k]) /\ NamesNone(row[k])
                       /\ AtFirst(k) /\ StillBehind(k)
    /\ \A r \in Requests : HasRead(r)

LEMMA EventsKnown ==
    ASSUME BillingInv
    PROVE  /\ DOMAIN events = 1..Len(events) /\ Len(events) \in Nat
           /\ \A i \in DOMAIN events :
                  events[i] \in [key : Keys, created : 1..MaxEvents, is : Snapshot]
<1>. DEFINE E == [key : Keys, created : 1..MaxEvents, is : Snapshot]
<1>1. events \in Seq(E)
  BY DEF BillingInv, TypeOK
<1>. HIDE DEF E
<1>2. /\ DOMAIN events = 1..Len(events) /\ Len(events) \in Nat
      /\ \A i \in DOMAIN events : events[i] \in E
  BY <1>1
<1>. QED
  BY <1>2 DEF E

LEMMA NumbersTyped ==
    ASSUME NEW s \in Subscription
    PROVE  s.from \in Nat /\ s.last \in Nat /\ s.is \in Snapshot
  BY DEF Subscription

\* What a save does to the event that a row tells: it takes the row back only where that
\* is noticed, and makes it tell the newest event only where that is noticed.
LEMMA SaveMoves ==
    ASSUME ConstantsAssumption, BillingInv, MirrorInv, NEW r \in Requests,
           Holds(r) \/ At(r, "store"),
           NEW k \in Keys, k = req[r].key,
           NEW new \in Subscription, SameEvent(req[r].copy, new), Save(r, new)
    PROVE  /\ row'[k] = new /\ \A j \in Keys \ {k} : row'[j] = row[j]
           /\ Tells(k, new) /\ NamesNone(new)
           /\ new.from < row[k].from =>
                  ~LatestOf(k, new.from) /\ overtaken' = overtaken \cup {k}
           /\ new.from = row[k].from => new.is = row[k].is /\ overtaken' = overtaken
           /\ new.from > row[k].from =>
                  overtaken' = IF LatestOf(k, new.from) THEN overtaken \ {k} ELSE overtaken
<1>. DEFINE old == row[k]
            c == req[r].copy
            base == req[r].base
<1>1. req[r].at \in Steps /\ req[r] \in Request /\ c \in Subscription /\ base \in Nat
  <2>1. req[r].at \in Steps
    BY DEF Holds, At, Steps
  <2>. QED
    BY <2>1, RequestKnown, ConstantsAssumption DEF Request, ConstantsAssumption
<1>2. row \in [Keys -> Subscription] /\ old \in Subscription
  BY DEF BillingInv, TypeOK
<1>3. HasRead(r) /\ Tells(k, old) /\ NamesNone(old) /\ AtFirst(k) /\ StillBehind(k)
  BY DEF MirrorInv
<1>4. /\ old.from \in Nat /\ old.last \in Nat /\ new.from \in Nat /\ new.last \in Nat
      /\ new.from = c.from /\ new.last = c.last /\ new.is = c.is
  BY <1>2, NumbersTyped DEF SameEvent
<1>5. row'[k] = new /\ \A j \in Keys \ {k} : row'[j] = row[j]
  BY <1>2 DEF Save
<1>6. At(r, "store") => new.from # 0
  <2>. SUFFICES ASSUME At(r, "store") PROVE new.from # 0
    OBVIOUS
  <2>1. Sent(req[r].event) /\ req[r].event \in Event
    BY <1>1, RequestKnown DEF At, Delivers
  <2>2. req[r].event.kind = "subscription" /\ new.from = req[r].event.n
    BY <1>3, <1>4 DEF HasRead
  <2>. QED
    BY <2>1, <2>2, EventsKnown DEF Sent
<1>7. Tells(k, new) /\ NamesNone(new)
  BY <1>3, <1>4, <1>6 DEF HasRead, Tells, NamesNone
<1>8. old.from # 0 => /\ old.from \in DOMAIN events /\ events[old.from].key = k
                      /\ old.last = events[old.from].created /\ old.is = events[old.from].is
  BY <1>3 DEF Tells, About
<1>9. overtaken' = IF LatestOf(k, new.from) THEN overtaken \ {k}
                   ELSE IF TakesBack(r, new) THEN overtaken \cup {k} ELSE overtaken
  BY DEF Save
<1>10. ASSUME new.from < old.from
       PROVE  ~LatestOf(k, new.from) /\ overtaken' = overtaken \cup {k}
  <2>0. old.from # 0
    BY <1>4, <1>10
  <2>1. ~LatestOf(k, new.from)
    BY <1>4, <1>8, <1>10, <2>0 DEF LatestOf
  <2>2. CASE base # old.from
    BY <1>9, <1>10, <2>1, <2>2 DEF TakesBack
  <2>3. CASE base = old.from
    <3>1. At(r, "store")
      BY <1>3, <1>4, <1>10, <2>3 DEF HasRead
    <3>2. events[old.from].created <= new.last
      BY <1>3, <1>4, <2>0, <2>3, <3>1 DEF HasRead
    <3>3. /\ new.from \in DOMAIN events /\ new.last = events[new.from].created
      BY <1>6, <1>7, <3>1 DEF Tells, About
    <3>4. events[new.from].created <= events[old.from].created
      BY <1>4, <1>8, <1>10, <2>0, <3>3 DEF MirrorInv, InOrder
    <3>5. new.last = old.last
      BY <1>4, <1>8, <2>0, <3>2, <3>3, <3>4
    <3>. QED
      BY <1>9, <1>10, <2>1, <3>5 DEF TakesBack
  <2>. QED
    BY <2>2, <2>3
<1>11. ASSUME new.from = old.from PROVE new.is = old.is /\ overtaken' = overtaken
  <2>1. new.is = old.is
    <3>1. CASE new.from # 0
      BY <1>7, <1>8, <1>11, <3>1 DEF Tells
    <3>2. CASE new.from = 0
      <4>1. Holds(r)
        BY <1>6, <3>2
      <4>. QED
        BY <1>3, <1>4, <1>11, <3>2, <4>1 DEF AtFirst
    <3>. QED
      BY <3>1, <3>2
  <2>2. ~TakesBack(r, new)
    BY <1>4, <1>11 DEF TakesBack
  <2>. QED
    BY <1>3, <1>9, <1>11, <2>1, <2>2 DEF StillBehind
<1>12. ASSUME new.from > old.from
       PROVE  overtaken' = IF LatestOf(k, new.from) THEN overtaken \ {k} ELSE overtaken
  BY <1>4, <1>9, <1>12 DEF TakesBack
<1>. QED
  BY <1>5, <1>7, <1>10, <1>11, <1>12

\* A save: the row tells another event, everything else about the mirror stays.
LEMMA SaveMirrors ==
    ASSUME ConstantsAssumption, BillingInv, MirrorInv, BillingInv', NEW r \in Requests,
           Holds(r) \/ At(r, "store"),
           NEW new \in Subscription, SameEvent(req[r].copy, new), Save(r, new),
           UNCHANGED <<stripe, inbox>>,
           \A q \in Requests \ {r} : req'[q] = req[q],
           \/ req'[r].at = "idle"
           \/ req'[r].at = "done" /\ At(r, "store") /\ req'[r].event = req[r].event
    PROVE  MirrorInv'
<1>. DEFINE k == req[r].key
<1>1. req[r].at \in Steps /\ k \in Keys /\ req[r].event \in Event /\ Delivers(r)
  <2>1. req[r].at \in Steps
    BY DEF Holds, At, Steps
  <2>. QED
    BY <2>1, RequestKnown
<1>2. /\ row'[k] = new /\ \A j \in Keys \ {k} : row'[j] = row[j]
      /\ Tells(k, new) /\ NamesNone(new)
      /\ new.from < row[k].from =>
             ~LatestOf(k, new.from) /\ overtaken' = overtaken \cup {k}
      /\ new.from = row[k].from => new.is = row[k].is /\ overtaken' = overtaken
      /\ new.from > row[k].from =>
             overtaken' = IF LatestOf(k, new.from) THEN overtaken \ {k} ELSE overtaken
  BY <1>1, SaveMoves
<1>3. \A j \in Keys \ {k} : j \in overtaken' <=> j \in overtaken
  BY DEF Save
<1>4. /\ UNCHANGED <<events, remote>> /\ row[k].from \in Nat /\ new.from \in Nat
      /\ \A j \in Keys : About(j)' = About(j)
      /\ \A j, n : LatestOf(j, n)' <=> LatestOf(j, n)
  BY <1>1, RowTyped, NumbersTyped DEF stripe, About, LatestOf
<1>5. InOrder' /\ \A j \in Keys : LastIsNow(j)'
  BY <1>4 DEF MirrorInv, InOrder, LastIsNow
<1>6. ASSUME NEW j \in Keys PROVE Tells(j, row[j])' /\ NamesNone(row[j])'
  BY <1>2, <1>4, <1>6 DEF MirrorInv, Tells, NamesNone
<1>7. ASSUME NEW j \in Keys PROVE AtFirst(j)'
  <2>1. PICK s \in Snapshot :
            /\ About(j) = {} => remote[j].is = s
            /\ row[j].from = 0 => row[j].is = s
            /\ \A q \in Requests :
                   Holds(q) /\ req[q].key = j /\ req[q].copy.from = 0 => req[q].copy.is = s
    BY <1>7 DEF MirrorInv, AtFirst
  <2>2. ASSUME NEW q \in Requests, Holds(q)', req'[q].key = j, req'[q].copy.from = 0
        PROVE  req'[q].copy.is = s
    <3>1. q # r
      BY <2>2 DEF Holds
    <3>2. req'[q] = req[q]
      BY <3>1
    <3>. QED
      BY <2>1, <2>2, <3>2 DEF Holds
  <2>3. ASSUME j = k, new.from = 0 PROVE new.is = s
    <3>1. ~At(r, "store")
      <4>. SUFFICES ASSUME At(r, "store") PROVE FALSE
        OBVIOUS
      <4>1. req[r].event.n = 0 /\ req[r].event.kind = "subscription"
        BY <2>3 DEF MirrorInv, HasRead, SameEvent
      <4>2. Sent(req[r].event)
        BY <1>1 DEF Delivers, At
      <4>. QED
        BY <4>1, <4>2, EventsKnown DEF Sent
    <3>. QED
      BY <2>1, <2>3, <3>1 DEF SameEvent
  <2>4. row'[j].from = 0 => row'[j].is = s
    BY <1>2, <2>1, <2>3
  <2>5. About(j)' = {} => remote'[j].is = s
    BY <1>4, <2>1
  <2>. QED
    BY <2>2, <2>4, <2>5 DEF AtFirst
<1>8. ASSUME NEW j \in Keys PROVE StillBehind(j)'
  <2>1. CASE j # k
    BY <1>2, <1>3, <1>4, <2>1 DEF MirrorInv, StillBehind
  <2>2. CASE j = k
    <3>. SUFFICES ASSUME k \in overtaken' PROVE ~LatestOf(k, new.from)
      BY <1>2, <1>4, <2>2 DEF StillBehind
    <3>1. CASE new.from < row[k].from
      BY <1>2, <3>1
    <3>2. CASE new.from = row[k].from
      BY <1>1, <1>2, <3>2 DEF MirrorInv, StillBehind
    <3>3. CASE new.from > row[k].from
      BY <1>2, <3>3
    <3>. QED
      BY <1>4, <3>1, <3>2, <3>3
  <2>. QED
    BY <2>1, <2>2
<1>9. LandedIsReached'
  <2>. SUFFICES ASSUME NEW e \in Event, e.kind = "subscription", Landed(e)'
                PROVE  Reached(e)'
    BY DEF LandedIsReached
  <2>0. e.key \in Keys /\ e.n \in Nat
    BY DEF Event
  <2>1. CASE Landed(e)
    <3>1. Sent(e) /\ (e.key \in overtaken \/ e.n <= row[e.key].from)
      BY <2>1 DEF MirrorInv, LandedIsReached, Reached
    <3>2. Sent(e)'
      BY <3>1 DEF Sent, stripe
    <3>3. CASE e.key # k
      BY <1>2, <1>3, <2>0, <3>1, <3>2, <3>3 DEF Reached
    <3>4. CASE e.key = k
      <4>1. LatestOf(k, new.from) => e.n <= new.from
        BY <3>1, <3>4 DEF Sent, LatestOf
      <4>2. CASE new.from < row[k].from
        BY <1>2, <3>2, <3>4, <4>2 DEF Reached
      <4>3. CASE new.from = row[k].from
        BY <1>2, <3>1, <3>2, <3>4, <4>3 DEF Reached
      <4>4. CASE new.from > row[k].from
        <5>1. CASE LatestOf(k, new.from)
          BY <1>2, <3>2, <3>4, <4>1, <5>1 DEF Reached
        <5>2. CASE ~LatestOf(k, new.from)
          BY <1>2, <1>4, <2>0, <3>1, <3>2, <3>4, <4>4, <5>2 DEF Reached
        <5>. QED
          BY <5>1, <5>2
      <4>. QED
        BY <1>4, <4>2, <4>3, <4>4
    <3>. QED
      BY <3>3, <3>4
  <2>2. CASE ~Landed(e)
    <3>1. PICK q \in Requests : At(q, "done")' /\ req'[q].event = e
      BY <2>2 DEF Landed
    <3>2. q = r
      <4>. SUFFICES ASSUME q # r PROVE FALSE
        OBVIOUS
      <4>1. req'[q] = req[q]
        OBVIOUS
      <4>. QED
        BY <2>2, <3>1, <4>1 DEF Landed, At
    <3>3. At(r, "store") /\ req[r].event = e
      BY <3>1, <3>2 DEF At
    <3>4. Sent(e) /\ e.key = k /\ new.from = e.n
      BY <1>1, <3>3 DEF Delivers, At, MirrorInv, HasRead, SameEvent
    <3>. QED
      BY <1>2, <2>0, <3>4 DEF Reached, Sent, stripe
  <2>. QED
    BY <2>1, <2>2
<1>10. ASSUME NEW q \in Requests PROVE HasRead(q)'
  <2>1. CASE q = r
    BY <2>1 DEF HasRead, Holds, At
  <2>2. CASE q # r
    <3>1. req'[q] = req[q] /\ HasRead(q)
      BY <2>2 DEF MirrorInv
    <3>2. CASE Holds(q)
      <4>1. req[q].key \in Keys
        BY <3>2, RequestKnown DEF Holds, Steps
      <4>. QED
        BY <1>4, <3>1, <3>2, <4>1 DEF HasRead, Holds, At, Tells, NamesNone
    <3>3. CASE At(q, "store")
      <4>1. req[q].key \in Keys
        BY <3>3, RequestKnown DEF At, Steps
      <4>. QED
        BY <1>4, <3>1, <3>3, <4>1 DEF HasRead, Holds, At, Tells
    <3>4. CASE ~Holds(q) /\ ~At(q, "store")
      BY <3>1, <3>4 DEF HasRead, Holds, At
    <3>. QED
      BY <3>2, <3>3, <3>4
  <2>. QED
    BY <2>1, <2>2
<1>. QED
  BY <1>5, <1>6, <1>7, <1>8, <1>9, <1>10 DEF MirrorInv

\* A step of the server that saves no row: what it may add is a request that has read one,
\* and an event that the row has reached.
LEMMA QuietMirrors ==
    ASSUME ConstantsAssumption, BillingInv, MirrorInv, NEW r \in Requests,
           UNCHANGED <<events, row, overtaken>>,
           \A k \in Keys : remote'[k].is = remote[k].is,
           \A e \in Event : Sent(e) => Sent(e)',
           \A q \in Requests \ {r} : req'[q] = req[q],
           Holds(r)' => /\ req'[r].key \in Keys /\ req'[r].base = req'[r].copy.from
                        /\ \/ req'[r].copy = row[req'[r].key]
                           \/ Holds(r) /\ req'[r].key = req[r].key /\ req'[r].copy = req[r].copy,
           Holds(r)' \/ HasRead(r)',
           \A e \in Event : e.kind = "subscription" /\ Landed(e)' => Landed(e) \/ Reached(e)
    PROVE  MirrorInv'
<1>1. /\ \A j \in Keys : About(j)' = About(j)
      /\ \A j, n : LatestOf(j, n)' <=> LatestOf(j, n)
  BY DEF About, LatestOf
<1>2. /\ InOrder'
      /\ \A j \in Keys : /\ LastIsNow(j)' /\ Tells(j, row[j])' /\ NamesNone(row[j])'
                         /\ StillBehind(j)'
  BY <1>1 DEF MirrorInv, InOrder, LastIsNow, Tells, NamesNone, StillBehind
<1>3. ASSUME NEW j \in Keys PROVE AtFirst(j)'
  <2>1. PICK s \in Snapshot :
            /\ About(j) = {} => remote[j].is = s
            /\ row[j].from = 0 => row[j].is = s
            /\ \A q \in Requests :
                   Holds(q) /\ req[q].key = j /\ req[q].copy.from = 0 => req[q].copy.is = s
    BY <1>3 DEF MirrorInv, AtFirst
  <2>2. ASSUME NEW q \in Requests, Holds(q)', req'[q].key = j, req'[q].copy.from = 0
        PROVE  req'[q].copy.is = s
    <3>1. CASE q = r
      BY <2>1, <2>2, <3>1
    <3>2. CASE q # r
      <4>1. req'[q] = req[q]
        BY <3>2
      <4>. QED
        BY <2>1, <2>2, <4>1 DEF Holds
    <3>. QED
      BY <3>1, <3>2
  <2>. QED
    BY <1>1, <2>1, <2>2 DEF AtFirst
<1>4. LandedIsReached'
  <2>. SUFFICES ASSUME NEW e \in Event, e.kind = "subscription", Landed(e)'
                PROVE  Reached(e)'
    BY DEF LandedIsReached
  <2>1. Reached(e)
    BY DEF MirrorInv, LandedIsReached
  <2>. QED
    BY <2>1 DEF Reached
<1>5. ASSUME NEW q \in Requests PROVE HasRead(q)'
  <2>1. CASE q # r
    <3>1. req'[q] = req[q] /\ HasRead(q)
      BY <2>1 DEF MirrorInv
    <3>2. CASE Holds(q)
      <4>1. req[q].key \in Keys
        BY <3>2, RequestKnown DEF Holds, Steps
      <4>. QED
        BY <1>1, <3>1, <3>2, <4>1 DEF HasRead, Holds, At, Tells, NamesNone
    <3>3. CASE At(q, "store")
      <4>1. req[q].key \in Keys
        BY <3>3, RequestKnown DEF At, Steps
      <4>. QED
        BY <1>1, <3>1, <3>3, <4>1 DEF HasRead, Holds, At, Tells
    <3>4. CASE ~Holds(q) /\ ~At(q, "store")
      BY <3>1, <3>4 DEF HasRead, Holds, At
    <3>. QED
      BY <3>2, <3>3, <3>4
  <2>2. CASE q = r /\ Holds(r)'
    <3>1. ~(At(r, "store")')
      BY <2>2 DEF Holds, At
    <3>2. CASE req'[r].copy = row[req'[r].key]
      BY <1>2, <2>2, <3>1, <3>2 DEF HasRead, Tells, NamesNone
    <3>3. CASE Holds(r) /\ req'[r].key = req[r].key /\ req'[r].copy = req[r].copy
      <4>1. HasRead(r)
        BY DEF MirrorInv
      <4>. QED
        BY <1>1, <2>2, <3>1, <3>3, <4>1 DEF HasRead, Tells, NamesNone
    <3>. QED
      BY <2>2, <3>2, <3>3
  <2>3. CASE q = r /\ ~(Holds(r)')
    BY <2>3
  <2>. QED
    BY <2>1, <2>2, <2>3
<1>. QED
  BY <1>2, <1>3, <1>4, <1>5 DEF MirrorInv

\* A step of Stripe: requests in progress keep what they have read, or stop saving.
LEMMA BecomesMirrors ==
    ASSUME ConstantsAssumption, BillingInv, MirrorInv, NEW k \in Keys,
           NEW s \in Snapshot, NEW next \in Plans \cup {NoPlan}, Becomes(k, s, next),
           receipts \subseteq receipts', UNCHANGED <<row, inbox, overtaken>>,
           \A q \in Requests : req'[q] = req[q] \/ req'[q].at \in {"idle", "record"}
    PROVE  MirrorInv'
<1>. DEFINE n == Len(events)
            E == [key : Keys, created : 1..MaxEvents, is : Snapshot]
<1>1. /\ DOMAIN events = 1..n /\ DOMAIN events' = 1..(n + 1) /\ n \in Nat
      /\ \A i \in 1..n : events'[i] = events[i]
      /\ events'[n + 1].key = k /\ events'[n + 1].is = s
      /\ remote'[k].is = s /\ \A j \in Keys \ {k} : remote'[j] = remote[j]
  <2>1. /\ events \in Seq(E) /\ events' \in Seq(E) /\ Len(events') = Len(events) + 1
        /\ \A i \in DOMAIN events : events'[i] = events[i]
        /\ events'[Len(events) + 1].key = k /\ events'[Len(events) + 1].is = s
        /\ remote'[k].is = s /\ \A j \in Keys \ {k} : remote'[j] = remote[j]
    <3>1. events \in Seq(E)
      BY DEF BillingInv, TypeOK
    <3>. QED
      BY <3>1, BecomesTyped
  <2>. HIDE DEF E
  <2>2. DOMAIN events = 1..n /\ DOMAIN events' = 1..(n + 1) /\ n \in Nat
    BY <2>1
  <2>. QED
    BY <2>1, <2>2
<1>2. events'[n + 1].created >= Now /\ events'[n + 1].created \in Nat /\ Now \in Nat
  <2>1. Now \in Nat
    BY <1>1, EventsKnown DEF Now
  <2>2. PICK second \in {Now, Now + 1} :
            events' = Append(events, [key |-> k, created |-> second, is |-> s])
    BY DEF Becomes
  <2>3. PICK new : new = [key |-> k, created |-> second, is |-> s]
    OBVIOUS
  <2>4. events' = Append(events, new) /\ events \in Seq(E)
    BY <2>2, <2>3 DEF BillingInv, TypeOK
  <2>. HIDE DEF E
  <2>5. events'[n + 1] = new
    BY <2>4, <1>1
  <2>. QED
    BY <2>1, <2>2, <2>3, <2>5
<1>3. InOrder'
  <2>. SUFFICES ASSUME NEW i \in DOMAIN events', NEW j \in DOMAIN events', i <= j
                PROVE  events'[i].created <= events'[j].created
    BY DEF InOrder
  <2>1. \A m \in 1..n : events[m].created \in Nat /\ events[m].created <= Now
    <3>1. \A m \in 1..n : events[m].created \in Nat
      BY <1>1, EventsKnown
    <3>2. \A m \in 1..n : events[m].created <= events[n].created
      BY <1>1 DEF MirrorInv, InOrder
    <3>. QED
      BY <1>1, <3>1, <3>2 DEF Now
  <2>2. CASE j = n + 1
    BY <1>1, <1>2, <2>1, <2>2
  <2>3. CASE j # n + 1
    BY <1>1, <2>3 DEF MirrorInv, InOrder
  <2>. QED
    BY <2>2, <2>3
<1>4. /\ About(k)' = About(k) \cup {n + 1}
      /\ \A j \in Keys \ {k} : About(j)' = About(j)
      /\ \A j \in Keys : About(j) \subseteq About(j)' /\ About(j) \subseteq 1..n
  BY <1>1 DEF About
<1>5. ASSUME NEW j \in Keys PROVE LastIsNow(j)'
  <2>1. CASE j = k
    <3>1. ASSUME NEW i \in About(k)', \A m \in About(k)' : m <= i PROVE i = n + 1
      BY <1>1, <1>4, <3>1
    <3>. QED
      BY <1>1, <2>1, <3>1 DEF LastIsNow
  <2>2. CASE j # k
    BY <1>1, <1>4, <2>2 DEF MirrorInv, LastIsNow
  <2>. QED
    BY <2>1, <2>2
<1>6. ASSUME NEW j \in Keys, NEW x, Tells(j, x) PROVE Tells(j, x)'
  BY <1>1, <1>4, <1>6 DEF Tells
<1>7. ASSUME NEW j \in Keys PROVE Tells(j, row[j])' /\ NamesNone(row[j])'
  <2>1. PICK x : x = row[j]
    OBVIOUS
  <2>2. Tells(j, x)' /\ row'[j] = x /\ NamesNone(x)
    BY <1>6, <2>1 DEF MirrorInv
  <2>. QED
    BY <2>2 DEF Tells, NamesNone
<1>8. ASSUME NEW j \in Keys PROVE AtFirst(j)'
  <2>1. PICK first \in Snapshot :
            /\ About(j) = {} => remote[j].is = first
            /\ row[j].from = 0 => row[j].is = first
            /\ \A q \in Requests :
                   Holds(q) /\ req[q].key = j /\ req[q].copy.from = 0
                       => req[q].copy.is = first
    BY <1>8 DEF MirrorInv, AtFirst
  <2>2. About(j)' = {} => remote'[j].is = first
    BY <1>1, <1>4, <2>1
  <2>3. ASSUME NEW q \in Requests, Holds(q)', req'[q].key = j, req'[q].copy.from = 0
        PROVE  req'[q].copy.is = first
    BY <2>1, <2>3 DEF Holds
  <2>. QED
    BY <2>1, <2>2, <2>3 DEF AtFirst
<1>9. ASSUME NEW j \in Keys PROVE StillBehind(j)'
  BY <1>1 DEF MirrorInv, StillBehind, LatestOf
<1>10. LandedIsReached'
  <2>. SUFFICES ASSUME NEW e \in Event, e.kind = "subscription", Landed(e)'
                PROVE  Reached(e)'
    BY DEF LandedIsReached
  <2>1. Landed(e)
    BY DEF Landed, At
  <2>2. Reached(e)
    BY <2>1 DEF MirrorInv, LandedIsReached
  <2>. QED
    BY <1>1, <2>2 DEF Reached, Sent
<1>11. ASSUME NEW q \in Requests PROVE HasRead(q)'
  <2>1. CASE req'[q].at \in {"idle", "record"}
    BY <2>1 DEF HasRead, Holds, At
  <2>2. CASE req'[q] = req[q] /\ ~Holds(q) /\ ~At(q, "store")
    BY <2>2 DEF HasRead, Holds, At
  <2>3. CASE req'[q] = req[q] /\ (Holds(q) \/ At(q, "store"))
    <3>1. PICK j \in Keys, x \in Subscription : j = req[q].key /\ x = req[q].copy
      BY <2>3, RequestKnown DEF Holds, At, Steps
    <3>2. HasRead(q)
      BY DEF MirrorInv
    <3>3. Tells(j, x)
      BY <2>3, <3>1, <3>2 DEF HasRead
    <3>4. Tells(j, x)'
      BY <1>6, <3>3
    <3>5. Tells(req[q].key, req[q].copy)'
      BY <2>3, <3>1, <3>4 DEF Tells
    <3>. QED
      BY <1>1, <1>4, <2>3, <3>1, <3>2, <3>5 DEF HasRead, Holds, At, NamesNone
  <2>. QED
    BY <2>1, <2>2, <2>3
<1>. QED
  BY <1>3, <1>5, <1>7, <1>8, <1>9, <1>10, <1>11 DEF MirrorInv

\* The handlers of the server, one by one.
LEMMA InitMirrors ==
    ASSUME ConstantsAssumption, BillingInv, MirrorInv, NEW r \in Requests
    PROVE  /\ InitUpsert(r) => MirrorInv'
           /\ InitFind(r) => MirrorInv'
           /\ InitCreate(r) => MirrorInv'
           /\ InitChange(r) => MirrorInv'
           /\ InitRecord(r) => MirrorInv'
           /\ \A k \in Keys : InitStart(r, k) => MirrorInv'
<1>0. TypeOK
  BY DEF BillingInv
<1>1. ASSUME \A q \in Requests \ {r} : req'[q] = req[q],
             UNCHANGED <<stripe, row, inbox, mishaps>>,
             req'[r].at \in {"idle", "find", "change", "create", "record", "upsert"}
      PROVE  MirrorInv'
  <2>1. UNCHANGED <<events, remote, row, inbox, overtaken>>
        /\ \A e \in Event : Sent(e) => Sent(e)'
    BY <1>1 DEF stripe, mishaps, Sent
  <2>2. (HasRead(r) /\ ~Holds(r))'
    BY <1>1 DEF HasRead, Holds, At
  <2>3. \A e \in Event : Landed(e)' => Landed(e)
    BY <1>1 DEF Landed, At
  <2>. QED
    BY <1>1, <2>1, <2>2, <2>3, QuietMirrors
<1>2. ASSUME InitUpsert(r) PROVE MirrorInv'
  <2>1. req[r].at \in Steps /\ "find" \in Steps
    BY <1>2 DEF InitUpsert, At, Steps
  <2>. QED
    BY <1>0, <1>1, <1>2, <2>1, GotoTyped DEF InitUpsert
<1>3. ASSUME InitFind(r) PROVE MirrorInv'
  <2>1. req[r].at \in Steps /\ "change" \in Steps /\ "create" \in Steps
    BY <1>3 DEF InitFind, At, Steps
  <2>2. PICK copy \in Subscription : copy = req[r].copy
    BY <2>1, RequestKnown
  <2>3. /\ req'[r].at \in {"change", "create"}
        /\ \A q \in Requests \ {r} : req'[q] = req[q]
    BY <1>0, <1>3, <2>1, <2>2, GotoTyped, MoveTyped DEF InitFind
  <2>. QED
    BY <1>1, <1>3, <2>3 DEF InitFind, tables
<1>4. ASSUME InitCreate(r) PROVE MirrorInv'
  <2>1. req[r].at \in Steps /\ "record" \in Steps
    BY <1>4 DEF InitCreate, At, Steps
  <2>2. PICK k \in Keys : k = req[r].key
    BY <2>1, RequestKnown
  <2>3. /\ req'[r].at \in {"idle", "record"}
        /\ \A q \in Requests \ {r} : req'[q] = req[q]
    BY <1>0, <1>4, <2>1, GotoTyped, FinishTyped DEF InitCreate
  <2>4. CASE UNCHANGED stripe
    BY <1>1, <1>4, <2>3, <2>4 DEF InitCreate, tables
  <2>5. CASE Becomes(k, Snap("incomplete", PlanOf[k]), NoPlan) /\ UNCHANGED receipts
    <3>1. PICK s \in Snapshot, next \in Plans \cup {NoPlan} :
              s = Snap("incomplete", PlanOf[k]) /\ next = NoPlan
      BY SnapTyped DEF ConstantsAssumption, Statuses
    <3>. QED
      BY <1>4, <2>3, <2>5, <3>1, BecomesMirrors DEF InitCreate, tables, mishaps
  <2>. QED
    BY <1>4, <2>2, <2>4, <2>5 DEF InitCreate
<1>5. ASSUME InitChange(r) PROVE MirrorInv'
  <2>1. req[r].at \in Steps
    BY <1>5 DEF InitChange, At, Steps
  <2>2. PICK k \in Keys, key \in Keys : k = req[r].on /\ key = req[r].key
    BY <2>1, RequestKnown
  <2>3. req'[r].at = "idle" /\ \A q \in Requests \ {r} : req'[q] = req[q]
    BY <1>0, <1>5, FinishTyped DEF InitChange
  <2>4. CASE UNCHANGED stripe
    BY <1>1, <1>5, <2>3, <2>4 DEF InitChange, tables
  <2>5. CASE /\ Becomes(k, [remote[k].is EXCEPT !.price = PlanOf[key]], remote[k].next)
             /\ UNCHANGED receipts
    <3>1. PICK s \in Snapshot, next \in Plans \cup {NoPlan} :
              s = [remote[k].is EXCEPT !.price = PlanOf[key]] /\ next = remote[k].next
      BY RemoteTyped, SnapshotChanged DEF ConstantsAssumption
    <3>. QED
      BY <1>5, <2>3, <2>5, <3>1, BecomesMirrors DEF InitChange, tables, mishaps
  <2>. QED
    BY <1>5, <2>2, <2>4, <2>5 DEF InitChange
<1>6. ASSUME InitRecord(r) PROVE MirrorInv'
  BY <1>0, <1>1, <1>6, FinishTyped DEF InitRecord
<1>7. ASSUME NEW k \in Keys, InitStart(r, k) PROVE MirrorInv'
  <2>1. "upsert" \in Steps
    BY DEF Steps
  <2>2. PICK copy \in Subscription, e \in Event, p \in Plans :
            copy = NoRow /\ e = NoEvent(k) /\ p = PlanOf[k]
    BY NoRowTyped, NoEventTyped DEF ConstantsAssumption
  <2>. QED
    BY <1>0, <1>1, <1>7, <2>1, <2>2, StartTyped DEF InitStart, tables
<1>. QED
  BY <1>2, <1>3, <1>4, <1>5, <1>6, <1>7

\* A request keeps the row it has read until it saves it.
LEMMA ScheduleMirrors ==
    ASSUME ConstantsAssumption, BillingInv, MirrorInv, BillingInv', NEW r \in Requests
    PROVE  /\ ChangeNextSchedule(r) => MirrorInv'
           /\ ChangeNextSave(r) => MirrorInv'
           /\ ExtendGraceSave(r) => MirrorInv'
           /\ \A k \in Keys : ExtendGraceStart(r, k) => MirrorInv'
           /\ \A k \in Keys, p \in Plans : ChangeNextStart(r, k, p) => MirrorInv'
<1>0. TypeOK
  BY DEF BillingInv
<1>1. ASSUME ChangeNextSchedule(r) PROVE MirrorInv'
  <2>1. req[r].at \in Steps /\ "savePending" \in Steps /\ Holds(r) /\ req[r].key \in Keys
    <3>1. req[r].at \in Steps /\ "savePending" \in Steps /\ Holds(r)
      BY <1>1 DEF ChangeNextSchedule, At, Steps, Holds
    <3>. QED
      BY <3>1, RequestKnown
  <2>2. PICK k \in Keys : k = req[r].key
    BY <2>1
  <2>3. /\ \A q \in Requests \ {r} : req'[q] = req[q]
        /\ \/ req'[r].at = "idle"
           \/ /\ req'[r].at = "savePending" /\ req'[r].key = k
              /\ req'[r].copy = req[r].copy /\ req'[r].base = req[r].base
    BY <1>0, <1>1, <2>1, <2>2, FinishTyped, GotoTyped DEF ChangeNextSchedule
  <2>4. UNCHANGED <<events, row, inbox, overtaken>>
        /\ \A j \in Keys : remote'[j].is = remote[j].is
    <3>1. CASE UNCHANGED remote
      BY <1>1, <3>1 DEF ChangeNextSchedule, tables, mishaps
    <3>2. CASE remote' = [remote EXCEPT ![k].next = req[r].plan]
      <4>1. remote \in [Keys -> [is : Snapshot, next : Plans \cup {NoPlan}]]
        BY <1>0 DEF TypeOK
      <4>2. \A j \in Keys : remote'[j].is = remote[j].is
        BY <3>2, <4>1
      <4>. QED
        BY <1>1, <4>2 DEF ChangeNextSchedule, tables, mishaps
    <3>. QED
      BY <1>1, <2>2, <3>1, <3>2 DEF ChangeNextSchedule
  <2>5. \A e \in Event : (Sent(e) => Sent(e)') /\ (Landed(e)' => Landed(e))
    BY <1>1, <2>3, <2>4 DEF ChangeNextSchedule, Sent, Landed, At
  <2>6. HasRead(r)
    BY DEF MirrorInv
  <2>7. /\ Holds(r)' => /\ req'[r].key = k /\ req'[r].copy = req[r].copy
                        /\ req'[r].base = req'[r].copy.from
        /\ Holds(r)' \/ HasRead(r)'
    BY <2>1, <2>3, <2>6 DEF Holds, HasRead, At
  <2>. QED
    BY <2>1, <2>2, <2>3, <2>4, <2>5, <2>7, QuietMirrors
<1>3. ASSUME ChangeNextSave(r) PROVE MirrorInv'
  <2>1. req[r].at \in Steps /\ Holds(r)
    BY <1>3 DEF ChangeNextSave, At, Steps, Holds
  <2>2. PICK new \in Subscription : /\ new = [req[r].copy EXCEPT !.pending = req[r].plan]
                                    /\ SameEvent(req[r].copy, new)
    <3>1. req[r].copy \in Subscription /\ req[r].plan \in Plans \cup {NoPlan}
      BY <2>1, RequestKnown
    <3>. QED
      BY <3>1, SubscriptionChanged
  <2>3. req'[r].at = "idle" /\ \A q \in Requests \ {r} : req'[q] = req[q]
    BY <1>0, <1>3, FinishTyped DEF ChangeNextSave
  <2>. QED
    BY <1>3, <2>1, <2>2, <2>3, SaveMirrors DEF ChangeNextSave
<1>4. ASSUME ExtendGraceSave(r) PROVE MirrorInv'
  <2>1. req[r].at \in Steps /\ Holds(r)
    BY <1>4 DEF ExtendGraceSave, At, Steps, Holds
  <2>2. PICK new \in Subscription : /\ new = [req[r].copy EXCEPT !.grace = "given"]
                                    /\ SameEvent(req[r].copy, new)
    <3>1. req[r].copy \in Subscription
      BY <2>1, RequestKnown
    <3>. QED
      BY <3>1, SubscriptionChanged
  <2>3. req'[r].at = "idle" /\ \A q \in Requests \ {r} : req'[q] = req[q]
    BY <1>0, <1>4, FinishTyped DEF ExtendGraceSave
  <2>. QED
    BY <1>4, <2>1, <2>2, <2>3, SaveMirrors DEF ExtendGraceSave
<1>5. ASSUME NEW k \in Keys, NEW step \in {"schedule", "saveGrace"}, NEW p \in Plans,
             Start(r, step, k, row[k], NoEvent(k), p),
             UNCHANGED <<stripe, tables, mishaps>>
      PROVE  MirrorInv'
  <2>1. PICK copy \in Subscription, e \in Event : copy = row[k] /\ e = NoEvent(k)
    BY NoEventTyped, RowTyped
  <2>2. /\ req'[r].at = step /\ req'[r].key = k /\ req'[r].copy = row[k]
        /\ req'[r].base = row[k].from /\ \A q \in Requests \ {r} : req'[q] = req[q]
    BY <1>0, <1>5, <2>1, StartTyped DEF Steps
  <2>3. Holds(r)'
    BY <2>2 DEF Holds
  <2>4. \A x \in Event : (Sent(x) => Sent(x)') /\ (Landed(x)' => Landed(x))
    BY <1>5, <2>2 DEF Sent, Landed, At, stripe, tables
  <2>. QED
    BY <1>5, <2>2, <2>3, <2>4, QuietMirrors DEF stripe, tables, mishaps
<1>6. ASSUME NEW k \in Keys, ExtendGraceStart(r, k) PROVE MirrorInv'
  BY <1>5, <1>6 DEF ExtendGraceStart, ConstantsAssumption
<1>7. ASSUME NEW k \in Keys, NEW p \in Plans, ChangeNextStart(r, k, p) PROVE MirrorInv'
  BY <1>5, <1>7 DEF ChangeNextStart
<1>. QED
  BY <1>1, <1>3, <1>4, <1>6, <1>7

LEMMA StillMirrors ==
    ASSUME MirrorInv, UNCHANGED <<remote, events, row, inbox, req, overtaken>>,
           \A e \in Event : Sent(e) => Sent(e)'
    PROVE  MirrorInv'
<1>1. InOrder' /\ \A j \in Keys : /\ LastIsNow(j)' /\ Tells(j, row[j])' /\ NamesNone(row[j])'
                                  /\ StillBehind(j)'
  BY DEF MirrorInv, InOrder, LastIsNow, Tells, NamesNone, StillBehind, About, LatestOf
<1>2. \A j \in Keys : AtFirst(j)'
  BY DEF MirrorInv, AtFirst, About, Holds
<1>3. LandedIsReached'
  BY DEF MirrorInv, LandedIsReached, Landed, Reached, At
<1>4. \A r \in Requests : HasRead(r)'
  BY DEF MirrorInv, HasRead, Holds, At, Tells, NamesNone, About
<1>. QED
  BY <1>1, <1>2, <1>3, <1>4 DEF MirrorInv

\* A delivery up to the write, and its end.
LEMMA DeliveryMirrors ==
    ASSUME ConstantsAssumption, BillingInv, MirrorInv, NEW r \in Requests
    PROVE  /\ HookFind(r) => MirrorInv'
           /\ HookInsert(r) => MirrorInv'
           /\ HookAttempt(r) => MirrorInv'
           /\ HookFault(r) => MirrorInv'
           /\ HookDone(r) => MirrorInv'
           /\ HookFail(r) => MirrorInv'
           /\ \A e \in Event : HookStart(r, e) => MirrorInv'
<1>0. TypeOK
  BY DEF BillingInv
<1>1. ASSUME UNCHANGED <<stripe, row, overtaken>>,
             \A q \in Requests \ {r} : req'[q] = req[q],
             req'[r].at \notin {"schedule", "savePending", "saveGrace", "store"},
             req'[r].at = "done" => req'[r].event.kind # "subscription",
             \A e \in Event : inbox'[e] = "processed" =>
                 inbox[e] = "processed" \/ (At(r, "done") /\ e = req[r].event)
      PROVE  MirrorInv'
  <2>1. ~(Holds(r)') /\ HasRead(r)'
    BY <1>1 DEF HasRead, Holds, At
  <2>2. \A e \in Event : Sent(e) => Sent(e)'
    BY <1>1 DEF Sent, stripe
  <2>3. \A e \in Event : e.kind = "subscription" /\ Landed(e)' => Landed(e)
    BY <1>1 DEF Landed, At
  <2>. QED
    BY <1>1, <2>1, <2>2, <2>3, QuietMirrors DEF stripe
<1>2. ASSUME HookFind(r) PROVE MirrorInv'
  <2>1. req[r].at \in Steps /\ "insertEvent" \in Steps /\ "apply" \in Steps
    BY <1>2 DEF HookFind, At, Steps
  <2>2. /\ req'[r].at \in {"insertEvent", "apply"}
        /\ \A q \in Requests \ {r} : req'[q] = req[q]
    BY <1>0, <1>2, <2>1, GotoTyped DEF HookFind
  <2>. QED
    BY <1>1, <1>2, <2>2 DEF HookFind, tables, mishaps
<1>3. ASSUME HookInsert(r) PROVE MirrorInv'
  <2>1. req[r].at \in Steps /\ "apply" \in Steps
    BY <1>3 DEF HookInsert, At, Steps
  <2>2. /\ req'[r].at \in {"idle", "apply"}
        /\ \A q \in Requests \ {r} : req'[q] = req[q]
    BY <1>0, <1>3, <2>1, GotoTyped, FinishTyped DEF HookInsert
  <2>3. \A e \in Event : inbox'[e] = "processed" => inbox[e] = "processed"
    BY <1>0, <1>3 DEF HookInsert, TypeOK
  <2>. QED
    BY <1>1, <1>3, <2>2, <2>3 DEF HookInsert, mishaps
<1>4. ASSUME HookAttempt(r) PROVE MirrorInv'
  <2>1. req[r].at \in Steps /\ "done" \in Steps
    BY <1>4 DEF HookAttempt, At, Steps
  <2>2. /\ req'[r].at = "done" /\ req'[r].event = req[r].event
        /\ \A q \in Requests \ {r} : req'[q] = req[q]
    BY <1>0, <1>4, <2>1, GotoTyped DEF HookAttempt
  <2>. QED
    BY <1>1, <1>4, <2>2 DEF HookAttempt, mishaps
<1>5. ASSUME HookFault(r) PROVE MirrorInv'
  <2>1. req[r].at \in Steps /\ "fail" \in Steps
    BY <1>5 DEF HookFault, Steps
  <2>2. /\ req'[r].at = "fail"
        /\ \A q \in Requests \ {r} : req'[q] = req[q]
    BY <1>0, <1>5, <2>1, GotoTyped DEF HookFault
  <2>. QED
    BY <1>1, <1>5, <2>2 DEF HookFault, tables
<1>6. ASSUME HookDone(r) \/ HookFail(r) PROVE MirrorInv'
  <2>1. req'[r].at = "idle" /\ \A q \in Requests \ {r} : req'[q] = req[q]
    BY <1>0, <1>6, FinishTyped DEF HookDone, HookFail
  <2>2. \A e \in Event : inbox'[e] = "processed" =>
            inbox[e] = "processed" \/ (At(r, "done") /\ e = req[r].event)
    BY <1>0, <1>6 DEF HookDone, HookFail, TypeOK
  <2>. QED
    BY <1>1, <1>6, <2>1, <2>2 DEF HookDone, HookFail, mishaps
<1>7. ASSUME NEW e \in Event, HookStart(r, e) PROVE MirrorInv'
  <2>1. PICK copy \in Subscription, k \in Keys, p \in Plans :
            copy = NoRow /\ k = e.key /\ p = PlanOf[k]
    BY NoRowTyped DEF ConstantsAssumption, Event
  <2>2. req'[r].at = "findEvent" /\ \A q \in Requests \ {r} : req'[q] = req[q]
    BY <1>0, <1>7, <2>1, StartTyped DEF HookStart, Steps
  <2>. QED
    BY <1>1, <1>7, <2>2 DEF HookStart, tables, mishaps
<1>. QED
  BY <1>2, <1>3, <1>4, <1>5, <1>6, <1>7

\* syncSubscription: an event older than the row is skipped, because the row tells a newer
\* one; any other is taken up with the row it was found not to be older than.
LEMMA SyncMirrors ==
    ASSUME ConstantsAssumption, BillingInv, MirrorInv, BillingInv', NEW r \in Requests
    PROVE  /\ HookSync(r) => MirrorInv'
           /\ HookStore(r) => MirrorInv'
<1>0. TypeOK
  BY DEF BillingInv
<1>1. ASSUME HookSync(r) PROVE MirrorInv'
  <2>1. req[r].at \in Steps /\ {"done", "store"} \subseteq Steps
    BY <1>1 DEF HookSync, At, Steps
  <2>2. PICK e \in Event, k \in Keys, on \in Keys :
            e = req[r].event /\ k = req[r].key /\ on = req[r].on
    BY <2>1, RequestKnown
  <2>3. e.kind = "subscription" /\ Sent(e) /\ e.key = k
    BY <1>1, <2>1, <2>2, RequestKnown DEF HookSync, At, Delivers
  <2>4. /\ events[e.n] \in [key : Keys, created : 1..MaxEvents, is : Snapshot]
        /\ e.n \in 0..MaxEvents /\ e.n \in About(k) /\ events[e.n].created \in Nat
    BY <2>3, EventTyped DEF Sent, Event, About
  <2>5. /\ row[k].last \in Nat /\ row[k].from \in Nat
        /\ Tells(k, row[k]) /\ NamesNone(row[k])
    BY RowTyped, NumbersTyped DEF MirrorInv
  <2>6. UNCHANGED <<stripe, row, inbox, overtaken>>
        /\ \A x \in Event : Sent(x) => Sent(x)'
    BY <1>1 DEF HookSync, tables, mishaps, stripe, Sent
  <2>7. CASE row[k].last > events[e.n].created
    <3>1. /\ req'[r].at = "done" /\ req'[r].event = e
          /\ \A q \in Requests \ {r} : req'[q] = req[q]
      BY <1>0, <1>1, <2>1, <2>2, <2>3, <2>7, GotoTyped DEF HookSync
    <3>2. ~(Holds(r)') /\ HasRead(r)'
      BY <3>1 DEF HasRead, Holds, At
    <3>3. e.n <= row[k].from
      <4>1. row[k].from # 0
        BY <2>4, <2>5, <2>7 DEF NamesNone
      <4>2. row[k].from \in DOMAIN events /\ row[k].last = events[row[k].from].created
        BY <2>5, <4>1 DEF Tells, About
      <4>3. row[k].from <= e.n => row[k].last <= events[e.n].created
        BY <2>3, <4>2 DEF MirrorInv, InOrder, Sent
      <4>. QED
        BY <2>4, <2>5, <2>7, <4>3
    <3>4. Reached(e)
      BY <2>3, <3>3 DEF Reached
    <3>5. \A x \in Event : Landed(x)' => Landed(x) \/ x = e
      BY <2>6, <3>1 DEF Landed, At
    <3>. QED
      BY <2>6, <3>1, <3>2, <3>4, <3>5, QuietMirrors DEF stripe
  <2>8. CASE ~(row[k].last > events[e.n].created)
    <3>0. PICK old \in Subscription : old = row[k]
      BY RowTyped
    <3>1. PICK c \in Subscription : /\ c = Synced(row[k], e.n) /\ c.is = events[e.n].is
                                    /\ c.from = e.n /\ c.last = events[e.n].created
      BY <2>4, <3>0, SyncedTyped
    <3>2. Move(r, "store", on, c)
      BY <1>1, <2>2, <2>3, <2>8, <3>1 DEF HookSync
    <3>3. /\ req'[r].at = "store" /\ req'[r].event = e /\ req'[r].key = k
          /\ req'[r].copy = c /\ req'[r].base = row[k].from
          /\ \A q \in Requests \ {r} : req'[q] = req[q]
      BY <1>0, <2>1, <2>2, <3>2, MoveTyped
    <3>4. About(k)' = About(k) /\ UNCHANGED events
      BY <2>6 DEF About, stripe
    <3>5. row[k].from # 0 => /\ row[k].from \in About(k)
                             /\ events[row[k].from].created <= c.last
      BY <2>4, <2>5, <2>8, <3>1 DEF Tells
    <3>6. ~(Holds(r)') /\ HasRead(r)'
      BY <2>3, <2>4, <3>1, <3>3, <3>4, <3>5 DEF HasRead, Holds, At, Tells
    <3>7. \A x \in Event : Landed(x)' => Landed(x)
      BY <2>6, <3>3 DEF Landed, At
    <3>. QED
      BY <2>6, <3>3, <3>6, <3>7, QuietMirrors DEF stripe
  <2>. QED
    BY <2>7, <2>8
<1>2. ASSUME HookStore(r) PROVE MirrorInv'
  <2>1. req[r].at \in Steps /\ {"done", "fail"} \subseteq Steps /\ At(r, "store")
        /\ UNCHANGED <<stripe, inbox>>
    BY <1>2 DEF HookStore, At, Steps
  <2>2. PICK c \in Subscription, k \in Keys : c = req[r].copy /\ k = req[r].key
    BY <2>1, RequestKnown
  <2>3. CASE Collides(r)
    <3>1. /\ req'[r].at = "fail" /\ \A q \in Requests \ {r} : req'[q] = req[q]
          /\ UNCHANGED <<row, overtaken>>
      BY <1>0, <1>2, <2>1, <2>3, GotoTyped DEF HookStore, mishaps
    <3>2. ~(Holds(r)') /\ HasRead(r)' /\ \A e \in Event : Landed(e)' => Landed(e)
      BY <2>1, <3>1 DEF HasRead, Holds, At, Landed
    <3>3. \A e \in Event : Sent(e) => Sent(e)'
      BY <2>1 DEF Sent, stripe
    <3>. QED
      BY <2>1, <3>1, <3>2, <3>3, QuietMirrors DEF stripe
  <2>4. CASE ~Collides(r)
    <3>1. PICK born \in 0..Cardinality(Keys) :
              born = IF Copied(k) THEN row[k].born
                                  ELSE 1 + Cardinality({j \in Keys : Copied(j)})
      BY NewBorn, RowTyped DEF Subscription
    <3>2. PICK new \in Subscription : new = [c EXCEPT !.born = born] /\ SameEvent(c, new)
      BY SubscriptionChanged
    <3>3. Save(r, new) /\ Goto(r, "done")
      BY <1>2, <2>2, <2>4, <3>1, <3>2 DEF HookStore
    <3>4. /\ req'[r].at = "done" /\ req'[r].event = req[r].event
          /\ \A q \in Requests \ {r} : req'[q] = req[q]
      BY <1>0, <2>1, <3>3, GotoTyped
    <3>. QED
      BY <2>1, <2>2, <3>2, <3>3, <3>4, SaveMirrors
  <2>. QED
    BY <2>3, <2>4
<1>. QED
  BY <1>1, <1>2

\* Stripe and the endpoints that only tell Stripe: requests keep what they have read.
LEMMA ChangeMirrors ==
    ASSUME ConstantsAssumption, BillingInv, MirrorInv, NEW k \in Keys
    PROVE  /\ \A p \in Plans : ChangeNow(k, p) => MirrorInv'
           /\ \A atPeriodEnd \in BOOLEAN : Cancel(k, atPeriodEnd) => MirrorInv'
           /\ Reactivate(k) => MirrorInv'
           /\ StripeCharges(k) => MirrorInv'
           /\ StripeDeclines(k) => MirrorInv'
           /\ StripeRenews(k) => MirrorInv'
<1>. PICK now \in Snapshot, next \in Plans \cup {NoPlan} :
         now = remote[k].is /\ next = remote[k].next
  BY RemoteTyped
<1>0. NoPlan \in Plans \cup {NoPlan}
  OBVIOUS
<1>1. ASSUME NEW s \in Snapshot, NEW then \in Plans \cup {NoPlan}, Becomes(k, s, then),
             receipts \subseteq receipts', UNCHANGED <<tables, req, mishaps>>
      PROVE  MirrorInv'
  BY <1>1, BecomesMirrors DEF tables, mishaps
<1>2. PICK canceled \in Snapshot : canceled = [now EXCEPT !.status = "canceled"]
  BY SnapshotChanged DEF Statuses
<1>3. PICK active \in Snapshot : active = [now EXCEPT !.status = "active"]
  BY SnapshotChanged DEF Statuses
<1>4. PICK late \in Snapshot : late = [now EXCEPT !.status = "past_due"]
  BY SnapshotChanged DEF Statuses
<1>5. PICK ending \in Snapshot : ending = [now EXCEPT !.ends = "atPeriodEnd"]
  BY SnapshotChanged
<1>6. PICK kept \in Snapshot : kept = [now EXCEPT !.ends = "never"]
  BY SnapshotChanged
<1>7. ASSUME NEW p \in Plans, ChangeNow(k, p) PROVE MirrorInv'
  <2>1. PICK priced \in Snapshot :
            priced = [status |-> now.status, price |-> p, plan |-> p, ends |-> now.ends]
    BY DEF Snapshot
  <2>. QED
    BY <1>1, <1>7, <2>1 DEF ChangeNow
<1>8. ASSUME NEW atPeriodEnd \in BOOLEAN, Cancel(k, atPeriodEnd) PROVE MirrorInv'
  BY <1>1, <1>2, <1>5, <1>8 DEF Cancel, With
<1>9. ASSUME Reactivate(k) PROVE MirrorInv'
  BY <1>1, <1>6, <1>9 DEF Reactivate
<1>10. ASSUME StripeCharges(k) PROVE MirrorInv'
  BY <1>1, <1>3, <1>10 DEF StripeCharges, With
<1>11. ASSUME StripeDeclines(k) PROVE MirrorInv'
  <2>1. UNCHANGED <<remote, events, row, inbox, req, overtaken>>
    BY <1>11 DEF StripeDeclines, tables, mishaps
  <2>2. \A e \in Event : Sent(e) => Sent(e)'
    BY <1>11 DEF StripeDeclines, Sent
  <2>. QED
    BY <2>1, <2>2, StillMirrors
<1>12. ASSUME StripeRenews(k) PROVE MirrorInv'
  <2>1. PICK priced \in Snapshot : priced = [now EXCEPT !.price = next]
    BY SnapshotChanged
  <2>2. UNCHANGED <<receipts, tables, req, mishaps>>
    BY <1>12 DEF StripeRenews
  <2>3. \/ Becomes(k, late, next) \/ Becomes(k, active, next)
        \/ Becomes(k, canceled, NoPlan) \/ Becomes(k, priced, NoPlan)
    BY <1>2, <1>3, <1>4, <1>12, <2>1 DEF StripeRenews, With
  <2>. QED
    BY <1>0, <1>1, <2>2, <2>3
<1>. QED
  BY <1>7, <1>8, <1>9, <1>10, <1>11, <1>12

LEMMA RestartMirrors ==
    ASSUME MirrorInv, Restart
    PROVE  MirrorInv'
<1>1. UNCHANGED <<remote, events, row, inbox, overtaken>>
      /\ \A r \in Requests : req'[r].at = "idle"
  BY NoRequestIdle DEF Restart, stripe, tables
<1>2. InOrder' /\ \A j \in Keys : /\ LastIsNow(j)' /\ Tells(j, row[j])' /\ NamesNone(row[j])'
                                  /\ StillBehind(j)'
  BY <1>1 DEF MirrorInv, InOrder, LastIsNow, Tells, NamesNone, StillBehind, About, LatestOf
<1>3. \A j \in Keys : AtFirst(j)'
  BY <1>1 DEF MirrorInv, AtFirst, About, Holds
<1>4. LandedIsReached'
  BY <1>1 DEF MirrorInv, LandedIsReached, Landed, Reached, At, Sent, Restart, stripe
<1>5. \A r \in Requests : HasRead(r)'
  BY <1>1 DEF HasRead, Holds, At
<1>. QED
  BY <1>2, <1>3, <1>4, <1>5 DEF MirrorInv

LEMMA MirrorInvInit ==
    ASSUME ConstantsAssumption, Init
    PROVE  MirrorInv
<1>0. BillingInv
  BY BillingInvInit
<1>1. PICK old : InitWith(old)
  BY DEF Init
<1>2. /\ events = <<>> /\ overtaken = {}
      /\ \A k \in Keys : row[k].is = remote[k].is /\ row[k].last = 0 /\ row[k].from = 0
      /\ \A r \in Requests : req[r].at = "idle"
  BY <1>1, NoRequestIdle DEF InitWith
<1>3. \A e \in Event : inbox[e] = "processed" => e.kind # "subscription"
  <2>. SUFFICES ASSUME NEW e \in Event, inbox[e] = "processed"
                PROVE  e.kind # "subscription"
    OBVIOUS
  <2>1. e \in receipts /\ receipts = {Receipt(k, "paid") : k \in old}
    BY <1>1 DEF InitWith
  <2>. QED
    BY <2>1 DEF Receipt
<1>4. InOrder /\ LandedIsReached
  BY <1>2, <1>3 DEF InOrder, LandedIsReached, Landed, At
<1>5. \A k \in Keys : About(k) = {}
  BY <1>2 DEF About
<1>6. \A k \in Keys : LastIsNow(k) /\ Tells(k, row[k]) /\ NamesNone(row[k]) /\ StillBehind(k)
  BY <1>2, <1>5 DEF LastIsNow, Tells, NamesNone, StillBehind
<1>7. \A k \in Keys : AtFirst(k)
  BY <1>0, <1>2, RemoteTyped DEF AtFirst, Holds
<1>8. \A r \in Requests : HasRead(r)
  BY <1>2 DEF HasRead, Holds, At
<1>. QED
  BY <1>4, <1>6, <1>7, <1>8 DEF MirrorInv

LEMMA MirrorInvStep ==
    ASSUME ConstantsAssumption, BillingInv, MirrorInv, BillingInv', [Next]_vars
    PROVE  MirrorInv'
<1>1. ASSUME NEW r \in Requests, Begin(r) PROVE MirrorInv'
  BY <1>1, InitMirrors, ScheduleMirrors DEF Begin
<1>2. ASSUME NEW r \in Requests, Continue(r) PROVE MirrorInv'
  BY <1>2, InitMirrors, ScheduleMirrors, DeliveryMirrors, SyncMirrors DEF Continue
<1>3. ASSUME NEW r \in Requests, HookFault(r) PROVE MirrorInv'
  BY <1>3, DeliveryMirrors
<1>4. ASSUME NEW e \in Event, Deliver(e) PROVE MirrorInv'
  BY <1>4, DeliveryMirrors DEF Deliver
<1>5. ASSUME NEW k \in Keys,
             \/ \E p \in Plans : ChangeNow(k, p)
             \/ \E atPeriodEnd \in BOOLEAN : Cancel(k, atPeriodEnd)
             \/ Reactivate(k) \/ StripeCharges(k) \/ StripeDeclines(k) \/ StripeRenews(k)
      PROVE  MirrorInv'
  BY <1>5, ChangeMirrors
<1>6. ASSUME Restart PROVE MirrorInv'
  BY <1>6, RestartMirrors
<1>7. ASSUME UNCHANGED vars PROVE MirrorInv'
  <2>1. UNCHANGED <<remote, events, row, inbox, req, overtaken>>
        /\ \A e \in Event : Sent(e) => Sent(e)'
    BY <1>7 DEF vars, stripe, tables, mishaps, Sent
  <2>. QED
    BY <2>1, StillMirrors
<1>. QED
  BY <1>1, <1>2, <1>3, <1>4, <1>5, <1>6, <1>7 DEF Next

LEMMA MirrorInvAlways == Spec => [](BillingInv /\ MirrorInv)
<1>1. Init => MirrorInv
  BY MirrorInvInit, ConstantsAssumption
<1>2. BillingInv /\ MirrorInv /\ BillingInv' /\ [Next]_vars => MirrorInv'
  BY MirrorInvStep, ConstantsAssumption
<1>. QED
  BY <1>1, <1>2, BillingInvAlways, PTL DEF Spec

\* Once every event of a subscription has been processed, in whatever order, with whatever
\* repeats, failures and crashes, the row says what Stripe says, or a save took it back and
\* none has told the newest event since: deliveries, scheduled changes and extensions may
\* overlap in any way and events may share their second (syncSubscription, changePlan,
\* adminExtendGrace; MCBilling_overtaken.cfg shows a row that was taken back).
THEOREM DriftAlwaysHasACause == Spec => []DriftHasACause
<1>1. ASSUME BillingInv, MirrorInv, NEW k \in Keys, Settled(k), k \notin overtaken
      PROVE  row[k].is = remote[k].is
  <2>0. DOMAIN events = 1..Len(events) /\ Len(events) \in Nat /\ MaxEvents \in Nat
        /\ Len(events) <= MaxEvents
    BY <1>1, EventsKnown, ConstantsAssumption DEF BillingInv, TypeOK, ConstantsAssumption
  <2>1. ASSUME NEW i \in About(k) PROVE i <= row[k].from /\ i \in Nat \ {0}
    <3>1. i \in 1..MaxEvents /\ i \in DOMAIN events /\ events[i].key = k
      BY <2>0, <2>1 DEF About
    <3>2. PICK e \in Event : e = [kind |-> "subscription", key |-> k, n |-> i]
      BY <3>1 DEF Event
    <3>3. Sent(e) /\ e.key = k /\ e.kind = "subscription" /\ e.n = i
      BY <3>1, <3>2 DEF Sent
    <3>4. Landed(e)
      BY <1>1, <3>3 DEF Settled, Landed
    <3>5. Reached(e)
      BY <1>1, <3>3, <3>4 DEF MirrorInv, LandedIsReached
    <3>. QED
      BY <1>1, <3>1, <3>3, <3>5 DEF Reached
  <2>2. CASE About(k) = {}
    <3>1. row[k].from = 0
      BY <1>1, <2>2 DEF MirrorInv, Tells
    <3>. QED
      BY <1>1, <2>2, <3>1 DEF MirrorInv, AtFirst
  <2>3. CASE About(k) # {}
    <3>1. row[k].from \in Nat
      BY <1>1, RowTyped, NumbersTyped
    <3>2. row[k].from # 0
      BY <2>1, <2>3, <3>1
    <3>3. row[k].from \in About(k) /\ row[k].is = events[row[k].from].is
      BY <1>1, <3>2 DEF MirrorInv, Tells
    <3>. QED
      BY <1>1, <2>1, <3>3 DEF MirrorInv, LastIsNow
  <2>. QED
    BY <2>2, <2>3
<1>2. BillingInv /\ MirrorInv => DriftHasACause
  BY <1>1 DEF DriftHasACause
<1>. QED
  BY <1>2, MirrorInvAlways, PTL

-------------------------------------------------------------------------------
(* The abstract mirror. *)

\* What a step can do to the log and to the rows.
LEMMA MirrorMoves ==
    ASSUME Next
    PROVE  \/ UNCHANGED <<events, row, overtaken>>
           \/ UNCHANGED <<row, overtaken>> /\ \E x : events' = Append(events, x)
           \/ \E r \in Requests : (HookStore(r) /\ ~Collides(r)) \/ ChangeNextSave(r)
                                  \/ ExtendGraceSave(r)
<1>. DEFINE Quiet == UNCHANGED <<events, row, overtaken>>
            Writes == UNCHANGED <<row, overtaken>> /\ \E x : events' = Append(events, x)
            Saved == \E r \in Requests : (HookStore(r) /\ ~Collides(r)) \/ ChangeNextSave(r)
                                         \/ ExtendGraceSave(r)
<1>1. ASSUME NEW k, NEW s, NEW next, Becomes(k, s, next), UNCHANGED <<row, overtaken>>
      PROVE  Writes
  BY <1>1 DEF Becomes
<1>2. ASSUME NEW r \in Requests, Begin(r) PROVE Quiet
  BY <1>2 DEF Begin, InitStart, ExtendGraceStart, ChangeNextStart, stripe, tables, mishaps
<1>3. ASSUME NEW r \in Requests, HookFault(r) PROVE Quiet
  BY <1>3 DEF HookFault, stripe, tables
<1>4. ASSUME NEW e \in Event, Deliver(e) PROVE Quiet
  BY <1>4 DEF Deliver, HookStart, stripe, tables, mishaps
<1>5. ASSUME Restart PROVE Quiet
  BY <1>5 DEF Restart, stripe, tables
<1>6. ASSUME NEW k \in Keys,
             \/ \E p \in Plans : ChangeNow(k, p)
             \/ \E atPeriodEnd \in BOOLEAN : Cancel(k, atPeriodEnd)
             \/ Reactivate(k) \/ StripeCharges(k) \/ StripeDeclines(k) \/ StripeRenews(k)
      PROVE  Quiet \/ Writes
  <2>1. CASE StripeDeclines(k)
    BY <2>1 DEF StripeDeclines, tables, mishaps
  <2>2. CASE StripeRenews(k)
    BY <1>1, <2>2 DEF StripeRenews, tables, mishaps
  <2>3. CASE \/ \E p \in Plans : ChangeNow(k, p)
             \/ \E atPeriodEnd \in BOOLEAN : Cancel(k, atPeriodEnd)
             \/ Reactivate(k) \/ StripeCharges(k)
    BY <1>1, <2>3 DEF ChangeNow, Cancel, Reactivate, StripeCharges, tables, mishaps
  <2>. QED
    BY <1>6, <2>1, <2>2, <2>3
<1>7. ASSUME NEW r \in Requests, Continue(r) PROVE Quiet \/ Writes \/ Saved
  <2>1. ASSUME InitCreate(r) \/ InitChange(r) PROVE Quiet \/ Writes
    BY <1>1, <2>1 DEF InitCreate, InitChange, stripe, tables, mishaps
  <2>2. ASSUME \/ InitUpsert(r) \/ InitFind(r) \/ InitRecord(r) \/ ChangeNextSchedule(r)
               \/ HookFind(r) \/ HookInsert(r) \/ HookSync(r) \/ HookAttempt(r)
               \/ HookDone(r) \/ HookFail(r) \/ (HookStore(r) /\ Collides(r))
        PROVE  Quiet
    BY <2>2 DEF InitUpsert, InitFind, InitRecord, ChangeNextSchedule, HookFind, HookInsert,
                HookSync, HookAttempt, HookDone, HookFail, HookStore, stripe, tables, mishaps
  <2>. QED
    BY <1>7, <2>1, <2>2 DEF Continue
<1>. QED
  BY <1>2, <1>3, <1>4, <1>5, <1>6, <1>7 DEF Next

\* The three saves write what the request has read, with the same event.
LEMMA SavesSame ==
    ASSUME ConstantsAssumption, BillingInv, NEW r \in Requests,
           (HookStore(r) /\ ~Collides(r)) \/ ChangeNextSave(r) \/ ExtendGraceSave(r)
    PROVE  /\ UNCHANGED events /\ req[r].key \in Keys
           /\ Holds(r) \/ At(r, "store")
           /\ \E new \in Subscription : SameEvent(req[r].copy, new) /\ Save(r, new)
<1>1. /\ req[r].at \in Steps /\ (Holds(r) \/ At(r, "store")) /\ UNCHANGED events
  BY DEF HookStore, ChangeNextSave, ExtendGraceSave, At, Steps, Holds, stripe
<1>2. PICK c \in Subscription, k \in Keys, p \in Plans :
          c = req[r].copy /\ k = req[r].key /\ p = req[r].plan
  BY <1>1, RequestKnown
<1>3. \E new \in Subscription : SameEvent(c, new) /\ Save(r, new)
  <2>1. CASE ChangeNextSave(r) \/ ExtendGraceSave(r)
    BY <1>2, <2>1, SubscriptionChanged DEF ChangeNextSave, ExtendGraceSave
  <2>2. CASE HookStore(r) /\ ~Collides(r)
    <3>1. PICK born \in 0..Cardinality(Keys) :
              born = IF Copied(k) THEN row[k].born
                                  ELSE 1 + Cardinality({j \in Keys : Copied(j)})
      BY NewBorn, RowTyped DEF Subscription
    <3>2. PICK new \in Subscription : new = [c EXCEPT !.born = born] /\ SameEvent(c, new)
      BY SubscriptionChanged
    <3>. QED
      BY <1>2, <2>2, <3>1, <3>2 DEF HookStore
  <2>. QED
    BY <2>1, <2>2
<1>. QED
  BY <1>1, <1>2, <1>3

LEMMA LogTyped ==
    ASSUME NEW s \in Seq([key : Keys, created : 1..MaxEvents, is : Snapshot])
    PROVE  LET log == [i \in DOMAIN s |-> [key |-> s[i].key, state |-> s[i].is]]
           IN  log \in Seq([key : Keys, state : Snapshot]) /\ Len(log) = Len(s)
<1>. DEFINE E == [key : Keys, created : 1..MaxEvents, is : Snapshot]
            L == [key : Keys, state : Snapshot]
            entry(x) == [key |-> x.key, state |-> x.is]
            log == [i \in DOMAIN s |-> entry(s[i])]
<1>1. Len(s) \in Nat /\ DOMAIN s = 1..Len(s) /\ \A i \in 1..Len(s) : s[i] \in E
  <2>. HIDE DEF E
  <2>1. s \in Seq(E)
    BY DEF E
  <2>. QED
    BY <2>1
<1>2. \A x \in E : entry(x) \in L
  OBVIOUS
<1>. HIDE DEF E, L, entry
<1>3. log \in [1..Len(s) -> L]
  BY <1>1, <1>2
<1>. HIDE DEF log
<1>4. log \in Seq(L) /\ Len(log) = Len(s)
  BY <1>1, <1>3
<1>. QED
  BY <1>4 DEF L, log, entry

\* Every step is one of the mirror, or none: a save that tells a newer event shows it, one
\* that tells an older event overtakes, and any other step leaves the copies as they are.
LEMMA MirrorStep ==
    ASSUME ConstantsAssumption, BillingInv, MirrorInv, BillingInv', [Next]_vars
    PROVE  [Mirror!Next]_(Mirror!mirror)
<1>. DEFINE E == [key : Keys, created : 1..MaxEvents, is : Snapshot]
            L == [key : Keys, state : Snapshot]
            log == [i \in DOMAIN events |-> [key |-> events[i].key, state |-> events[i].is]]
            shown == [k \in Keys |-> row[k].from]
            view == [k \in Keys |-> row[k].is]
<1>2. /\ events \in Seq(E) /\ Len(events) \in Nat /\ DOMAIN events = 1..Len(events)
      /\ events' \in Seq(E)
  BY DEF BillingInv, TypeOK
<1>3. log \in Seq(L) /\ Len(log) = Len(events) /\ log' \in Seq(L) /\ Len(log') = Len(events')
  BY <1>2, LogTyped
<1>4. ASSUME UNCHANGED <<events, row, overtaken>>
      PROVE  UNCHANGED <<log, shown, view, overtaken>>
  BY <1>4
<1>5. ASSUME UNCHANGED <<row, overtaken>>, NEW x, events' = Append(events, x)
      PROVE  Mirror!Write
  <2>1. Len(events') = Len(events) + 1 /\ \A i \in 1..Len(events) : events'[i] = events[i]
    BY <1>2, <1>5
  <2>2. SubSeq(log', 1, Len(log)) = log
    BY <1>2, <1>3, <2>1
  <2>3. UNCHANGED <<shown, view, overtaken>>
    BY <1>5
  <2>. QED
    BY <1>3, <2>1, <2>2, <2>3 DEF Mirror!Write
<1>6. ASSUME NEW r \in Requests, NEW k \in Keys, k = req[r].key, Holds(r) \/ At(r, "store"),
             NEW new \in Subscription, SameEvent(req[r].copy, new), Save(r, new),
             UNCHANGED events
      PROVE  \/ Mirror!Show(k) \/ Mirror!Overtake(k)
             \/ UNCHANGED <<log, shown, view, overtaken>>
  <2>1. /\ row'[k] = new /\ \A j \in Keys \ {k} : row'[j] = row[j]
        /\ Tells(k, new)
        /\ new.from < row[k].from =>
               ~LatestOf(k, new.from) /\ overtaken' = overtaken \cup {k}
        /\ new.from = row[k].from => new.is = row[k].is /\ overtaken' = overtaken
        /\ new.from > row[k].from =>
               overtaken' = IF LatestOf(k, new.from) THEN overtaken \ {k} ELSE overtaken
    BY <1>6, SaveMoves
  <2>2. /\ row[k].from \in Nat /\ new.from \in Nat /\ new.is \in Snapshot
        /\ row[k].from <= Len(events) /\ new.from <= Len(events)
    <3>1. row[k].from \in Nat /\ new.from \in Nat /\ new.is \in Snapshot
      BY RowTyped, NumbersTyped
    <3>2. Tells(k, row[k])
      BY DEF MirrorInv
    <3>. QED
      BY <1>2, <2>1, <3>1, <3>2 DEF Tells, About
  <2>3. PICK n \in Nat, s \in Snapshot : n = new.from /\ s = new.is
    BY <2>2
  <2>4. /\ shown' = [shown EXCEPT ![k] = n] /\ view' = [view EXCEPT ![k] = s] /\ log' = log
    <3>1. shown' = [j \in Keys |-> IF j = k THEN n ELSE row[j].from]
      BY <2>1, <2>3
    <3>2. view' = [j \in Keys |-> IF j = k THEN s ELSE row[j].is]
      BY <2>1, <2>3
    <3>. QED
      BY <1>6, <3>1, <3>2
  <2>5. n # 0 => n \in 1..Len(log) /\ log[n].key = k /\ log[n].state = s
    BY <1>2, <1>3, <2>1, <2>3 DEF Tells, About
  <2>6. Mirror!Newest(k, n) <=> LatestOf(k, n)
    <3>1. \A i \in 1..Len(events) : log[i].key = events[i].key
      BY <1>2
    <3>2. Len(log) = Len(events)
      BY <1>3
    <3>3. (\A i \in (n + 1)..Len(log) : log[i].key # k) <=> LatestOf(k, n)
      <4>. HIDE DEF log
      <4>1. LatestOf(k, n) <=> \A i \in 1..Len(events) : log[i].key = k => i <= n
        BY <1>2, <3>1 DEF LatestOf
      <4>. QED
        BY <1>2, <3>2, <4>1
    <3>. QED
      BY <3>3 DEF Mirror!Newest
  <2>7. shown[k] = row[k].from /\ Len(log) = Len(events)
    BY <1>3
  <2>. HIDE DEF log, shown, view
  <2>8. CASE new.from > row[k].from
    <3>1. n \in (shown[k] + 1)..Len(log) /\ n # 0
      BY <1>2, <2>2, <2>3, <2>7, <2>8
    <3>2. Mirror!Say(k, n)
      BY <2>4, <2>5, <3>1 DEF Mirror!Say, log, shown, view
    <3>3. overtaken' = IF Mirror!Newest(k, n) THEN overtaken \ {k} ELSE overtaken
      BY <2>1, <2>3, <2>6, <2>8
    <3>. QED
      BY <3>1, <3>2, <3>3 DEF Mirror!Show, log, shown, view
  <2>9. CASE new.from = row[k].from
    <3>1. \A j \in Keys : row'[j].is = row[j].is /\ row'[j].from = row[j].from
      BY <2>1, <2>9
    <3>2. UNCHANGED <<log, shown, view, overtaken>>
      BY <1>6, <2>1, <2>9, <3>1 DEF log, shown, view
    <3>. QED
      BY <3>2
  <2>10. CASE new.from < row[k].from
    <3>1. overtaken' = overtaken \cup {k} /\ shown[k] > 0
      BY <2>1, <2>2, <2>7, <2>10
    <3>2. CASE n # 0
      <4>1. n \in 1..(shown[k] - 1)
        BY <2>2, <2>3, <2>7, <2>10, <3>2
      <4>2. Mirror!Say(k, n)
        BY <2>4, <2>5, <3>2 DEF Mirror!Say, log, shown, view
      <4>. QED
        BY <3>1, <4>1, <4>2 DEF Mirror!Overtake, log, shown, view
    <3>3. CASE n = 0
      BY <2>4, <3>1, <3>3 DEF Mirror!Overtake, log, shown, view
    <3>. QED
      BY <3>2, <3>3
  <2>. QED
    BY <2>2, <2>8, <2>9, <2>10
<1>. HIDE DEF log, shown, view, L, E
<1>7. CASE Next
  <2>1. ASSUME NEW r \in Requests,
               (HookStore(r) /\ ~Collides(r)) \/ ChangeNextSave(r) \/ ExtendGraceSave(r)
        PROVE  \/ UNCHANGED <<log, shown, view, overtaken>>
               \/ \E k \in Keys : Mirror!Show(k) \/ Mirror!Overtake(k)
    <3>1. PICK k \in Keys, new \in Subscription :
              /\ k = req[r].key /\ SameEvent(req[r].copy, new) /\ Save(r, new)
              /\ Holds(r) \/ At(r, "store")
              /\ UNCHANGED events
      BY <2>1, SavesSame
    <3>. QED
      BY <1>6, <3>1
  <2>. QED
    BY <1>4, <1>5, <1>7, <2>1, MirrorMoves
       DEF Mirror!Next, Mirror!mirror, log, shown, view
<1>. QED
  BY <1>4, <1>7 DEF vars, stripe, tables, mishaps, Mirror!mirror, log, shown, view

\* The rows implement the mirror, with overlapping deliveries and events of one second: a
\* row shows a state its subscription really took, moves to newer ones, is taken back only
\* where it is noticed as overtaken, and stays so until it tells the newest event
\* (syncSubscription, changePlan, adminExtendGrace).
THEOREM ImplementsMirror == Spec => MirrorSpec
<1>1. Init => Mirror!Init
  <2>. SUFFICES ASSUME Init PROVE Mirror!Init
    OBVIOUS
  <2>1. BillingInv
    BY BillingInvInit, ConstantsAssumption
  <2>2. events = <<>> /\ overtaken = {} /\ \A k \in Keys : row[k].from = 0
    BY DEF Init, InitWith
  <2>3. \A k \in Keys : row[k].is \in Snapshot
    BY <2>1, RowTyped, NumbersTyped
  <2>. QED
    BY <2>2, <2>3 DEF Mirror!Init
<1>2. BillingInv /\ MirrorInv /\ BillingInv' /\ [Next]_vars => [Mirror!Next]_(Mirror!mirror)
  BY MirrorStep, ConstantsAssumption
<1>. QED
  BY <1>1, <1>2, MirrorInvAlways, PTL DEF Spec, MirrorSpec, Mirror!Spec
================================================================================
