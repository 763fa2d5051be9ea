-------------------------------- MODULE Billing --------------------------------
(***************************************************************************)
(* The subscriptions of one business account: Stripe, which holds the      *)
(* truth and reports it in events, the billing_subscriptions rows that     *)
(* copy it, and the payment attempts of the client.                        *)
(*                                                                         *)
(* Stripe is external.  It delivers every event at least once, in any      *)
(* order, and again until it is answered with a success.  An event says    *)
(* what the subscription was when it was sent, and in which second.        *)
(* A subscription and its first invoice are named by the idempotency key   *)
(* of the request that created them.  One action is one call of the        *)
(* database or of Stripe; save() writes back the whole row it was given.   *)
(***************************************************************************)
EXTENDS Integers, Sequences, FiniteSets

CONSTANTS
    Keys,          \* idempotency keys of the client, one per press of "subscribe"
    Plans,         \* the paid plans; a price is named by the plan it is of
    PlanOf,        \* the plan each key subscribes to
    NoPlan,
    Earlier,       \* keys whose subscription may be an old one, paid and copied long ago
    Requests,      \* the requests the server can work on at once
    Handlers,      \* the endpoints in use; with "overlap" requests that save a row
                   \* overlap, with "tie" two events may bear one second
    MaxEvents,     \* subscription events Stripe ever sends
    MaxFaults,     \* webhook calls that fail for a reason of their own
    MaxRestarts    \* crashes of the server

ASSUME ConstantsAssumption ==
    /\ IsFiniteSet(Keys) /\ Earlier \subseteq Keys
    /\ PlanOf \in [Keys -> Plans] /\ NoPlan \notin Plans
    /\ MaxEvents \in Nat /\ MaxFaults \in Nat /\ MaxRestarts \in Nat

VARIABLES
    remote,     \* Stripe: the subscriptions
    events,     \* Stripe: the subscription events sent, in the order of sending
    receipts,   \* Stripe: the payment events sent
    seen,       \* Stripe: the keys it has answered, and answers the same again
    row,        \* the billing_subscriptions table
    inbox,      \* the subscription_events table: the status of each event's row
    attempt,    \* the payment_attempts table
    req,        \* what each request is about to do, and what it has read
    faults, restarts,
    overtaken   \* (history) the subscriptions whose row a save took back to an older event
                \* than it told, and no save has brought forward again

stripe == <<remote, events, receipts, seen>>
tables == <<row, inbox, attempt>>
mishaps == <<faults, restarts, overtaken>>
vars == <<stripe, tables, req, mishaps>>

Statuses == {"none", "incomplete", "active", "past_due", "canceled"}
Changeable == {"active", "past_due"}      \* 'trialing' is treated as 'active' is

\* What an event tells of a subscription; "plan" is its metadata.
Snapshot == [status : Statuses, price : Plans \cup {NoPlan}, plan : Plans \cup {NoPlan},
             ends : {"never", "atPeriodEnd"}]

\* The n-th subscription event, or an event about the first invoice of a subscription.
Event == [kind : {"subscription"}, key : Keys, n : 1..MaxEvents]
    \cup [kind : {"paid", "declined"}, key : Keys, n : {0}]

\* "from" is a history: which event the row tells, 0 for what it said at first.
Subscription == [is : Snapshot, pending : Plans \cup {NoPlan}, grace : {"none", "given"},
                 last : 0..MaxEvents, from : 0..MaxEvents, born : 0..Cardinality(Keys)]

Steps == {"upsert", "find", "create", "change", "record", "findEvent", "insertEvent",
          "apply", "store", "done", "fail", "schedule", "savePending", "saveGrace"}

\* "key" is the client's, "on" the subscription found for it; only deliveries use "event".
\* "base" is a history: the event that the row told when the request read it.
Request == [at : Steps, key : Keys, on : Keys, copy : Subscription, base : 0..MaxEvents,
            event : Event, plan : Plans]
NoRequest == [at |-> "idle"]

Receipt(k, kind) == [kind |-> kind, key |-> k, n |-> 0]

Snap(status, plan) == [status |-> status, price |-> plan, plan |-> plan,
                       ends |-> "never"]
Unsubscribed == Snap("none", NoPlan)
NoRow == [is |-> Unsubscribed, pending |-> NoPlan, grace |-> "none", last |-> 0, from |-> 0,
          born |-> 0]

TypeOK ==
    /\ remote \in [Keys -> [is : Snapshot, next : Plans \cup {NoPlan}]]
    /\ events \in Seq([key : Keys, created : 1..MaxEvents, is : Snapshot])
    /\ Len(events) <= MaxEvents
    /\ receipts \subseteq Event
    /\ seen \subseteq Keys
    /\ row \in [Keys -> Subscription]
    /\ inbox \in [Event -> {"none", "processing", "processed", "failed"}]
    /\ attempt \in [Keys -> [outcome : {"none", "initiated", "requires_confirmation",
                                        "success", "declined"}, intent : {"unknown", "known"}]]
    /\ req \in [Requests -> Request \cup {NoRequest}]
    /\ faults \in 0..MaxFaults /\ restarts \in 0..MaxRestarts /\ overtaken \subseteq Keys

\* The state of a business without a subscription, or with one since long ago.
InitWith(old) ==
    LET now(k) == IF k \in old THEN Snap("active", PlanOf[k]) ELSE Unsubscribed IN
    /\ remote = [k \in Keys |-> [is |-> now(k), next |-> NoPlan]]
    /\ events = <<>> /\ seen = old
    /\ receipts = {Receipt(k, "paid") : k \in old}
    /\ row = [k \in Keys |-> [is |-> now(k), pending |-> NoPlan, grace |-> "none",
                              last |-> 0, from |-> 0,
                              born |-> IF k \in old THEN 1 ELSE 0]]
    /\ inbox = [e \in Event |-> IF e \in receipts THEN "processed" ELSE "none"]
    /\ attempt = [k \in Keys |-> [outcome |-> IF k \in old THEN "success" ELSE "none",
                                  intent |-> IF k \in old THEN "known"
                                                             ELSE "unknown"]]
    /\ req = [r \in Requests |-> NoRequest]
    /\ faults = 0 /\ restarts = 0 /\ overtaken = {}

Init == InitWith({}) \/ \E k \in Earlier : InitWith({k})
-------------------------------------------------------------------------------
(* Helpers. *)

At(r, step) == req[r].at = step
Move(r, step, on, copy) ==
    req' = [req EXCEPT ![r] = [at |-> step, key |-> req[r].key, on |-> on, copy |-> copy,
                               base |-> IF step = "store" THEN row[req[r].key].from
                                                          ELSE req[r].base,
                               event |-> req[r].event, plan |-> req[r].plan]]
Goto(r, step) == Move(r, step, req[r].on, req[r].copy)
Finish(r) == req' = [req EXCEPT ![r] = NoRequest]

\* Two requests that save subscriptions they have read overlap, unless a run excludes it.
Saves(r) == req[r].at \in {"findEvent", "insertEvent", "apply", "store", "done", "fail",
                           "schedule", "savePending", "saveGrace"}
MaySave == "overlap" \in Handlers \/ ~\E r \in Requests : Saves(r)

Start(r, step, k, copy, e, p) ==
    /\ req[r] = NoRequest
    /\ req' = [req EXCEPT ![r] = [at |-> step, key |-> k, on |-> k, copy |-> copy,
                                  base |-> copy.from, event |-> e, plan |-> p]]

Copied(k) == row[k].is.status # "none"

\* save() writes the whole row that the request holds.  That takes the row back where the
\* row tells a newer event: because it has changed since the request read it, or because
\* the two events bear one second and their order is lost.
LatestOf(k, n) == \A i \in DOMAIN events : events[i].key = k => i <= n
TakesBack(r, new) ==
    LET old == row[req[r].key] IN
    /\ new.from < old.from
    /\ req[r].base # old.from \/ new.last = old.last
Save(r, new) ==
    LET k == req[r].key IN
    /\ row' = [row EXCEPT ![k] = new]
    /\ overtaken' = IF LatestOf(k, new.from) THEN overtaken \ {k}
                    ELSE IF TakesBack(r, new) THEN overtaken \cup {k} ELSE overtaken
    /\ UNCHANGED <<faults, restarts>>

\* findOne(..., order: createdAt DESC)
Newest(k) == Copied(k) /\ \A j \in Keys : row[j].born <= row[k].born

NoEvent(k) == Receipt(k, "paid")

Sent(e) ==
    IF e.kind = "subscription" THEN e.n \in DOMAIN events /\ events[e.n].key = e.key
                               ELSE e \in receipts

\* Stripe's subscription k becomes s, and an event says so: in a later second than the
\* event before, or in the same one.
Unreachable == Len(events) = MaxEvents      \* the bound: from here on Stripe refuses
Now == IF events = <<>> THEN 0 ELSE events[Len(events)].created
Becomes(k, s, next) ==
    /\ ~Unreachable
    /\ \E second \in {Now + 1} \cup (IF "tie" \in Handlers THEN {Now} \ {0} ELSE {}) :
           events' = Append(events, [key |-> k, created |-> second, is |-> s])
    /\ remote' = [remote EXCEPT ![k] = [is |-> s, next |-> next]]

With(k, status) == [remote[k].is EXCEPT !.status = status]
-------------------------------------------------------------------------------
(* POST payments/subscriptions/init-sheet. *)

\* A key whose payment intent is known is refused.
InitStart(r, k) ==
    /\ "init" \in Handlers
    /\ attempt[k].intent = "unknown"
    /\ Start(r, "upsert", k, NoRow, NoEvent(k), PlanOf[k])
    /\ UNCHANGED <<stripe, tables, mishaps>>

InitUpsert(r) ==
    /\ At(r, "upsert")
    /\ attempt' = [attempt EXCEPT ![req[r].key].outcome = "initiated"]
    /\ Goto(r, "find")
    /\ UNCHANGED <<stripe, row, inbox, mishaps>>

InitFind(r) ==
    /\ At(r, "find")
    /\ \/ \E k \in Keys :
              /\ Newest(k) /\ row[k].is.status \in Changeable
              /\ Move(r, "change", k, req[r].copy)
       \/ /\ ~\E k \in Keys : Newest(k) /\ row[k].is.status \in Changeable
          /\ Goto(r, "create")
    /\ UNCHANGED <<stripe, tables, mishaps>>

\* subscriptions.create: Stripe answers a key it has seen as it did the first time.
InitCreate(r) ==
    LET k == req[r].key
        s == Snap("incomplete", PlanOf[k])
    IN  /\ At(r, "create")
        /\ IF k \in seen
           THEN /\ IF remote[k].is.status = "none" THEN Finish(r) ELSE Goto(r, "record")
                /\ UNCHANGED stripe
           ELSE IF Unreachable THEN Finish(r) /\ UNCHANGED stripe
           ELSE /\ Becomes(k, s, NoPlan)
                /\ seen' = seen \cup {k}
                /\ Goto(r, "record")
                /\ UNCHANGED receipts
        /\ UNCHANGED <<tables, mishaps>>

\* subscriptions.update moves the price and leaves the metadata; its answer holds no
\* expanded invoice, hence no payment secret, and the request ends in an error.
InitChange(r) ==
    LET k == req[r].on
        s == [remote[k].is EXCEPT !.price = PlanOf[req[r].key]]
    IN  /\ At(r, "change")
        /\ IF ~Unreachable /\ req[r].key \notin seen /\ remote[k].is.status \in Changeable
           THEN /\ Becomes(k, s, remote[k].next)
                /\ seen' = seen \cup {req[r].key}
                /\ UNCHANGED receipts
           ELSE UNCHANGED stripe
        /\ Finish(r)
        /\ UNCHANGED <<tables, mishaps>>

InitRecord(r) ==
    /\ At(r, "record")
    /\ attempt' = [attempt EXCEPT ![req[r].key] =
           [outcome |-> "requires_confirmation", intent |-> "known"]]
    /\ Finish(r)
    /\ UNCHANGED <<stripe, row, inbox, mishaps>>
-------------------------------------------------------------------------------
(* Changing, ending and keeping a subscription: Stripe is told, and the row follows   *)
(* when the event comes back.                                                         *)

ChangeNow(k, p) ==
    LET now == remote[k].is IN
    /\ "change" \in Handlers
    /\ Newest(k) /\ now.status \in Changeable
    /\ Becomes(k, [status |-> now.status, price |-> p, plan |-> p, ends |-> now.ends],
               remote[k].next)
    /\ UNCHANGED <<receipts, seen, tables, req, mishaps>>

\* At the next renewal instead: the row is read first and saved last.
ChangeNextStart(r, k, p) ==
    /\ "next" \in Handlers /\ MaySave
    /\ Newest(k) /\ remote[k].is.status \in Changeable
    /\ Start(r, "schedule", k, row[k], NoEvent(k), p)
    /\ UNCHANGED <<stripe, tables, mishaps>>

ChangeNextSchedule(r) ==
    LET k == req[r].key IN
    /\ At(r, "schedule")
    /\ IF remote[k].is.status \in Changeable
       THEN remote' = [remote EXCEPT ![k].next = req[r].plan] /\ Goto(r, "savePending")
       ELSE Finish(r) /\ UNCHANGED remote
    /\ UNCHANGED <<events, receipts, seen, tables, mishaps>>

ChangeNextSave(r) ==
    /\ At(r, "savePending")
    /\ Save(r, [req[r].copy EXCEPT !.pending = req[r].plan])
    /\ Finish(r)
    /\ UNCHANGED <<stripe, inbox, attempt>>

\* The customer's own is the newest; an administrator may name any.
Cancel(k, atPeriodEnd) ==
    LET now == remote[k].is IN
    /\ "cancel" \in Handlers
    /\ Copied(k) /\ now.status # "canceled"
    /\ atPeriodEnd => now.ends = "never"
    /\ Becomes(k, IF atPeriodEnd THEN [now EXCEPT !.ends = "atPeriodEnd"]
                                 ELSE With(k, "canceled"), remote[k].next)
    /\ UNCHANGED <<receipts, seen, tables, req, mishaps>>

Reactivate(k) ==
    /\ "cancel" \in Handlers
    /\ Copied(k) /\ remote[k].is.status # "canceled" /\ remote[k].is.ends = "atPeriodEnd"
    /\ Becomes(k, [remote[k].is EXCEPT !.ends = "never"], remote[k].next)
    /\ UNCHANGED <<receipts, seen, tables, req, mishaps>>

ExtendGraceStart(r, k) ==
    /\ "grace" \in Handlers /\ MaySave
    /\ Copied(k)
    /\ Start(r, "saveGrace", k, row[k], NoEvent(k), PlanOf[k])
    /\ UNCHANGED <<stripe, tables, mishaps>>

ExtendGraceSave(r) ==
    /\ At(r, "saveGrace")
    /\ Save(r, [req[r].copy EXCEPT !.grace = "given"])
    /\ Finish(r)
    /\ UNCHANGED <<stripe, inbox, attempt>>
-------------------------------------------------------------------------------
(* Slips of the code below: PROJECT.json names the property that refuses each. *)

\* Any row of an event means that it was delivered before.
HookStartOnce(r, e) ==
    /\ Sent(e) /\ inbox[e] = "none"
    /\ MaySave
    /\ Start(r, "findEvent", e.key, NoRow, e, PlanOf[e.key])
    /\ UNCHANGED <<stripe, tables, mishaps>>

\* A subscription whose first payment is under way counts as active.
SyncedEarly(old, n) ==
    LET sent == events[n] IN
    [is |-> IF sent.is.status = "incomplete" THEN [sent.is EXCEPT !.status = "active"]
                                             ELSE sent.is,
     pending |-> old.pending, grace |-> "none", last |-> sent.created, from |-> n,
     born |-> old.born]

\* cancelAtPeriodEnd is not copied.
SyncedWithoutEnd(old, n) ==
    LET sent == events[n] IN
    [is |-> [sent.is EXCEPT !.ends = old.is.ends],
     pending |-> old.pending, grace |-> "none", last |-> sent.created, from |-> n,
     born |-> old.born]

\* The age of the row is not looked at.
HookSyncUnordered(r) ==
    LET e == req[r].event IN
    /\ At(r, "apply") /\ e.kind = "subscription"
    /\ Move(r, "store", req[r].on,
            [is |-> events[e.n].is, pending |-> NoPlan, grace |-> "none",
             last |-> events[e.n].created, from |-> e.n, born |-> row[e.key].born])
    /\ UNCHANGED <<stripe, tables, mishaps>>

-------------------------------------------------------------------------------
(* POST payments/webhooks/stripe: processEvent, syncSubscription, updateAttempt. *)

\* An event that has been processed is answered at once and changes nothing.
HookStart(r, e) ==
    /\ Sent(e) /\ inbox[e] # "processed"
    /\ MaySave
    /\ Start(r, "findEvent", e.key, NoRow, e, PlanOf[e.key])
    /\ UNCHANGED <<stripe, tables, mishaps>>

HookFind(r) ==
    /\ At(r, "findEvent")
    /\ Goto(r, IF inbox[req[r].event] = "none" THEN "insertEvent" ELSE "apply")
    /\ UNCHANGED <<stripe, tables, mishaps>>

\* stripeEventId is unique: the second of two first deliveries ends in an error.
HookInsert(r) ==
    LET e == req[r].event IN
    /\ At(r, "insertEvent")
    /\ IF inbox[e] = "none"
       THEN inbox' = [inbox EXCEPT ![e] = "processing"] /\ Goto(r, "apply")
       ELSE Finish(r) /\ UNCHANGED inbox
    /\ UNCHANGED <<stripe, row, attempt, mishaps>>

\* What syncSubscription makes of the row it has read.
Synced(old, n) ==
    LET sent == events[n] IN
    [is |-> sent.is,
     pending |-> IF old.pending = sent.is.price THEN NoPlan ELSE old.pending,
     grace |-> IF sent.is.status = "past_due" THEN "given" ELSE "none",
     last |-> sent.created, from |-> n, born |-> old.born]

\* An event older than the row is reported stale and skipped.
HookSync(r) ==
    LET e == req[r].event IN
    /\ At(r, "apply") /\ e.kind = "subscription"
    /\ IF row[e.key].last > events[e.n].created
       THEN Goto(r, "done")
       ELSE Move(r, "store", req[r].on, Synced(row[e.key], e.n))
    /\ UNCHANGED <<stripe, tables, mishaps>>

\* stripeSubscriptionId is unique: of two that found no row one fails.
Collides(r) == req[r].copy.born = 0 /\ Copied(req[r].key)
HookStore(r) ==
    LET k == req[r].key
        born == IF Copied(k) THEN row[k].born
                             ELSE 1 + Cardinality({j \in Keys : Copied(j)})
    IN  /\ At(r, "store")
        /\ IF Collides(r)
           THEN Goto(r, "fail") /\ UNCHANGED <<row, mishaps>>
           ELSE Save(r, [req[r].copy EXCEPT !.born = born]) /\ Goto(r, "done")
        /\ UNCHANGED <<stripe, inbox, attempt>>

\* update({stripePaymentIntentId}): no attempt may know the intent yet.
HookAttempt(r) ==
    LET e == req[r].event IN
    /\ At(r, "apply") /\ e.kind # "subscription"
    /\ attempt' = IF attempt[e.key].intent = "unknown" THEN attempt ELSE
           [attempt EXCEPT ![e.key].outcome =
               IF e.kind = "paid" THEN "success" ELSE "declined"]
    /\ Goto(r, "done")
    /\ UNCHANGED <<stripe, row, inbox, mishaps>>

HookFault(r) ==
    /\ req[r].at \in {"apply", "store"}
    /\ faults < MaxFaults
    /\ faults' = faults + 1
    /\ Goto(r, "fail")
    /\ UNCHANGED <<stripe, tables, restarts, overtaken>>

HookDone(r) ==
    /\ At(r, "done")
    /\ inbox' = [inbox EXCEPT ![req[r].event] = "processed"]
    /\ Finish(r)
    /\ UNCHANGED <<stripe, row, attempt, mishaps>>

HookFail(r) ==
    /\ At(r, "fail")
    /\ inbox' = [inbox EXCEPT ![req[r].event] = "failed"]
    /\ Finish(r)
    /\ UNCHANGED <<stripe, row, attempt, mishaps>>
-------------------------------------------------------------------------------
(* Stripe on its own. *)

Payable(k) == attempt[k].intent = "known" /\ remote[k].is.status = "incomplete"

StripeCharges(k) ==
    /\ Payable(k)
    /\ receipts' = receipts \cup {Receipt(k, "paid")}
    /\ Becomes(k, With(k, "active"), remote[k].next)
    /\ UNCHANGED <<seen, tables, req, mishaps>>

StripeDeclines(k) ==
    /\ Payable(k)
    /\ Receipt(k, "declined") \notin receipts
    /\ receipts' = receipts \cup {Receipt(k, "declined")}
    /\ UNCHANGED <<remote, events, seen, tables, req, mishaps>>

\* At a renewal: it fails, succeeds after all, ends, or brings the scheduled price.
StripeRenews(k) ==
    LET now == remote[k].is IN
    /\ \/ now.status = "active" /\ now.ends = "never"
          /\ Becomes(k, With(k, "past_due"), remote[k].next)
       \/ now.status = "past_due" /\ Becomes(k, With(k, "active"), remote[k].next)
       \/ /\ \/ now.status \in {"incomplete", "past_due"}
             \/ now.status = "active" /\ now.ends = "atPeriodEnd"
          /\ Becomes(k, With(k, "canceled"), NoPlan)
       \/ now.status = "active" /\ now.ends = "never" /\ remote[k].next # NoPlan
          /\ Becomes(k, [now EXCEPT !.price = remote[k].next], NoPlan)
    /\ UNCHANGED <<receipts, seen, tables, req, mishaps>>
-------------------------------------------------------------------------------
\* The process stops: what it was working on is forgotten, the tables stay.
Restart ==
    /\ restarts < MaxRestarts
    /\ restarts' = restarts + 1
    /\ req' = [r \in Requests |-> NoRequest]
    /\ UNCHANGED <<stripe, tables, faults, overtaken>>

Begin(r) ==
    \E k \in Keys :
        \/ InitStart(r, k) \/ ExtendGraceStart(r, k)
        \/ \E p \in Plans : ChangeNextStart(r, k, p)

Continue(r) ==
    \/ InitUpsert(r) \/ InitFind(r) \/ InitCreate(r) \/ InitChange(r) \/ InitRecord(r)
    \/ ChangeNextSchedule(r) \/ ChangeNextSave(r) \/ ExtendGraceSave(r)
    \/ HookFind(r) \/ HookInsert(r) \/ HookSync(r) \/ HookStore(r) \/ HookAttempt(r)
    \/ HookDone(r) \/ HookFail(r)

Deliver(e) == \E r \in Requests : HookStart(r, e)

Next ==
    \/ \E r \in Requests : Begin(r) \/ Continue(r) \/ HookFault(r)
    \/ \E e \in Event : Deliver(e)
    \/ \E k \in Keys :
           \/ \E p \in Plans : ChangeNow(k, p)
           \/ \E atPeriodEnd \in BOOLEAN : Cancel(k, atPeriodEnd)
           \/ Reactivate(k) \/ StripeCharges(k) \/ StripeDeclines(k) \/ StripeRenews(k)
    \/ Restart

\* A begun request runs to its end, and Stripe delivers an event again and again until it
\* is answered.
Spec ==
    /\ Init /\ [][Next]_vars
    /\ \A r \in Requests : WF_vars(Continue(r))
    /\ \A e \in Event : SF_vars(Deliver(e))
-------------------------------------------------------------------------------
(* Properties. *)

Premium(k) ==
    \/ row[k].is.status = "active"
    \/ row[k].is.status = "past_due" /\ row[k].grace = "given"

\* A business has the rights of a paid plan only through a subscription whose first
\* invoice was paid, however its events, scheduled changes and extensions interleave
\* (EntitlementService.isPremiumState over the rows syncSubscription writes).
PremiumWasPaid == \A k \in Keys : Premium(k) => Receipt(k, "paid") \in receipts

\* Every event Stripe sends is processed in the end: an event whose delivery failed,
\* collided with another or was cut off by a crash is not mistaken for a duplicate
\* (BillingService.processEvent).
EventsLand == \A e \in Event : Sent(e) ~> inbox[e] = "processed"

\* When all events of a subscription have been processed, in whatever order they came,
\* the row says what Stripe says, unless a save took it back to an older event and none
\* has told the newest one since: a save of a copy that another save had overtaken, or the
\* older of two events of one second (BillingService.syncSubscription, changePlan,
\* adminExtendGrace).
Settled(k) == \A e \in Event : Sent(e) /\ e.key = k => inbox[e] = "processed"
DriftHasACause == \A k \in Keys : Settled(k) => row[k].is = remote[k].is \/ k \in overtaken

\* The same without the exception, as a test has it: 'does not let an older subscription
\* event overwrite newer state' (BillingService.syncSubscription).
MirrorsStripe == \A k \in Keys : Settled(k) => row[k].is = remote[k].is

\* The row goes through states its subscription really took.  It goes back only where it
\* is overtaken, and is overtaken only until it tells the newest event again (StripeMirror).
Mirror == INSTANCE StripeMirror WITH
    States <- Snapshot,
    log <- [i \in DOMAIN events |-> [key |-> events[i].key, state |-> events[i].is]],
    shown <- [k \in Keys |-> row[k].from],
    view <- [k \in Keys |-> row[k].is],
    astray <- overtaken
MirrorSpec == Mirror!Spec
================================================================================
