------------------------------ MODULE Redemption ------------------------------
(***************************************************************************)
(* Claiming a voucher for an offer and redeeming it: by the customer       *)
(* (POST :id/redeem, POST redeem-by-code) or by a worker's scan at the     *)
(* venue, while the business edits the offer.  Every handler is a sequence *)
(* of awaited database calls; each call is one action, and requests        *)
(* interleave between them.  A row saved with repository.save() is written *)
(* back as it was read, so an old copy overwrites what others wrote since. *)
(*                                                                         *)
(* The clock is not a variable.  Whatever it can refuse (an expired QR     *)
(* token, an offer outside its hours) is refused before anything is        *)
(* written, so a refused request is a step that changes nothing.           *)
(***************************************************************************)
EXTENDS Integers, Sequences, FiniteSets

F == INSTANCE Functions

CONSTANTS
    Vouchers,     \* the ids claims can still hand out (bounds the claims)
    NoVoucher,
    Users,
    Offers,       \* the offers of one venue
    Requests,     \* the requests the server can work on at once
    Holder,       \* the user each voucher is claimed by
    OfferOf,      \* the offer each voucher is claimed for
    MaxOf,        \* maxRedemptions an offer starts with, 0 = unlimited
    Handlers,     \* the endpoints in use
    Limits,       \* the values updateOffer may give maxRedemptions
    MaxEdits,     \* offer edits in flight at once
    MaxServes,    \* customer redemptions started per voucher
    MaxRestarts   \* server restarts

ASSUME ConstantsAssumption ==
    /\ IsFiniteSet(Vouchers)
    /\ NoVoucher \notin Vouchers
    /\ Holder \in [Vouchers -> Users]
    /\ OfferOf \in [Vouchers -> Offers]
    /\ MaxOf \in [Offers -> Nat]
    /\ Limits \subseteq Nat
    /\ MaxEdits \in Nat /\ MaxServes \in Nat /\ MaxRestarts \in Nat

VARIABLES
    offer,     \* the offers table
    voucher,   \* the redemptions table
    rows,      \* redemptions column of the venue's venue_analytics rows of today
    req,       \* what each request is about to do, and what it has read
    edits,     \* offer edits that have read the offer and not yet saved it
    audit,     \* vouchers with an OFFER_REDEEM line in the activity log
    served,    \* history: how many of the offer's places a voucher has taken
    lost,      \* history: vouchers whose scan a restart cut off before its count
    restarts

vars == <<offer, voucher, rows, req, edits, audit, served, lost, restarts>>

OfferRow == [active : BOOLEAN, deleted : BOOLEAN, count : Nat, max : Nat]
VoucherRow == [status : {"none", "active", "redeemed"}, qr : {"empty", "signed"}]
Edit == [to : {"on", "off", "delete"}, offer : Offers, snap : OfferRow]

ClaimSteps == {"findClaim", "insertClaim", "signClaim"}
SelfSteps == {"load", "bump", "readRow", "writeRow", "saveVoucher"}
ScanSteps == {"mark", "count", "revert", "readRow", "writeRow", "audit"}

Request == [kind : {"none", "claim", "self", "scan", "click"},
            at : {"idle"} \cup ClaimSteps \cup SelfSteps \cup ScanSteps,
            v : Vouchers \cup {NoVoucher},
            qr : {"empty", "signed"},
            row : Nat, seen : Nat]

Idle == [kind |-> "none", at |-> "idle", v |-> NoVoucher,
         qr |-> "empty", row |-> 0, seen |-> 0]

TypeOK ==
    /\ offer \in [Offers -> OfferRow]
    /\ voucher \in [Vouchers -> VoucherRow]
    /\ rows \in Seq(Nat)
    /\ req \in [Requests -> Request]
    /\ \A r \in Requests :
           req[r].kind \in {"claim", "self", "scan"} => req[r].v \in Vouchers
    /\ edits \subseteq Edit
    /\ audit \subseteq Vouchers
    /\ served \in [Vouchers -> Nat]
    /\ lost \subseteq Vouchers
    /\ restarts \in 0..MaxRestarts

Init ==
    /\ offer = [o \in Offers |->
           [active |-> TRUE, deleted |-> FALSE, count |-> 0, max |-> MaxOf[o]]]
    /\ voucher = [v \in Vouchers |-> [status |-> "none", qr |-> "empty"]]
    /\ rows = <<>>
    /\ req = [r \in Requests |-> Idle]
    /\ edits = {}
    /\ audit = {}
    /\ served = [v \in Vouchers |-> 0]
    /\ lost = {}
    /\ restarts = 0
-------------------------------------------------------------------------------
(* Helpers. *)

\* isOfferAvailableNow, but for the day and time window.
Available(f) == f.active /\ ~f.deleted /\ (f.max > 0 => f.count < f.max)

HasActiveClaim(u, o) ==
    \E v \in Vouchers : /\ Holder[v] = u /\ OfferOf[v] = o
                        /\ voucher[v].status = "active"

Reserved(v) == \E r \in Requests : req[r].kind = "claim" /\ req[r].v = v

Start(r, kind, step, v) ==
    /\ req[r] = Idle
    /\ req' = [req EXCEPT ![r] = [kind |-> kind, at |-> step, v |-> v,
                                  qr |-> "empty", row |-> 0, seen |-> 0]]

At(r, step) == req[r].at = step
Goto(r, step) == req' = [req EXCEPT ![r].at = step]
Finish(r) == req' = [req EXCEPT ![r] = Idle]

\* Goes on to a step with what the request has just read.
Remember(r, step, qr, row, seen) ==
    req' = [req EXCEPT ![r] = [kind |-> req[r].kind, at |-> step, v |-> req[r].v,
                               qr |-> qr, row |-> row, seen |-> seen]]

TakePlace(v) ==
    /\ offer' = [offer EXCEPT ![OfferOf[v]].count = @ + 1]
    /\ served' = [served EXCEPT ![v] = @ + 1]

others == <<edits, audit, served, lost, restarts>>
-------------------------------------------------------------------------------
(* Slips of the code below, each refused by a property: see PROJECT.json. *)

\* The customer's voucher is saved before its place is counted.
RedeemLoadMarks(r) ==
    /\ At(r, "load")
    /\ IF voucher[req[r].v].status = "active"
       THEN /\ voucher' = [voucher EXCEPT ![req[r].v].status = "redeemed"]
            /\ Remember(r, "bump", voucher[req[r].v].qr, 0, 0)
       ELSE Finish(r) /\ UNCHANGED voucher
    /\ UNCHANGED <<offer, rows, others>>

\* The cap counts redemptions in the service and again in the controller.
RedeemBumpTwice(r) ==
    /\ At(r, "bump")
    /\ offer' = [offer EXCEPT ![OfferOf[req[r].v]].count = @ + 2]
    /\ served' = [served EXCEPT ![req[r].v] = @ + 1]
    /\ Goto(r, "readRow")
    /\ UNCHANGED <<voucher, rows, edits, audit, lost, restarts>>

\* The scan accepts a voucher that has no QR token yet.
ScanStartUnsigned(r, v) ==
    /\ "scan" \in Handlers
    /\ voucher[v].status = "active"
    /\ Available(offer[OfferOf[v]])
    /\ Start(r, "scan", "mark", v)
    /\ UNCHANGED <<offer, voucher, rows, others>>

\* The mark is an UPDATE by id alone.
ScanMarkById(r) ==
    /\ At(r, "mark")
    /\ voucher' = [voucher EXCEPT ![req[r].v].status = "redeemed"]
    /\ Goto(r, "count")
    /\ UNCHANGED <<offer, rows, others>>

\* The redemption is logged as soon as the voucher is marked.
ScanMarkAndLog(r) ==
    /\ At(r, "mark")
    /\ voucher[req[r].v].status = "active"
    /\ voucher' = [voucher EXCEPT ![req[r].v].status = "redeemed"]
    /\ audit' = audit \cup {req[r].v}
    /\ Goto(r, "count")
    /\ UNCHANGED <<offer, rows, edits, served, lost, restarts>>

\* The cap is off by one.
ScanCountOneMore(r) ==
    /\ At(r, "count")
    /\ LET f == offer[OfferOf[req[r].v]] IN
       IF f.max = 0 \/ f.count <= f.max
       THEN TakePlace(req[r].v) /\ Goto(r, "readRow")
       ELSE Goto(r, "revert") /\ UNCHANGED <<offer, served>>
    /\ UNCHANGED <<voucher, rows, edits, audit, lost, restarts>>

\* A full offer is waited for instead of compensated.
ScanCountWaiting(r) ==
    /\ At(r, "count")
    /\ LET f == offer[OfferOf[req[r].v]] IN f.max = 0 \/ f.count < f.max
    /\ TakePlace(req[r].v)
    /\ Goto(r, "readRow")
    /\ UNCHANGED <<voucher, rows, edits, audit, lost, restarts>>

\* A click is added to the redemptions column.
AnalyticWriteAlways(r) ==
    /\ At(r, "writeRow")
    /\ rows' = IF req[r].row = 0 THEN Append(rows, req[r].seen + 1)
                                 ELSE [rows EXCEPT ![req[r].row] = req[r].seen + 1]
    /\ CASE req[r].kind = "self" -> Goto(r, "saveVoucher")
         [] req[r].kind = "scan" -> Goto(r, "audit")
         [] OTHER -> Finish(r)
    /\ UNCHANGED <<offer, voucher, others>>
-------------------------------------------------------------------------------
(* POST offers/:id/claim *)

\* Reads the offer.  The id the claim will insert is fixed here, not at the insert.
ClaimStart(r, v) ==
    /\ "claim" \in Handlers
    /\ voucher[v].status = "none" /\ ~Reserved(v)
    /\ Available(offer[OfferOf[v]])
    /\ Start(r, "claim", "findClaim", v)
    /\ UNCHANGED <<offer, voucher, rows, others>>

ClaimFind(r) ==
    /\ At(r, "findClaim")
    /\ IF HasActiveClaim(Holder[req[r].v], OfferOf[req[r].v])
       THEN Finish(r)
       ELSE Goto(r, "insertClaim")
    /\ UNCHANGED <<offer, voucher, rows, others>>

ClaimInsert(r) ==
    /\ At(r, "insertClaim")
    /\ voucher' = [voucher EXCEPT ![req[r].v] = [status |-> "active", qr |-> "empty"]]
    /\ Goto(r, "signClaim")
    /\ UNCHANGED <<offer, rows, others>>

\* The second save writes the row back as the first one returned it, plus the QR token.
ClaimSign(r) ==
    /\ At(r, "signClaim")
    /\ voucher' = [voucher EXCEPT ![req[r].v] = [status |-> "active", qr |-> "signed"]]
    /\ Finish(r)
    /\ UNCHANGED <<offer, rows, others>>
-------------------------------------------------------------------------------
(* POST offers/:id/redeem and POST offers/redeem-by-code *)

\* The controller's own read of the voucher.  The offer's hours and cap are not checked.
RedeemStart(r, v) ==
    /\ "redeem" \in Handlers
    /\ served[v] < MaxServes
    /\ voucher[v].status = "active"
    /\ Start(r, "self", "load", v)
    /\ UNCHANGED <<offer, voucher, rows, others>>

\* By code, the voucher is read together with its own offer, which must be available.
RedeemByCodeStart(r, v) ==
    /\ "redeemByCode" \in Handlers
    /\ served[v] < MaxServes
    /\ voucher[v].status = "active"
    /\ Available(offer[OfferOf[v]])
    /\ Start(r, "self", "load", v)
    /\ UNCHANGED <<offer, voucher, rows, others>>

RedeemLoad(r) ==
    /\ At(r, "load")
    /\ IF voucher[req[r].v].status = "active"
       THEN Remember(r, "bump", voucher[req[r].v].qr, 0, 0)
       ELSE Finish(r)
    /\ UNCHANGED <<offer, voucher, rows, others>>

RedeemBump(r) ==
    /\ At(r, "bump")
    /\ TakePlace(req[r].v)
    /\ Goto(r, "readRow")
    /\ UNCHANGED <<voucher, rows, edits, audit, lost, restarts>>

\* Saved last, from the copy RedeemLoad read.
RedeemSave(r) ==
    /\ At(r, "saveVoucher")
    /\ voucher' = [voucher EXCEPT ![req[r].v] =
                      [status |-> "redeemed", qr |-> req[r].qr]]
    /\ Finish(r)
    /\ UNCHANGED <<offer, rows, others>>
-------------------------------------------------------------------------------
(* POST worker/venues/:venueId/redemptions/scan, by a worker of the voucher's venue *)

ScanStart(r, v) ==
    /\ "scan" \in Handlers
    /\ voucher[v].status = "active" /\ voucher[v].qr = "signed"
    /\ Available(offer[OfferOf[v]])
    /\ Start(r, "scan", "mark", v)
    /\ UNCHANGED <<offer, voucher, rows, others>>

\* One UPDATE ... WHERE status = ACTIVE: the database picks one winner.
ScanMark(r) ==
    /\ At(r, "mark")
    /\ IF voucher[req[r].v].status = "active"
       THEN /\ voucher' = [voucher EXCEPT ![req[r].v].status = "redeemed"]
            /\ Goto(r, "count")
       ELSE /\ Finish(r)
            /\ UNCHANGED voucher
    /\ UNCHANGED <<offer, rows, others>>

\* One UPDATE ... WHERE maxRedemptions = 0 OR redemptionCount < maxRedemptions.
ScanCount(r) ==
    /\ At(r, "count")
    /\ LET f == offer[OfferOf[req[r].v]] IN
       IF f.max = 0 \/ f.count < f.max
       THEN TakePlace(req[r].v) /\ Goto(r, "readRow")
       ELSE Goto(r, "revert") /\ UNCHANGED <<offer, served>>
    /\ UNCHANGED <<voucher, rows, edits, audit, lost, restarts>>

\* Compensation: the mark is taken back and the scan fails.
ScanRevert(r) ==
    /\ At(r, "revert")
    /\ voucher' = [voucher EXCEPT ![req[r].v].status =
                      IF @ = "redeemed" THEN "active" ELSE @]
    /\ Finish(r)
    /\ UNCHANGED <<offer, rows, others>>

ScanAudit(r) ==
    /\ At(r, "audit")
    /\ audit' = audit \cup {req[r].v}
    /\ Finish(r)
    /\ UNCHANGED <<offer, voucher, rows, edits, served, lost, restarts>>
-------------------------------------------------------------------------------
(* incrementAnalytic: read today's row, or make one, and save it whole.  POST       *)
(* offers/:id/click saves the same row for its own column, offerClicks.             *)

ClickStart(r) ==
    /\ "click" \in Handlers
    /\ Start(r, "click", "readRow", NoVoucher)
    /\ UNCHANGED <<offer, voucher, rows, others>>

\* No unique index on (venueId, date): findOne returns any row of today.
AnalyticRead(r) ==
    /\ At(r, "readRow")
    /\ \/ rows = <<>> /\ Remember(r, "writeRow", req[r].qr, 0, 0)
       \/ \E i \in DOMAIN rows : Remember(r, "writeRow", req[r].qr, i, rows[i])
    /\ UNCHANGED <<offer, voucher, rows, others>>

AnalyticWrite(r) ==
    /\ At(r, "writeRow")
    /\ LET new == req[r].seen + (IF req[r].kind = "click" THEN 0 ELSE 1) IN
       rows' = IF req[r].row = 0 THEN Append(rows, new)
                                 ELSE [rows EXCEPT ![req[r].row] = new]
    /\ CASE req[r].kind = "self" -> Goto(r, "saveVoucher")
         [] req[r].kind = "scan" -> Goto(r, "audit")
         [] OTHER -> Finish(r)
    /\ UNCHANGED <<offer, voucher, others>>
-------------------------------------------------------------------------------
(* The business edits its offers. *)

\* toggleOffer and deleteOffer read the offer, check its owner, and save it whole.
EditRead(o, to) ==
    /\ IF to = "delete" THEN "delete" \in Handlers ELSE "toggle" \in Handlers
    /\ Cardinality(edits) < MaxEdits
    /\ edits' = edits \cup {[to |-> to, offer |-> o, snap |-> offer[o]]}
    /\ UNCHANGED <<offer, voucher, rows, req, audit, served, lost, restarts>>

\* A toggle made offline and synced later, refused once the offer has expired.
SyncToggleRead(o, to) ==
    /\ "syncToggle" \in Handlers
    /\ to # "delete"
    /\ ~offer[o].deleted
    /\ Cardinality(edits) < MaxEdits
    /\ edits' = edits \cup {[to |-> to, offer |-> o, snap |-> offer[o]]}
    /\ UNCHANGED <<offer, voucher, rows, req, audit, served, lost, restarts>>

\* Deleting is switching off and setting expiresAt to now.
EditSave(e) ==
    /\ offer' = [offer EXCEPT ![e.offer] =
           [active |-> e.to = "on", deleted |-> e.snap.deleted \/ e.to = "delete",
            count |-> e.snap.count, max |-> e.snap.max]]
    /\ edits' = edits \ {e}
    /\ UNCHANGED <<voucher, rows, req, audit, served, lost, restarts>>

\* updateOffer writes only the columns it is given: here the cap and expiresAt.
UpdateOffer(o, max, reopen) ==
    /\ "update" \in Handlers
    /\ offer' = [offer EXCEPT ![o].max = max, ![o].deleted = @ /\ ~reopen]
    /\ UNCHANGED <<voucher, rows, req, edits, audit, served, lost, restarts>>
-------------------------------------------------------------------------------
MarkPending(v) ==
    \E r \in Requests : req[r].kind = "scan" /\ req[r].v = v
                        /\ req[r].at \in {"count", "revert"}

\* The process dies and every request with it; only the tables survive.
Restart ==
    /\ restarts < MaxRestarts
    /\ restarts' = restarts + 1
    /\ req' = [r \in Requests |-> Idle]
    /\ edits' = {}
    /\ lost' = lost \cup {v \in Vouchers : MarkPending(v)}
    /\ UNCHANGED <<offer, voucher, rows, audit, served>>

\* The next database call of a request that has begun.
Continue(r) ==
    \/ ClaimFind(r) \/ ClaimInsert(r) \/ ClaimSign(r)
    \/ RedeemLoad(r) \/ RedeemBump(r) \/ RedeemSave(r)
    \/ ScanMark(r) \/ ScanCount(r) \/ ScanRevert(r) \/ ScanAudit(r)
    \/ AnalyticRead(r) \/ AnalyticWrite(r)

Begin(r) ==
    \/ ClickStart(r)
    \/ \E v \in Vouchers : \/ ClaimStart(r, v)
                           \/ RedeemStart(r, v)
                           \/ RedeemByCodeStart(r, v)
                           \/ ScanStart(r, v)

EditOffer ==
    \/ \E o \in Offers, to \in {"on", "off", "delete"} :
           EditRead(o, to) \/ SyncToggleRead(o, to)
    \/ \E e \in edits : EditSave(e)
    \/ \E o \in Offers, max \in Limits, reopen \in BOOLEAN : UpdateOffer(o, max, reopen)

Next ==
    \/ \E r \in Requests : Begin(r) \/ Continue(r)
    \/ EditOffer
    \/ Restart

\* Clients may stop sending; a request the server has begun goes on to its end.
Spec == Init /\ [][Next]_vars /\ \A r \in Requests : WF_vars(Continue(r))
-------------------------------------------------------------------------------
(* Properties. *)

Redeemed == {v \in Vouchers : voucher[v].status = "redeemed"}

\* The vouchers that count as used: redeemed, and not by a mark still undecided or one
\* that a restart cut off before its place was taken.
Used == {v \in Redeemed : ~MarkPending(v) /\ v \notin lost}
UsedOf(o) == {v \in Used : OfferOf[v] = o}

\* A voucher takes at most one of its offer's places, however many scans and
\* redemptions of it are under way (redeemOfferByWorker, redeemOffer).
SingleUse == \A v \in Vouchers : served[v] <= 1

\* redemptionCount never passes maxRedemptions, whichever scans race for the last place.
CapRespected ==
    \A o \in Offers : offer[o].max > 0 => offer[o].count <= offer[o].max

\* The two tables agree: an offer's redemptionCount is the number of its used vouchers,
\* so no increment is lost, repeated, or left behind by a scan compensated or cut off.
CountExact == \A o \in Offers : offer[o].count = Cardinality(UsedOf(o))

\* No voucher shows as redeemed without having taken a place, except while a scan is
\* between its mark and its count, or after a restart killed it there.
NoFreeRedemption ==
    \A v \in Redeemed : served[v] > 0 \/ MarkPending(v) \/ v \in lost

\* The activity log never records a redemption that did not happen or was taken back.
AuditTruthful == \A v \in audit : v \in Redeemed /\ served[v] > 0

\* Once a redemption has taken its place, nothing makes the voucher usable again:
\* neither the compensation of another scan nor a late second save of the claim.
RedeemedIsFinal ==
    [][\A v \in Redeemed : served[v] > 0 => voucher'[v].status = "redeemed"]_vars

\* The dashboard's redemptions, summed over the duplicate rows of the day that
\* concurrent first increments leave behind, never exceed what happened: lost updates
\* in incrementAnalytic (clicks save the same row) only ever lower it.
AnalyticsNeverOvercount ==
    F!FoldFunction(+, 0, rows) <= F!FoldFunction(+, 0, served)

\* Saving an old copy of an offer may lose redemptions from redemptionCount, but never
\* makes it claim more than happened: a business is never told it gave away more.
CountNeverOverstates ==
    \A o \in Offers : offer[o].count <=
        F!FoldFunctionOnSet(+, 0, served, {v \in Vouchers : OfferOf[v] = o})

\* A user holds one usable voucher per offer (the check in OffersController.claim).
OneActiveClaim ==
    \A v, w \in Vouchers :
        /\ Holder[v] = Holder[w] /\ OfferOf[v] = OfferOf[w]
        /\ voucher[v].status = "active" /\ voucher[w].status = "active"
        => v = w

\* A scan's mark does not stay undecided: it is counted, taken back, or cut off.
MarkSettles == \A v \in Vouchers : MarkPending(v) ~> ~MarkPending(v)

\* The atomic ledger this implements when only scans redeem: a voucher counts as used
\* from the step that takes its place, not from the tentative mark before it.
Ledger == INSTANCE VoucherLedger WITH
    issued <- {v \in Vouchers : voucher[v].status # "none"},
    used <- Used
LedgerSpec == Ledger!Spec
===============================================================================
