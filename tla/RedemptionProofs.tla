--------------------------- MODULE RedemptionProofs ---------------------------
(***************************************************************************)
(* Proofs about Redemption: what holds whatever endpoints are in use, and  *)
(* what holds when only the scan redeems (ScansOnly).                      *)
(***************************************************************************)
EXTENDS Redemption, SequenceTheorems, FiniteSetTheorems, TLAPS

-------------------------------------------------------------------------------
(* The inductive invariant for any choice of endpoints. *)

\* A request stands only at the steps of its own handler.
StepsMatchKind ==
    \A r \in Requests :
        /\ req[r].at \in ClaimSteps => req[r].kind = "claim"
        /\ req[r].at \in {"load", "bump", "saveVoucher"} => req[r].kind = "self"
        /\ req[r].at \in {"mark", "count", "revert", "audit"} => req[r].kind = "scan"
        /\ req[r].kind = "claim" => req[r].at \in ClaimSteps

\* redeemOffer saves the voucher only after its place has been counted.
PaidBeforeSaved ==
    \A r \in Requests :
        req[r].kind = "self" /\ req[r].at \in {"readRow", "writeRow", "saveVoucher"}
            => served[req[r].v] > 0

TypeInv == TypeOK /\ StepsMatchKind
AnyInv == TypeInv /\ PaidBeforeSaved /\ NoFreeRedemption
-------------------------------------------------------------------------------
(* Type correctness, which needs to know which steps have a voucher. *)

LEMMA EditTyped ==
    ASSUME TypeOK, NEW e \in edits
    PROVE  /\ e.offer \in Offers
           /\ [active |-> e.to = "on", deleted |-> e.snap.deleted \/ e.to = "delete",
               count |-> e.snap.count, max |-> e.snap.max] \in OfferRow
<1>1. e \in Edit
  BY DEF TypeOK
<1>2. e.snap \in OfferRow /\ e.offer \in Offers
  BY <1>1 DEF Edit
<1>. QED
  BY <1>2 DEF OfferRow

LEMMA IdleTyped == Idle \in Request
  BY DEF Idle, Request, ClaimSteps, SelfSteps, ScanSteps

\* What the next step of a request has to show: that its record stays well typed and
\* keeps to the steps of its kind.
GoodRequest(q) ==
    /\ q \in Request
    /\ q.kind \in {"claim", "self", "scan"} => q.v \in Vouchers
    /\ q.at \in ClaimSteps => q.kind = "claim"
    /\ q.at \in {"load", "bump", "saveVoucher"} => q.kind = "self"
    /\ q.at \in {"mark", "count", "revert", "audit"} => q.kind = "scan"
    /\ q.kind = "claim" => q.at \in ClaimSteps

LEMMA GoodRequests ==
    TypeInv <=> /\ offer \in [Offers -> OfferRow]
                /\ voucher \in [Vouchers -> VoucherRow]
                /\ rows \in Seq(Nat)
                /\ req \in [Requests -> Request]
                /\ \A r \in Requests : GoodRequest(req[r])
                /\ edits \subseteq Edit
                /\ audit \subseteq Vouchers
                /\ served \in [Vouchers -> Nat]
                /\ lost \subseteq Vouchers
                /\ restarts \in 0..MaxRestarts
  BY DEF TypeInv, TypeOK, StepsMatchKind, GoodRequest

\* One request's record changes to a good one.
LEMMA OneRequestMoves ==
    ASSUME TypeInv, NEW r \in Requests, NEW q, GoodRequest(q),
           req' = [req EXCEPT ![r] = q]
    PROVE  /\ req' \in [Requests -> Request]
           /\ \A x \in Requests : GoodRequest(req'[x])
<1>1. req \in [Requests -> Request] /\ q \in Request
  BY GoodRequests DEF GoodRequest
<1>2. \A x \in Requests : req'[x] = IF x = r THEN q ELSE req[x]
  BY <1>1
<1>. QED
  BY <1>1, <1>2, GoodRequests

LEMMA FinishGood ==
    ASSUME TypeInv, NEW r \in Requests, Finish(r)
    PROVE  /\ req' \in [Requests -> Request]
           /\ \A x \in Requests : GoodRequest(req'[x])
<1>1. GoodRequest(Idle)
  BY IdleTyped DEF GoodRequest, Idle, ClaimSteps
<1>. QED
  BY <1>1, OneRequestMoves DEF Finish

LEMMA StartGood ==
    ASSUME TypeInv, NEW r \in Requests,
           NEW kind, NEW step, NEW v,
           Start(r, kind, step, v),
           \/ kind = "claim" /\ step = "findClaim" /\ v \in Vouchers
           \/ kind = "self" /\ step = "load" /\ v \in Vouchers
           \/ kind = "scan" /\ step = "mark" /\ v \in Vouchers
           \/ kind = "click" /\ step = "readRow" /\ v = NoVoucher
    PROVE  /\ req' \in [Requests -> Request]
           /\ \A x \in Requests : GoodRequest(req'[x])
<1>1. GoodRequest([kind |-> kind, at |-> step, v |-> v,
                     qr |-> "empty", row |-> 0, seen |-> 0])
  BY DEF GoodRequest, Idle, Request, ClaimSteps, SelfSteps, ScanSteps
<1>. QED
  BY <1>1, OneRequestMoves DEF Start

LEMMA GotoGood ==
    ASSUME TypeInv, NEW r \in Requests, NEW step, Goto(r, step),
           \/ req[r].kind = "claim" /\ step \in ClaimSteps
           \/ req[r].kind = "self" /\ step \in SelfSteps
           \/ req[r].kind = "scan" /\ step \in ScanSteps
    PROVE  /\ req' \in [Requests -> Request]
           /\ \A x \in Requests : GoodRequest(req'[x])
<1>. DEFINE q == [req[r] EXCEPT !.at = step]
<1>1. req[r] \in Request /\ GoodRequest(req[r])
  BY GoodRequests
<1>2. GoodRequest(q)
  BY <1>1 DEF GoodRequest, Request, ClaimSteps, SelfSteps, ScanSteps
<1>3. req' = [req EXCEPT ![r] = q]
  BY DEF Goto
<1>. QED
  BY <1>2, <1>3, OneRequestMoves

LEMMA RememberGood ==
    ASSUME TypeInv, NEW r \in Requests, NEW step, NEW qr \in {"empty", "signed"},
           NEW i \in Nat, NEW n \in Nat, Remember(r, step, qr, i, n),
           \/ req[r].kind = "self" /\ step = "bump"
           \/ req[r].kind # "claim" /\ step = "writeRow"
    PROVE  /\ req' \in [Requests -> Request]
           /\ \A x \in Requests : GoodRequest(req'[x])
<1>. DEFINE q == [kind |-> req[r].kind, at |-> step, v |-> req[r].v,
                  qr |-> qr, row |-> i, seen |-> n]
<1>1. req[r] \in Request /\ GoodRequest(req[r])
  BY GoodRequests
<1>2. GoodRequest(q)
  BY <1>1 DEF GoodRequest, Request, ClaimSteps, SelfSteps
<1>. QED
  BY <1>2, OneRequestMoves DEF Remember

LEMMA TakePlaceTyped ==
    ASSUME TypeInv, NEW v \in Vouchers, TakePlace(v)
    PROVE  /\ offer' \in [Offers -> OfferRow]
           /\ served' \in [Vouchers -> Nat]
<1>1. offer \in [Offers -> OfferRow] /\ served \in [Vouchers -> Nat]
  BY GoodRequests
<1>2. OfferOf[v] \in Offers
  BY ConstantsAssumption
<1>3. [offer[OfferOf[v]] EXCEPT !.count = @ + 1] \in OfferRow
  BY <1>1, <1>2 DEF OfferRow
<1>. QED
  BY <1>1, <1>2, <1>3 DEF TakePlace

\* What is appended to a sequence, or put in the place of a member, has its type.
LEMMA SequenceTyped ==
    ASSUME NEW s \in Seq(Nat), NEW i, NEW n \in Nat
    PROVE  Append(s, n) \in Seq(Nat) /\ [s EXCEPT ![i] = n] \in Seq(Nat)
<1>1. Append(s, n) \in Seq(Nat)
  OBVIOUS
<1>2. s \in [1..Len(s) -> Nat] /\ Len(s) \in Nat
  OBVIOUS
<1>3. [s EXCEPT ![i] = n] \in [1..Len(s) -> Nat]
  BY <1>2
<1>4. [s EXCEPT ![i] = n] \in Seq(Nat)
  BY <1>2, <1>3, SeqDef
<1>. QED
  BY <1>1, <1>4

LEMMA RowRemembered ==
    ASSUME TypeInv, NEW r \in Requests, AnalyticRead(r)
    PROVE  \E i \in Nat, n \in Nat : Remember(r, "writeRow", req[r].qr, i, n)
<1>1. rows \in Seq(Nat)
  BY GoodRequests
<1>2. \A i \in DOMAIN rows : i \in Nat /\ rows[i] \in Nat
  BY <1>1
<1>. QED
  BY <1>2 DEF AnalyticRead

LEMMA TypeInit == Init => TypeInv
<1>. SUFFICES ASSUME Init PROVE TypeInv
  OBVIOUS
<1>1. offer \in [Offers -> OfferRow]
  BY ConstantsAssumption DEF Init, OfferRow
<1>2. req \in [Requests -> Request] /\ \A r \in Requests : req[r] = Idle
  BY IdleTyped DEF Init
<1>3. \A r \in Requests : GoodRequest(req[r])
  BY <1>2, IdleTyped DEF GoodRequest, Idle, ClaimSteps
<1>. QED
  BY <1>1, <1>2, <1>3, GoodRequests, ConstantsAssumption DEF Init, VoucherRow

LEMMA TypeStep ==
    ASSUME TypeInv, [Next]_vars PROVE TypeInv'
<1>. USE GoodRequests DEF others
<1>. DEFINE Good == /\ req' \in [Requests -> Request]
                    /\ \A x \in Requests : GoodRequest(req'[x])
<1>0. Good /\ offer' \in [Offers -> OfferRow] /\ voucher' \in [Vouchers -> VoucherRow]
      /\ rows' \in Seq(Nat) /\ edits' \subseteq Edit /\ audit' \subseteq Vouchers
      /\ served' \in [Vouchers -> Nat] /\ lost' \subseteq Vouchers
      /\ restarts' \in 0..MaxRestarts
      => TypeInv'
  BY DEF TypeInv, TypeOK, StepsMatchKind, GoodRequest
<1>1. ASSUME NEW r \in Requests, ClickStart(r) PROVE TypeInv'
  BY <1>0, <1>1, StartGood DEF ClickStart
<1>2. ASSUME NEW r \in Requests, NEW v \in Vouchers, ClaimStart(r, v) PROVE TypeInv'
  BY <1>0, <1>2, StartGood DEF ClaimStart
<1>3. ASSUME NEW r \in Requests, NEW v \in Vouchers,
             RedeemStart(r, v) \/ RedeemByCodeStart(r, v)
      PROVE  TypeInv'
  BY <1>0, <1>3, StartGood DEF RedeemStart, RedeemByCodeStart
<1>4. ASSUME NEW r \in Requests, NEW v \in Vouchers, ScanStart(r, v) PROVE TypeInv'
  BY <1>0, <1>4, StartGood DEF ScanStart
<1>5. ASSUME NEW r \in Requests, ClaimFind(r) PROVE TypeInv'
  <2>1. req[r].kind = "claim"
    BY <1>5 DEF ClaimFind, At, ClaimSteps, GoodRequest
  <2>2. Good
    BY <1>5, <2>1, GotoGood, FinishGood DEF ClaimFind, ClaimSteps
  <2>. QED
    BY <1>0, <1>5, <2>2 DEF ClaimFind
<1>6. ASSUME NEW r \in Requests, ClaimInsert(r) PROVE TypeInv'
  <2>1. req[r].kind = "claim"
    BY <1>6 DEF ClaimInsert, At, ClaimSteps, GoodRequest
  <2>2. Good
    BY <1>6, <2>1, GotoGood DEF ClaimInsert, ClaimSteps
  <2>3. voucher' \in [Vouchers -> VoucherRow]
    BY <1>6 DEF ClaimInsert, VoucherRow
  <2>. QED
    BY <1>0, <1>6, <2>2, <2>3 DEF ClaimInsert
<1>7. ASSUME NEW r \in Requests, ClaimSign(r) PROVE TypeInv'
  <2>1. voucher' \in [Vouchers -> VoucherRow]
    BY <1>7 DEF ClaimSign, VoucherRow
  <2>. QED
    BY <1>0, <1>7, <2>1, FinishGood DEF ClaimSign
<1>8. ASSUME NEW r \in Requests, RedeemLoad(r) PROVE TypeInv'
  <2>1. req[r].kind = "self" /\ req[r] \in Request /\ req[r].v \in Vouchers
    BY <1>8 DEF RedeemLoad, At, GoodRequest
  <2>2. CASE Finish(r)
    BY <1>0, <1>8, <2>2, FinishGood DEF RedeemLoad
  <2>3. CASE Remember(r, "bump", voucher[req[r].v].qr, 0, 0)
    <3>1. voucher[req[r].v].qr \in {"empty", "signed"}
      BY <2>1 DEF VoucherRow
    <3>2. Good
      BY <2>1, <2>3, <3>1, RememberGood
    <3>. QED
      BY <1>0, <1>8, <3>2 DEF RedeemLoad
  <2>. QED
    BY <1>8, <2>2, <2>3 DEF RedeemLoad
<1>9. ASSUME NEW r \in Requests, RedeemBump(r) PROVE TypeInv'
  <2>1. req[r].kind = "self" /\ req[r].v \in Vouchers
    BY <1>9 DEF RedeemBump, At, GoodRequest
  <2>2. Good
    BY <1>9, <2>1, GotoGood DEF RedeemBump, SelfSteps
  <2>3. offer' \in [Offers -> OfferRow] /\ served' \in [Vouchers -> Nat]
    BY <1>9, <2>1, TakePlaceTyped DEF RedeemBump
  <2>. QED
    BY <1>0, <1>9, <2>2, <2>3 DEF RedeemBump
<1>10. ASSUME NEW r \in Requests, RedeemSave(r) PROVE TypeInv'
  <2>1. voucher' \in [Vouchers -> VoucherRow]
    BY <1>10 DEF RedeemSave, VoucherRow, Request
  <2>. QED
    BY <1>0, <1>10, <2>1, FinishGood DEF RedeemSave
<1>11. ASSUME NEW r \in Requests, ScanMark(r) PROVE TypeInv'
  <2>1. req[r].kind = "scan"
    BY <1>11 DEF ScanMark, At, GoodRequest
  <2>2. Good
    BY <1>11, <2>1, GotoGood, FinishGood DEF ScanMark, ScanSteps
  <2>3. voucher' \in [Vouchers -> VoucherRow]
    <3>1. [voucher EXCEPT ![req[r].v].status = "redeemed"] \in [Vouchers -> VoucherRow]
      BY DEF VoucherRow
    <3>. QED
      BY <1>11, <3>1 DEF ScanMark
  <2>. QED
    BY <1>0, <1>11, <2>2, <2>3 DEF ScanMark
<1>12. ASSUME NEW r \in Requests, ScanCount(r) PROVE TypeInv'
  <2>1. req[r].kind = "scan" /\ req[r].v \in Vouchers
    BY <1>12 DEF ScanCount, At, GoodRequest
  <2>2. Good
    BY <1>12, <2>1, GotoGood DEF ScanCount, ScanSteps
  <2>3. offer' \in [Offers -> OfferRow] /\ served' \in [Vouchers -> Nat]
    BY <1>12, <2>1, TakePlaceTyped DEF ScanCount
  <2>. QED
    BY <1>0, <1>12, <2>2, <2>3 DEF ScanCount
<1>13. ASSUME NEW r \in Requests, ScanRevert(r) PROVE TypeInv'
  <2>1. voucher' \in [Vouchers -> VoucherRow]
    <3>1. voucher \in [Vouchers -> VoucherRow] /\ req[r].v \in Vouchers
      BY <1>13 DEF ScanRevert, At, GoodRequest
    <3>2. voucher[req[r].v] \in VoucherRow
      BY <3>1
    <3>3. [voucher[req[r].v] EXCEPT !.status = IF @ = "redeemed" THEN "active" ELSE @]
              \in VoucherRow
      BY <3>2 DEF VoucherRow
    <3>. QED
      BY <1>13, <3>1, <3>3 DEF ScanRevert
  <2>. QED
    BY <1>0, <1>13, <2>1, FinishGood DEF ScanRevert
<1>14. ASSUME NEW r \in Requests, ScanAudit(r) PROVE TypeInv'
  <2>1. req[r].v \in Vouchers
    BY <1>14 DEF ScanAudit, At, GoodRequest
  <2>. QED
    BY <1>0, <1>14, <2>1, FinishGood DEF ScanAudit
<1>15. ASSUME NEW r \in Requests, AnalyticRead(r) PROVE TypeInv'
  <2>1. PICK i \in Nat, n \in Nat : Remember(r, "writeRow", req[r].qr, i, n)
    BY <1>15, RowRemembered
  <2>2. req[r].kind # "claim" /\ req[r].qr \in {"empty", "signed"}
    BY <1>15 DEF AnalyticRead, At, GoodRequest, Request, ClaimSteps
  <2>3. Good
    BY <2>1, <2>2, RememberGood
  <2>. QED
    BY <1>0, <1>15, <2>3 DEF AnalyticRead
<1>16. ASSUME NEW r \in Requests, AnalyticWrite(r) PROVE TypeInv'
  <2>. DEFINE new == req[r].seen + (IF req[r].kind = "click" THEN 0 ELSE 1)
  <2>1. req[r] \in Request /\ new \in Nat
    BY DEF Request
  <2>2. rows' \in Seq(Nat)
    BY <1>16, <2>1, SequenceTyped DEF AnalyticWrite
  <2>3. Good
    BY <1>16, GotoGood, FinishGood DEF AnalyticWrite, SelfSteps, ScanSteps
  <2>. QED
    BY <1>0, <1>16, <2>2, <2>3 DEF AnalyticWrite
<1>17. ASSUME NEW o \in Offers, NEW to \in {"on", "off", "delete"},
              EditRead(o, to) \/ SyncToggleRead(o, to)
       PROVE  TypeInv'
  <2>1. edits' \subseteq Edit
    BY <1>17 DEF EditRead, SyncToggleRead, Edit
  <2>. QED
    BY <1>0, <1>17, <2>1 DEF EditRead, SyncToggleRead
<1>18. ASSUME NEW e \in edits, EditSave(e) PROVE TypeInv'
  <2>1. offer' \in [Offers -> OfferRow]
    BY <1>18, EditTyped DEF EditSave, TypeInv
  <2>. QED
    BY <1>0, <1>18, <2>1 DEF EditSave
<1>19. ASSUME NEW o \in Offers, NEW max \in Limits, NEW reopen \in BOOLEAN,
              UpdateOffer(o, max, reopen)
       PROVE  TypeInv'
  <2>1. offer' \in [Offers -> OfferRow]
    <3>1. offer \in [Offers -> OfferRow] /\ max \in Nat
      BY ConstantsAssumption
    <3>2. [offer[o] EXCEPT !.max = max, !.deleted = @ /\ ~reopen] \in OfferRow
      BY <3>1 DEF OfferRow
    <3>. QED
      BY <1>19, <3>1, <3>2 DEF UpdateOffer
  <2>. QED
    BY <1>0, <1>19, <2>1 DEF UpdateOffer
<1>20. CASE Restart
  <2>1. Good
    BY <1>20, IdleTyped DEF Restart, GoodRequest, Idle, ClaimSteps
  <2>2. restarts' \in 0..MaxRestarts
    BY <1>20, ConstantsAssumption DEF Restart
  <2>. QED
    BY <1>0, <1>20, <2>1, <2>2 DEF Restart
<1>21. CASE UNCHANGED vars
  BY <1>0, <1>21 DEF vars
<1>. QED
  BY <1>1, <1>2, <1>3, <1>4, <1>5, <1>6, <1>7, <1>8, <1>9, <1>10, <1>11, <1>12,
     <1>13, <1>14, <1>15, <1>16, <1>17, <1>18, <1>19, <1>20, <1>21
     DEF Next, Begin, Continue, EditOffer

\* Every table, request and edit keeps its type, for any set of endpoints and any
\* interleaving of the handlers (all of OffersService and its callers).
THEOREM TypeCorrect == Spec => []TypeOK
<1>1. TypeInv => TypeOK
  BY DEF TypeInv
<1>. QED
  BY <1>1, TypeInit, TypeStep, PTL DEF Spec
-------------------------------------------------------------------------------
(* What a step does to the request that takes it. *)

LEMMA Started ==
    ASSUME TypeInv, NEW r \in Requests, NEW kind, NEW step, NEW v, Start(r, kind, step, v)
    PROVE  /\ req[r] = Idle
           /\ req'[r].kind = kind /\ req'[r].at = step /\ req'[r].v = v
           /\ \A x \in Requests : x # r => req'[x] = req[x]
  BY GoodRequests DEF Start

LEMMA Moved ==
    ASSUME TypeInv, NEW r \in Requests, NEW step,
           \/ Goto(r, step)
           \/ \E qr \in {"empty", "signed"}, i, n \in Nat : Remember(r, step, qr, i, n)
    PROVE  /\ req'[r].kind = req[r].kind /\ req'[r].at = step /\ req'[r].v = req[r].v
           /\ \A x \in Requests : x # r => req'[x] = req[x]
<1>1. req \in [Requests -> Request]
  BY GoodRequests
<1>2. CASE Goto(r, step)
  BY <1>1, <1>2 DEF Goto, Request
<1>3. CASE \E qr \in {"empty", "signed"}, i, n \in Nat : Remember(r, step, qr, i, n)
  BY <1>1, <1>3 DEF Remember
<1>. QED
  BY <1>2, <1>3

LEMMA Finished ==
    ASSUME TypeInv, NEW r \in Requests, Finish(r)
    PROVE  /\ req'[r] = Idle
           /\ \A x \in Requests : x # r => req'[x] = req[x]
  BY GoodRequests DEF Finish

LEMMA PlaceTaken ==
    ASSUME TypeInv, NEW v \in Vouchers, TakePlace(v)
    PROVE  /\ served'[v] = served[v] + 1
           /\ \A w \in Vouchers : w # v => served'[w] = served[w]
           /\ offer'[OfferOf[v]].count = offer[OfferOf[v]].count + 1
           /\ \A o \in Offers : /\ o # OfferOf[v] => offer'[o].count = offer[o].count
                                /\ offer'[o].max = offer[o].max
<1>1. offer \in [Offers -> OfferRow] /\ served \in [Vouchers -> Nat]
  BY GoodRequests
<1>2. OfferOf[v] \in Offers
  BY ConstantsAssumption
<1>. QED
  BY <1>1, <1>2 DEF TakePlace, OfferRow
-------------------------------------------------------------------------------
(* Nothing is redeemed without a place, whichever endpoints are in use. *)

LEMMA IdleIsNothing == Idle.kind = "none" /\ Idle.at = "idle"
  BY DEF Idle

\* A step that redeems nothing, of a request that was not deciding a mark.
LEMMA QuietStep ==
    ASSUME AnyInv, NEW r \in Requests,
           \A x \in Requests : x # r => req'[x] = req[x],
           req[r].at \notin {"count", "revert"},
           req'[r].kind = "self" /\ req'[r].at \in {"readRow", "writeRow", "saveVoucher"}
               => served[req'[r].v] > 0,
           \A v \in Vouchers : voucher'[v].status = "redeemed"
                                  => voucher[v].status = "redeemed",
           UNCHANGED <<served, lost>>
    PROVE  PaidBeforeSaved' /\ NoFreeRedemption'
<1>1. PaidBeforeSaved'
  BY DEF AnyInv, PaidBeforeSaved
<1>2. \A v \in Vouchers : MarkPending(v) => MarkPending(v)'
  BY DEF MarkPending
<1>3. NoFreeRedemption'
  BY <1>2 DEF AnyInv, NoFreeRedemption, Redeemed
<1>. QED
  BY <1>1, <1>3

LEMMA PaidStep ==
    ASSUME AnyInv, [Next]_vars PROVE PaidBeforeSaved' /\ NoFreeRedemption'
<1>. DEFINE Done == PaidBeforeSaved' /\ NoFreeRedemption'
<1>. USE DEF others
<1>0. /\ TypeInv
      /\ \A r \in Requests : req[r] \in Request /\ GoodRequest(req[r])
      /\ voucher \in [Vouchers -> VoucherRow] /\ served \in [Vouchers -> Nat]
  BY GoodRequests DEF AnyInv
<1>1. ASSUME NEW r \in Requests, ClickStart(r) PROVE Done
  <2>1. /\ req[r] = Idle /\ req'[r].kind = "click"
        /\ \A x \in Requests : x # r => req'[x] = req[x]
    BY <1>0, <1>1, Started DEF ClickStart
  <2>. QED
    BY <1>1, <2>1, QuietStep, IdleIsNothing DEF ClickStart
<1>2. ASSUME NEW r \in Requests, NEW v \in Vouchers,
             \/ ClaimStart(r, v) \/ RedeemStart(r, v)
             \/ RedeemByCodeStart(r, v) \/ ScanStart(r, v)
      PROVE  Done
  <2>1. /\ req[r] = Idle /\ req'[r].at \in {"findClaim", "load", "mark"}
        /\ \A x \in Requests : x # r => req'[x] = req[x]
    BY <1>0, <1>2, Started DEF ClaimStart, RedeemStart, RedeemByCodeStart, ScanStart
  <2>2. UNCHANGED <<voucher, served, lost>>
    BY <1>2 DEF ClaimStart, RedeemStart, RedeemByCodeStart, ScanStart
  <2>. QED
    BY <2>1, <2>2, QuietStep, IdleIsNothing
<1>3. ASSUME NEW r \in Requests, ClaimFind(r) \/ ClaimInsert(r) \/ ClaimSign(r)
      PROVE  Done
  <2>1. req[r].at \in ClaimSteps /\ req[r].kind = "claim" /\ req[r].v \in Vouchers
    BY <1>0, <1>3 DEF ClaimFind, ClaimInsert, ClaimSign, At, ClaimSteps, GoodRequest
  <2>2. /\ req'[r].kind # "self"
        /\ \A x \in Requests : x # r => req'[x] = req[x]
    BY <1>0, <1>3, <2>1, Moved, Finished, IdleIsNothing
       DEF ClaimFind, ClaimInsert, ClaimSign
  <2>3. /\ \A v \in Vouchers : voucher'[v].status = "redeemed"
                                    => voucher[v].status = "redeemed"
        /\ UNCHANGED <<served, lost>>
    BY <1>0, <1>3 DEF ClaimFind, ClaimInsert, ClaimSign, VoucherRow
  <2>. QED
    BY <2>1, <2>2, <2>3, QuietStep DEF ClaimSteps
<1>4. ASSUME NEW r \in Requests, RedeemLoad(r) PROVE Done
  <2>1. voucher[req[r].v].qr \in {"empty", "signed"} /\ req[r].kind = "self"
    BY <1>0, <1>4 DEF RedeemLoad, At, GoodRequest, VoucherRow
  <2>2. /\ req'[r].at \in {"bump", "idle"}
        /\ \A x \in Requests : x # r => req'[x] = req[x]
    BY <1>0, <1>4, <2>1, Moved, Finished, IdleIsNothing DEF RedeemLoad
  <2>. QED
    BY <1>4, <2>2, QuietStep DEF RedeemLoad, At
<1>5. ASSUME NEW r \in Requests, RedeemBump(r) PROVE Done
  <2>1. req[r].at = "bump" /\ req[r].kind = "self" /\ req[r].v \in Vouchers
    BY <1>0, <1>5 DEF RedeemBump, At, GoodRequest
  <2>2. /\ req'[r].kind = "self" /\ req'[r].v = req[r].v
        /\ \A x \in Requests : x # r => req'[x] = req[x]
    BY <1>0, <1>5, <2>1, Moved DEF RedeemBump
  <2>3. \A v \in Vouchers : served'[v] >= served[v]
    BY <1>0, <1>5, <2>1, PlaceTaken DEF RedeemBump
  <2>4. served'[req[r].v] > 0
    BY <1>0, <1>5, <2>1, PlaceTaken DEF RedeemBump
  <2>5. \A x \in Requests : req[x].kind = "self" => req[x].v \in Vouchers
    BY <1>0 DEF GoodRequest
  <2>6. PaidBeforeSaved'
    <3>1. SUFFICES ASSUME NEW x \in Requests, req'[x].kind = "self",
                          req'[x].at \in {"readRow", "writeRow", "saveVoucher"}
                   PROVE  served'[req'[x].v] > 0
      BY DEF PaidBeforeSaved
    <3>2. CASE x = r
      BY <2>2, <2>4, <3>2
    <3>3. CASE x # r
      <4>1. req'[x] = req[x] /\ req[x].v \in Vouchers
        BY <2>2, <2>5, <3>1, <3>3
      <4>2. served[req[x].v] > 0 /\ served[req[x].v] \in Nat
        BY <1>0, <3>1, <4>1 DEF AnyInv, PaidBeforeSaved
      <4>3. served' \in [Vouchers -> Nat]
        BY <1>0, <1>5, <2>1, TakePlaceTyped DEF RedeemBump
      <4>. QED
        BY <2>3, <4>1, <4>2, <4>3
    <3>. QED
      BY <3>2, <3>3
  <2>7. NoFreeRedemption'
    <3>1. \A v \in Vouchers : MarkPending(v) => MarkPending(v)'
      BY <2>1, <2>2 DEF MarkPending
    <3>2. \A v \in Vouchers : served[v] > 0 => served'[v] > 0
      BY <1>0, <1>5, <2>1, <2>3, TakePlaceTyped DEF RedeemBump
    <3>3. UNCHANGED <<voucher, lost>>
      BY <1>5 DEF RedeemBump
    <3>. QED
      BY <3>1, <3>2, <3>3 DEF AnyInv, NoFreeRedemption, Redeemed
  <2>. QED
    BY <2>6, <2>7
<1>6. ASSUME NEW r \in Requests, RedeemSave(r) PROVE Done
  <2>1. req[r].at = "saveVoucher" /\ req[r].kind = "self" /\ req[r].v \in Vouchers
    BY <1>0, <1>6 DEF RedeemSave, At, GoodRequest
  <2>2. req'[r] = Idle /\ \A x \in Requests : x # r => req'[x] = req[x]
    BY <1>0, <1>6, Finished DEF RedeemSave
  <2>3. UNCHANGED <<served, lost>>
        /\ \A v \in Vouchers : v # req[r].v => voucher'[v] = voucher[v]
    BY <1>0, <1>6 DEF RedeemSave
  <2>4. PaidBeforeSaved'
    BY <2>2, <2>3, IdleIsNothing DEF AnyInv, PaidBeforeSaved
  <2>5. served[req[r].v] > 0
    BY <2>1 DEF AnyInv, PaidBeforeSaved
  <2>6. \A v \in Vouchers : MarkPending(v) => MarkPending(v)'
    BY <2>1, <2>2 DEF MarkPending
  <2>7. NoFreeRedemption'
    BY <2>3, <2>5, <2>6 DEF AnyInv, NoFreeRedemption, Redeemed
  <2>. QED
    BY <2>4, <2>7
<1>7. ASSUME NEW r \in Requests, ScanMark(r) PROVE Done
  <2>1. req[r].at = "mark" /\ req[r].kind = "scan" /\ req[r].v \in Vouchers
    BY <1>0, <1>7 DEF ScanMark, At, GoodRequest
  <2>2. CASE Finish(r) /\ UNCHANGED voucher
    <3>1. req'[r] = Idle /\ \A x \in Requests : x # r => req'[x] = req[x]
      BY <1>0, <2>2, Finished
    <3>. QED
      BY <1>7, <2>1, <2>2, <3>1, QuietStep, IdleIsNothing DEF ScanMark
  <2>3. CASE Goto(r, "count")
             /\ voucher' = [voucher EXCEPT ![req[r].v].status = "redeemed"]
    <3>1. /\ req'[r].kind = "scan" /\ req'[r].at = "count" /\ req'[r].v = req[r].v
          /\ \A x \in Requests : x # r => req'[x] = req[x]
      BY <1>0, <2>1, <2>3, Moved
    <3>2. UNCHANGED <<served, lost>>
          /\ \A v \in Vouchers : v # req[r].v => voucher'[v] = voucher[v]
      BY <1>0, <1>7, <2>3 DEF ScanMark
    <3>3. PaidBeforeSaved'
      BY <3>1, <3>2 DEF AnyInv, PaidBeforeSaved
    <3>4. \A v \in Vouchers : v = req[r].v \/ MarkPending(v) => MarkPending(v)'
      BY <2>1, <3>1 DEF MarkPending
    <3>6. NoFreeRedemption'
      BY <3>2, <3>4 DEF AnyInv, NoFreeRedemption, Redeemed
    <3>. QED
      BY <3>3, <3>6
  <2>. QED
    BY <1>7, <2>2, <2>3 DEF ScanMark
<1>8. ASSUME NEW r \in Requests, ScanCount(r) PROVE Done
  <2>1. req[r].at = "count" /\ req[r].kind = "scan" /\ req[r].v \in Vouchers
    BY <1>0, <1>8 DEF ScanCount, At, GoodRequest
  <2>2. /\ req'[r].kind = "scan" /\ req'[r].at \in {"readRow", "revert"}
        /\ req'[r].v = req[r].v
        /\ \A x \in Requests : x # r => req'[x] = req[x]
    BY <1>0, <1>8, <2>1, Moved DEF ScanCount
  <2>3. UNCHANGED <<voucher, lost>>
    BY <1>8 DEF ScanCount
  <2>4. \A v \in Vouchers : served[v] > 0 => served'[v] > 0
    BY <1>0, <1>8, <2>1, PlaceTaken DEF ScanCount
  <2>5. served'[req[r].v] > 0 \/ req'[r].at = "revert"
    BY <1>0, <1>8, <2>1, PlaceTaken, Moved DEF ScanCount
  <2>6. PaidBeforeSaved'
    BY <1>0, <2>2, <2>4 DEF AnyInv, PaidBeforeSaved, GoodRequest
  <2>7. \A v \in Vouchers : MarkPending(v) => MarkPending(v)' \/ served'[v] > 0
    BY <2>1, <2>2, <2>5 DEF MarkPending
  <2>8. NoFreeRedemption'
    BY <2>3, <2>4, <2>7 DEF AnyInv, NoFreeRedemption, Redeemed
  <2>. QED
    BY <2>6, <2>8
<1>9. ASSUME NEW r \in Requests, ScanRevert(r) PROVE Done
  <2>1. req[r].at = "revert" /\ req[r].kind = "scan" /\ req[r].v \in Vouchers
    BY <1>0, <1>9 DEF ScanRevert, At, GoodRequest
  <2>2. req'[r] = Idle /\ \A x \in Requests : x # r => req'[x] = req[x]
    BY <1>0, <1>9, Finished DEF ScanRevert
  <2>3. /\ UNCHANGED <<served, lost>>
        /\ \A v \in Vouchers : v # req[r].v => voucher'[v] = voucher[v]
        /\ voucher'[req[r].v].status # "redeemed"
    BY <1>0, <1>9, <2>1 DEF ScanRevert, VoucherRow
  <2>4. PaidBeforeSaved'
    BY <2>2, <2>3, IdleIsNothing DEF AnyInv, PaidBeforeSaved
  <2>5. \A v \in Vouchers : MarkPending(v) /\ v # req[r].v => MarkPending(v)'
    BY <2>1, <2>2 DEF MarkPending
  <2>6. NoFreeRedemption'
    BY <2>3, <2>5 DEF AnyInv, NoFreeRedemption, Redeemed
  <2>. QED
    BY <2>4, <2>6
<1>10. ASSUME NEW r \in Requests, ScanAudit(r) PROVE Done
  <2>1. req'[r] = Idle /\ \A x \in Requests : x # r => req'[x] = req[x]
    BY <1>0, <1>10, Finished DEF ScanAudit
  <2>. QED
    BY <1>10, <2>1, QuietStep, IdleIsNothing DEF ScanAudit, At
<1>11. ASSUME NEW r \in Requests, AnalyticRead(r) PROVE Done
  <2>1. PICK i \in Nat, n \in Nat : Remember(r, "writeRow", req[r].qr, i, n)
    BY <1>0, <1>11, RowRemembered
  <2>2. req[r].qr \in {"empty", "signed"}
    BY <1>0 DEF Request
  <2>3. /\ req'[r].kind = req[r].kind /\ req'[r].v = req[r].v
        /\ \A x \in Requests : x # r => req'[x] = req[x]
    <3>1. \E qr \in {"empty", "signed"}, j, k \in Nat : Remember(r, "writeRow", qr, j, k)
      BY <2>1, <2>2
    <3>. QED
      BY <1>0, <3>1, Moved
  <2>4. req'[r].kind = "self" => served[req'[r].v] > 0
    BY <1>11, <2>3 DEF AnalyticRead, At, AnyInv, PaidBeforeSaved
  <2>. QED
    BY <1>11, <2>3, <2>4, QuietStep DEF AnalyticRead, At
<1>12. ASSUME NEW r \in Requests, AnalyticWrite(r) PROVE Done
  <2>1. /\ req'[r] = Idle \/ (req'[r].kind = req[r].kind /\ req'[r].v = req[r].v)
        /\ \A x \in Requests : x # r => req'[x] = req[x]
    BY <1>0, <1>12, Moved, Finished DEF AnalyticWrite
  <2>2. req'[r].kind = "self" => served[req'[r].v] > 0
    BY <1>12, <2>1, IdleIsNothing DEF AnalyticWrite, At, AnyInv, PaidBeforeSaved
  <2>. QED
    BY <1>12, <2>1, <2>2, QuietStep DEF AnalyticWrite, At
<1>13. CASE EditOffer
  <2>1. UNCHANGED <<voucher, req, served, lost>>
    BY <1>13 DEF EditOffer, EditRead, SyncToggleRead, EditSave, UpdateOffer
  <2>. QED
    BY <2>1 DEF AnyInv, PaidBeforeSaved, NoFreeRedemption, Redeemed, MarkPending
<1>14. CASE Restart
  <2>1. \A r \in Requests : req'[r] = Idle
    BY <1>14 DEF Restart
  <2>2. UNCHANGED <<voucher, served>>
        /\ \A v \in Vouchers : v \in lost \/ MarkPending(v) => v \in lost'
    BY <1>14 DEF Restart
  <2>3. PaidBeforeSaved'
    BY <2>1, IdleIsNothing DEF PaidBeforeSaved
  <2>4. NoFreeRedemption'
    BY <2>2 DEF AnyInv, NoFreeRedemption, Redeemed
  <2>. QED
    BY <2>3, <2>4
<1>15. CASE UNCHANGED vars
  BY <1>15 DEF vars, AnyInv, PaidBeforeSaved, NoFreeRedemption, Redeemed, MarkPending
<1>. QED
  BY <1>1, <1>2, <1>3, <1>4, <1>5, <1>6, <1>7, <1>8, <1>9, <1>10, <1>11, <1>12,
     <1>13, <1>14, <1>15 DEF Next, Begin, Continue

\* Whatever endpoints are in use, and whatever fails or restarts, a voucher shows as
\* redeemed only if a place of its offer was taken for it (redeemOffer counts before it
\* saves, redeemOfferByWorker marks first and compensates).
THEOREM NothingIsFree == Spec => []NoFreeRedemption
<1>1. Init => AnyInv
  <2>1. Init => PaidBeforeSaved
    BY IdleIsNothing DEF Init, PaidBeforeSaved
  <2>2. Init => NoFreeRedemption
    BY DEF Init, NoFreeRedemption, Redeemed
  <2>. QED
    BY <2>1, <2>2, TypeInit DEF AnyInv
<1>2. AnyInv /\ [Next]_vars => AnyInv'
  BY TypeStep, PaidStep DEF AnyInv
<1>3. AnyInv => NoFreeRedemption
  BY DEF AnyInv
<1>. QED
  BY <1>1, <1>2, <1>3, PTL DEF Spec
-------------------------------------------------------------------------------
(* When only the worker's scan redeems vouchers: each is used once, no cap is  *)
(* passed, the tables agree, and the handlers implement VoucherLedger.         *)
(* RedeemStart breaks all of this: see the run redemption_twice.               *)

ScansOnly == Handlers \subseteq {"claim", "scan"}

NothingElseRuns ==
    /\ edits = {}
    /\ \A o \in Offers : offer[o].max = MaxOf[o]
    /\ \A r \in Requests :
           /\ req[r].kind \in {"none", "claim", "scan"}
           /\ req[r].at \in {"readRow", "writeRow"} => req[r].kind = "scan"

\* A claim works on a voucher nobody else can see until it is signed.
ClaimsArePrivate ==
    /\ \A r \in Requests : req[r].kind = "claim" =>
           /\ voucher[req[r].v].status =
                  IF req[r].at = "signClaim" THEN "active" ELSE "none"
           /\ voucher[req[r].v].qr = "empty"
    /\ \A r, s \in Requests :
           req[r].kind = "claim" /\ req[s].kind = "claim" /\ req[r].v = req[s].v => r = s

Marked(r) == req[r].kind = "scan" /\ req[r].at \in {"count", "revert"}

\* A voucher is marked by one scan at a time, and only a signed one is ever scanned.
ScansOwnTheirMark ==
    /\ \A r \in Requests : req[r].kind = "scan" => voucher[req[r].v].qr = "signed"
    /\ \A r \in Requests : Marked(r) =>
           /\ voucher[req[r].v].status = "redeemed"
           /\ served[req[r].v] = 0
           /\ req[r].v \notin lost
    /\ \A r, s \in Requests : Marked(r) /\ Marked(s) /\ req[r].v = req[s].v => r = s
    /\ \A r \in Requests :
           req[r].kind = "scan" /\ req[r].at \in {"readRow", "writeRow", "audit"}
               => served[req[r].v] = 1

\* Where each voucher stands, by the place it has taken.
VouchersSettled ==
    \A v \in Vouchers :
        /\ served[v] \in {0, 1}
        /\ served[v] = 1 => v \in Redeemed /\ v \notin lost
        /\ v \in lost => v \in Redeemed
        /\ v \in Redeemed => voucher[v].qr = "signed"
        /\ voucher[v].status = "none" => voucher[v].qr = "empty"
        /\ v \in audit => served[v] = 1

ScanInv ==
    /\ AnyInv /\ NothingElseRuns /\ ClaimsArePrivate
    /\ ScansOwnTheirMark /\ VouchersSettled
    /\ CountExact /\ CapRespected

-------------------------------------------------------------------------------
(* Which steps are left, and what the invariant says where they are taken. *)

LEMMA OnlyScans ==
    ASSUME ScansOnly, ScanInv, Next
    PROVE  \/ \E r \in Requests, v \in Vouchers : ClaimStart(r, v) \/ ScanStart(r, v)
           \/ \E r \in Requests :
                  \/ ClaimFind(r) \/ ClaimInsert(r) \/ ClaimSign(r)
                  \/ ScanMark(r) \/ ScanCount(r) \/ ScanRevert(r) \/ ScanAudit(r)
                  \/ AnalyticRead(r) \/ AnalyticWrite(r)
           \/ Restart
<1>1. \A r \in Requests : GoodRequest(req[r]) /\ req[r].kind # "self"
  BY GoodRequests DEF ScanInv, AnyInv, NothingElseRuns
<1>2. ~ \E r \in Requests : RedeemLoad(r) \/ RedeemBump(r) \/ RedeemSave(r)
  BY <1>1 DEF RedeemLoad, RedeemBump, RedeemSave, At, GoodRequest
<1>3. ~ \E r \in Requests, v \in Vouchers : RedeemStart(r, v) \/ RedeemByCodeStart(r, v)
  BY DEF RedeemStart, RedeemByCodeStart, ScansOnly
<1>4. ~ \E r \in Requests : ClickStart(r)
  BY DEF ClickStart, ScansOnly
<1>5. ~ EditOffer
  BY DEF EditOffer, EditRead, SyncToggleRead, EditSave, UpdateOffer, ScansOnly,
         ScanInv, NothingElseRuns
<1>. QED
  BY <1>2, <1>3, <1>4, <1>5 DEF Next, Begin, Continue

\* The parts of the invariant that are about one request or one voucher.
Parts == NothingElseRuns /\ ClaimsArePrivate /\ ScansOwnTheirMark /\ VouchersSettled

LEMMA InvFacts ==
    ASSUME ScanInv
    PROVE  /\ TypeInv /\ Parts
           /\ \A r \in Requests : req[r] \in Request /\ GoodRequest(req[r])
           /\ voucher \in [Vouchers -> VoucherRow] /\ served \in [Vouchers -> Nat]
  BY GoodRequests DEF ScanInv, AnyInv, Parts

LEMMA StartStep ==
    ASSUME ScanInv, NEW r \in Requests, NEW v \in Vouchers, ClaimStart(r, v) \/ ScanStart(r, v)
    PROVE  Parts'
<1>. USE InvFacts DEF others
<1>1. /\ req[r] = Idle /\ req'[r].v = v
      /\ \A x \in Requests : x # r => req'[x] = req[x]
  BY Started DEF ClaimStart, ScanStart
<1>2. \/ /\ req'[r].kind = "claim" /\ req'[r].at = "findClaim"
         /\ voucher[v].status = "none" /\ ~Reserved(v)
      \/ /\ req'[r].kind = "scan" /\ req'[r].at = "mark"
         /\ voucher[v].status = "active" /\ voucher[v].qr = "signed"
  BY Started DEF ClaimStart, ScanStart
<1>3. UNCHANGED <<offer, voucher, edits, audit, served, lost>>
  BY DEF ClaimStart, ScanStart
<1>4. NothingElseRuns'
  BY <1>1, <1>2, <1>3 DEF Parts, NothingElseRuns
<1>5. ClaimsArePrivate'
  <2>1. voucher[v].status = "none" => voucher[v].qr = "empty"
    BY DEF Parts, VouchersSettled
  <2>. QED
    BY <1>1, <1>2, <1>3, <2>1 DEF Parts, ClaimsArePrivate, Reserved
<1>6. ScansOwnTheirMark'
  BY <1>1, <1>2, <1>3 DEF Parts, ScansOwnTheirMark, Marked
<1>7. VouchersSettled'
  BY <1>3 DEF Parts, VouchersSettled, Redeemed
<1>. QED
  BY <1>4, <1>5, <1>6, <1>7 DEF Parts

LEMMA ClaimStep ==
    ASSUME ScanInv, NEW r \in Requests, ClaimFind(r) \/ ClaimInsert(r) \/ ClaimSign(r)
    PROVE  Parts'
<1>. USE InvFacts DEF others
<1>. DEFINE w == req[r].v
<1>1. req[r].kind = "claim" /\ w \in Vouchers
  BY DEF ClaimFind, ClaimInsert, ClaimSign, At, ClaimSteps, GoodRequest
<1>2. /\ \/ req'[r] = Idle
         \/ /\ req'[r].kind = "claim" /\ req'[r].v = w
            /\ req'[r].at \in {"insertClaim", "signClaim"}
      /\ \A x \in Requests : x # r => req'[x] = req[x]
  BY <1>1, Moved, Finished DEF ClaimFind, ClaimInsert, ClaimSign
<1>3. /\ UNCHANGED <<offer, edits, audit, served, lost>>
      /\ \A v \in Vouchers : v # w => voucher'[v] = voucher[v]
      /\ voucher'[w] = voucher[w] \/ voucher'[w].status = "active"
  BY <1>1 DEF ClaimFind, ClaimInsert, ClaimSign
<1>4. req'[r].kind = "claim" =>
          /\ voucher'[w].status = IF req'[r].at = "signClaim" THEN "active" ELSE "none"
          /\ voucher'[w].qr = "empty"
  <2>1. CASE ClaimFind(r)
    <3>1. req[r].at = "findClaim" /\ voucher' = voucher
      BY <2>1 DEF ClaimFind, At
    <3>2. req'[r].kind = "claim" => req'[r].at = "insertClaim"
      BY <2>1, Moved, Finished, IdleIsNothing DEF ClaimFind
    <3>. QED
      BY <1>1, <3>1, <3>2 DEF Parts, ClaimsArePrivate
  <2>2. CASE ClaimInsert(r)
    <3>1. req'[r].at = "signClaim"
      BY <2>2, Moved DEF ClaimInsert
    <3>. QED
      BY <1>1, <2>2, <3>1 DEF ClaimInsert
  <2>3. CASE ClaimSign(r)
    BY <2>3, Finished, IdleIsNothing DEF ClaimSign
  <2>. QED
    BY <2>1, <2>2, <2>3
<1>5. /\ voucher[w].qr = "empty" /\ voucher[w].status # "redeemed"
      /\ served[w] = 0 /\ w \notin lost /\ w \notin audit
  <2>1. voucher[w].qr = "empty" /\ voucher[w].status \in {"active", "none"}
    BY <1>1 DEF Parts, ClaimsArePrivate
  <2>2. w \notin Redeemed
    BY <2>1 DEF Redeemed
  <2>. QED
    BY <1>1, <2>1, <2>2 DEF Parts, VouchersSettled
<1>6. NothingElseRuns'
  BY <1>2, <1>3, IdleIsNothing DEF Parts, NothingElseRuns
<1>7. ClaimsArePrivate'
  <2>1. \A x \in Requests : x # r /\ req[x].kind = "claim" =>
            req[x].v # w /\ req[x].v \in Vouchers
    BY <1>1 DEF Parts, ClaimsArePrivate, GoodRequest
  <2>2. \A x \in Requests : x # r /\ req'[x].kind = "claim" =>
            /\ voucher'[req'[x].v].status =
                   IF req'[x].at = "signClaim" THEN "active" ELSE "none"
            /\ voucher'[req'[x].v].qr = "empty"
    BY <1>2, <1>3, <2>1 DEF Parts, ClaimsArePrivate
  <2>3. req'[r].kind = "claim" => req'[r].v = w
    BY <1>2, IdleIsNothing
  <2>4. \A x, y \in Requests :
            req'[x].kind = "claim" /\ req'[y].kind = "claim" /\ req'[x].v = req'[y].v => x = y
    BY <1>2, <2>1, <2>3 DEF Parts, ClaimsArePrivate
  <2>. QED
    BY <1>4, <2>2, <2>3, <2>4 DEF ClaimsArePrivate
<1>8. \A x \in Requests : req[x].kind = "scan" => req[x].v # w /\ req[x].v \in Vouchers
  BY <1>5 DEF Parts, ScansOwnTheirMark, GoodRequest
<1>9. ScansOwnTheirMark'
  BY <1>2, <1>3, <1>8, IdleIsNothing DEF Parts, ScansOwnTheirMark, Marked
<1>10. VouchersSettled'
  <2>1. voucher'[w].status = "none" => voucher'[w].qr = "empty"
    BY <1>3, <1>5
  <2>2. voucher'[w].status # "redeemed"
    BY <1>3, <1>5
  <2>. QED
    BY <1>3, <1>5, <2>1, <2>2 DEF Parts, VouchersSettled, Redeemed
<1>. QED
  BY <1>6, <1>7, <1>9, <1>10 DEF Parts

\* A scan's voucher is never one a claim is still working on.
LEMMA ScansMeetNoClaims ==
    ASSUME ScanInv, NEW r \in Requests, req[r].kind = "scan"
    PROVE  \A x \in Requests : req[x].kind = "claim" => req[x].v # req[r].v
<1>1. voucher[req[r].v].qr = "signed"
  BY InvFacts DEF Parts, ScansOwnTheirMark
<1>2. \A x \in Requests : req[x].kind = "claim" => voucher[req[x].v].qr = "empty"
  BY InvFacts DEF Parts, ClaimsArePrivate
<1>. QED
  BY <1>1, <1>2

LEMMA MarkStep ==
    ASSUME ScanInv, NEW r \in Requests, ScanMark(r)
    PROVE  Parts'
<1>. USE InvFacts DEF others
<1>. DEFINE w == req[r].v
<1>1. req[r].at = "mark" /\ req[r].kind = "scan" /\ w \in Vouchers
  BY DEF ScanMark, At, GoodRequest
<1>2. UNCHANGED <<offer, edits, audit, served, lost>>
  BY DEF ScanMark
<1>3. CASE voucher[w].status = "active"
  <2>1. /\ req'[r].kind = "scan" /\ req'[r].v = w /\ req'[r].at = "count"
        /\ \A x \in Requests : x # r => req'[x] = req[x]
    BY <1>1, <1>3, Moved DEF ScanMark
  <2>2. /\ \A v \in Vouchers : v # w => voucher'[v] = voucher[v]
        /\ voucher'[w].status = "redeemed" /\ voucher'[w].qr = voucher[w].qr
    BY <1>1, <1>3 DEF ScanMark, VoucherRow
  <2>3. /\ voucher[w].qr = "signed" /\ served[w] = 0
        /\ w \notin lost /\ w \notin audit
    BY <1>1, <1>3 DEF Parts, ScansOwnTheirMark, VouchersSettled, Redeemed
  <2>4. NothingElseRuns'
    BY <1>2, <2>1 DEF Parts, NothingElseRuns
  <2>5. ClaimsArePrivate'
    BY <1>1, <1>2, <2>1, <2>2, ScansMeetNoClaims DEF Parts, ClaimsArePrivate, GoodRequest
  <2>6. \A x \in Requests : Marked(x) => req[x].v # w
    BY <1>1, <1>3 DEF Parts, ScansOwnTheirMark
  <2>7. ScansOwnTheirMark'
    <3>1. \A x \in Requests : req'[x].kind = "scan" =>
              /\ voucher'[req'[x].v].qr = "signed"
              /\ req'[x].at \in {"readRow", "writeRow", "audit"} => served'[req'[x].v] = 1
      BY <1>2, <2>1, <2>2, <2>3 DEF Parts, ScansOwnTheirMark, GoodRequest
    <3>2. \A x \in Requests : Marked(x)' => x = r \/ (Marked(x) /\ req[x].v # w)
      BY <2>1, <2>6 DEF Marked
    <3>3. \A x \in Requests : Marked(x)' =>
              /\ voucher'[req'[x].v].status = "redeemed"
              /\ served'[req'[x].v] = 0
              /\ req'[x].v \notin lost'
      BY <1>2, <2>1, <2>2, <2>3, <3>2 DEF Parts, ScansOwnTheirMark, GoodRequest, Marked
    <3>4. \A x, y \in Requests : Marked(x)' /\ Marked(y)' /\ req'[x].v = req'[y].v => x = y
      BY <2>1, <3>2 DEF Parts, ScansOwnTheirMark
    <3>. QED
      BY <3>1, <3>3, <3>4 DEF ScansOwnTheirMark, Marked
  <2>8. VouchersSettled'
    BY <1>2, <2>2, <2>3 DEF Parts, VouchersSettled, Redeemed
  <2>. QED
    BY <2>4, <2>5, <2>7, <2>8 DEF Parts
<1>4. CASE voucher[w].status # "active"
  <2>1. /\ req'[r] = Idle /\ voucher' = voucher
        /\ \A x \in Requests : x # r => req'[x] = req[x]
    BY <1>1, <1>4, Finished DEF ScanMark
  <2>2. NothingElseRuns' /\ VouchersSettled'
    BY <1>2, <2>1, IdleIsNothing DEF Parts, NothingElseRuns, VouchersSettled, Redeemed
  <2>3. ClaimsArePrivate'
    BY <2>1, IdleIsNothing DEF Parts, ClaimsArePrivate
  <2>4. ScansOwnTheirMark'
    BY <1>2, <2>1, IdleIsNothing DEF Parts, ScansOwnTheirMark, Marked
  <2>. QED
    BY <2>2, <2>3, <2>4 DEF Parts
<1>. QED
  BY <1>3, <1>4

LEMMA CountStep ==
    ASSUME ScanInv, NEW r \in Requests, ScanCount(r)
    PROVE  Parts'
<1>. USE InvFacts DEF others
<1>. DEFINE w == req[r].v
<1>1. req[r].at = "count" /\ req[r].kind = "scan" /\ w \in Vouchers
  BY DEF ScanCount, At, GoodRequest
<1>2. UNCHANGED <<voucher, edits, audit, lost>>
  BY DEF ScanCount
<1>3. /\ req'[r].kind = "scan" /\ req'[r].v = w /\ req'[r].at \in {"readRow", "revert"}
      /\ \A x \in Requests : x # r => req'[x] = req[x]
  BY <1>1, Moved DEF ScanCount
<1>4. /\ voucher[w].status = "redeemed" /\ voucher[w].qr = "signed"
      /\ served[w] = 0 /\ w \notin lost
      /\ \A x \in Requests : x # r /\ Marked(x) => req[x].v # w
  BY <1>1 DEF Parts, ScansOwnTheirMark, Marked
<1>5. /\ \A v \in Vouchers : v # w => served'[v] = served[v]
      /\ req'[r].at = "readRow" => served'[w] = 1
      /\ req'[r].at = "revert" => served'[w] = 0
      /\ \A o \in Offers : offer'[o].max = offer[o].max
  <2>1. CASE Goto(r, "readRow") /\ TakePlace(w)
    <3>1. req'[r].at = "readRow"
      BY <2>1, Moved
    <3>. QED
      BY <1>1, <1>4, <2>1, <3>1, PlaceTaken
  <2>2. CASE Goto(r, "revert") /\ UNCHANGED <<offer, served>>
    <3>1. req'[r].at = "revert"
      BY <2>2, Moved
    <3>. QED
      BY <1>4, <2>2, <3>1
  <2>. QED
    BY <2>1, <2>2 DEF ScanCount
<1>6. NothingElseRuns'
  BY <1>2, <1>3, <1>5 DEF Parts, NothingElseRuns
<1>7. ClaimsArePrivate'
  BY <1>2, <1>3 DEF Parts, ClaimsArePrivate
<1>8. ScansOwnTheirMark'
  <2>1. \A x \in Requests : req'[x].kind = "scan" =>
            /\ req[x].kind = "scan" /\ req'[x].v = req[x].v /\ req[x].v \in Vouchers
            /\ voucher'[req'[x].v].qr = "signed"
    BY <1>1, <1>2, <1>3 DEF Parts, ScansOwnTheirMark, GoodRequest
  <2>2. \A x \in Requests : Marked(x)' =>
            /\ voucher'[req'[x].v].status = "redeemed"
            /\ served'[req'[x].v] = 0
            /\ req'[x].v \notin lost'
    <3>1. SUFFICES ASSUME NEW x \in Requests, Marked(x)'
                   PROVE  /\ voucher'[req'[x].v].status = "redeemed"
                          /\ served'[req'[x].v] = 0
                          /\ req'[x].v \notin lost'
      OBVIOUS
    <3>2. CASE x = r
      BY <1>2, <1>3, <1>4, <1>5, <3>1, <3>2 DEF Marked
    <3>3. CASE x # r
      <4>1. Marked(x) /\ req'[x] = req[x] /\ req[x].v \in Vouchers /\ req[x].v # w
        BY <1>3, <1>4, <2>1, <3>1, <3>3 DEF Marked
      <4>. QED
        BY <1>2, <1>5, <4>1 DEF Parts, ScansOwnTheirMark
    <3>. QED
      BY <3>2, <3>3
  <2>3. \A x, y \in Requests : Marked(x)' /\ Marked(y)' /\ req'[x].v = req'[y].v => x = y
    <3>1. \A x \in Requests : Marked(x)' => Marked(x) /\ req'[x].v = req[x].v
      BY <1>1, <1>3 DEF Marked
    <3>. QED
      BY <3>1 DEF Parts, ScansOwnTheirMark
  <2>4. \A x \in Requests :
            req'[x].kind = "scan" /\ req'[x].at \in {"readRow", "writeRow", "audit"}
                => served'[req'[x].v] = 1
    <3>1. SUFFICES ASSUME NEW x \in Requests, req'[x].kind = "scan",
                          req'[x].at \in {"readRow", "writeRow", "audit"}
                   PROVE  served'[req'[x].v] = 1
      OBVIOUS
    <3>2. CASE x = r
      BY <1>3, <1>5, <3>1, <3>2
    <3>3. CASE x # r
      <4>1. req'[x] = req[x] /\ req[x].v \in Vouchers /\ served[req[x].v] = 1
        BY <1>3, <2>1, <3>1, <3>3 DEF Parts, ScansOwnTheirMark
      <4>. QED
        BY <1>4, <1>5, <4>1
    <3>. QED
      BY <3>2, <3>3
  <2>. QED
    BY <2>1, <2>2, <2>3, <2>4 DEF ScansOwnTheirMark, Marked
<1>9. VouchersSettled'
  <2>1. w \notin audit
    BY <1>1, <1>4 DEF Parts, VouchersSettled
  <2>2. served'[w] \in {0, 1}
    BY <1>3, <1>5
  <2>. QED
    BY <1>2, <1>4, <1>5, <2>1, <2>2 DEF Parts, VouchersSettled, Redeemed
<1>. QED
  BY <1>6, <1>7, <1>8, <1>9 DEF Parts

LEMMA RevertStep ==
    ASSUME ScanInv, NEW r \in Requests, ScanRevert(r)
    PROVE  Parts'
<1>. USE InvFacts DEF others
<1>. DEFINE w == req[r].v
<1>1. req[r].at = "revert" /\ req[r].kind = "scan" /\ w \in Vouchers
  BY DEF ScanRevert, At, GoodRequest
<1>2. UNCHANGED <<offer, edits, audit, served, lost>>
  BY DEF ScanRevert
<1>3. req'[r] = Idle /\ \A x \in Requests : x # r => req'[x] = req[x]
  BY Finished DEF ScanRevert
<1>4. /\ voucher[w].status = "redeemed" /\ voucher[w].qr = "signed"
      /\ served[w] = 0 /\ w \notin lost
      /\ \A x \in Requests : x # r /\ Marked(x) => req[x].v # w
  BY <1>1 DEF Parts, ScansOwnTheirMark, Marked
<1>5. /\ \A v \in Vouchers : v # w => voucher'[v] = voucher[v]
      /\ voucher'[w].status = "active" /\ voucher'[w].qr = "signed"
  BY <1>1, <1>4 DEF ScanRevert, VoucherRow
<1>6. NothingElseRuns'
  BY <1>2, <1>3, IdleIsNothing DEF Parts, NothingElseRuns
<1>7. ClaimsArePrivate'
  <2>1. \A x \in Requests : req'[x].kind = "claim" =>
            req'[x] = req[x] /\ req[x].v # w /\ req[x].v \in Vouchers
    BY <1>1, <1>3, IdleIsNothing, ScansMeetNoClaims DEF GoodRequest
  <2>. QED
    BY <1>5, <2>1 DEF Parts, ClaimsArePrivate
<1>8. ScansOwnTheirMark'
  <2>1. \A x \in Requests : req'[x].kind = "scan" =>
            x # r /\ req'[x] = req[x] /\ req[x].v \in Vouchers
    BY <1>3, IdleIsNothing DEF GoodRequest
  <2>2. \A x \in Requests : Marked(x)' => Marked(x) /\ req[x].v # w
    BY <1>4, <2>1 DEF Marked
  <2>3. \A x \in Requests : req'[x].kind = "scan" => voucher'[req'[x].v].qr = "signed"
    BY <1>5, <2>1 DEF Parts, ScansOwnTheirMark
  <2>. QED
    BY <1>2, <1>5, <2>1, <2>2, <2>3 DEF Parts, ScansOwnTheirMark, Marked
<1>9. VouchersSettled'
  <2>1. w \notin audit
    BY <1>1, <1>4 DEF Parts, VouchersSettled
  <2>. QED
    BY <1>2, <1>4, <1>5, <2>1 DEF Parts, VouchersSettled, Redeemed
<1>. QED
  BY <1>6, <1>7, <1>8, <1>9 DEF Parts

\* The steps of a scan that has already taken its place.
LEMMA AfterCountStep ==
    ASSUME ScanInv, NEW r \in Requests, ScanAudit(r) \/ AnalyticRead(r) \/ AnalyticWrite(r)
    PROVE  Parts'
<1>. USE InvFacts DEF others
<1>1. /\ req[r].kind = "scan" /\ req[r].v \in Vouchers
      /\ req[r].at \in {"readRow", "writeRow", "audit"}
  BY DEF ScanAudit, AnalyticRead, AnalyticWrite, At, Parts, NothingElseRuns, GoodRequest
<1>2. served[req[r].v] = 1
  BY <1>1 DEF Parts, ScansOwnTheirMark
<1>3. /\ UNCHANGED <<offer, voucher, edits, served, lost>>
      /\ audit' \subseteq audit \cup {req[r].v}
  BY DEF ScanAudit, AnalyticRead, AnalyticWrite
<1>4. /\ \/ req'[r] = Idle
         \/ /\ req'[r].kind = "scan" /\ req'[r].v = req[r].v
            /\ req'[r].at \in {"writeRow", "audit"}
      /\ \A x \in Requests : x # r => req'[x] = req[x]
  <2>1. CASE ScanAudit(r)
    BY <2>1, Finished DEF ScanAudit
  <2>2. CASE AnalyticRead(r)
    <3>1. PICK i \in Nat, n \in Nat : Remember(r, "writeRow", req[r].qr, i, n)
      BY <2>2, RowRemembered
    <3>2. req[r].qr \in {"empty", "signed"}
      BY DEF Request
    <3>. QED
      BY <1>1, <3>1, <3>2, Moved
  <2>3. CASE AnalyticWrite(r)
    BY <1>1, <2>3, Moved DEF AnalyticWrite
  <2>. QED
    BY <2>1, <2>2, <2>3
<1>5. NothingElseRuns'
  BY <1>3, <1>4, IdleIsNothing DEF Parts, NothingElseRuns
<1>6. ClaimsArePrivate'
  BY <1>3, <1>4, IdleIsNothing DEF Parts, ClaimsArePrivate
<1>7. ScansOwnTheirMark'
  <2>1. \A x \in Requests : Marked(x)' => Marked(x) /\ req'[x] = req[x]
    BY <1>4, IdleIsNothing DEF Marked
  <2>2. \A x \in Requests : req'[x].kind = "scan" =>
            req[x].kind = "scan" /\ req'[x].v = req[x].v
    BY <1>1, <1>4, IdleIsNothing
  <2>. QED
    BY <1>2, <1>3, <1>4, <2>1, <2>2, IdleIsNothing DEF Parts, ScansOwnTheirMark, Marked
<1>8. VouchersSettled'
  BY <1>2, <1>3 DEF Parts, VouchersSettled, Redeemed
<1>. QED
  BY <1>5, <1>6, <1>7, <1>8 DEF Parts

LEMMA RestartStep == ASSUME ScanInv, Restart PROVE Parts'
<1>. USE InvFacts
<1>1. \A x \in Requests : req'[x] = Idle
  BY DEF Restart
<1>2. UNCHANGED <<offer, voucher, audit, served>> /\ edits' = {}
  BY DEF Restart
<1>3. \A v \in Vouchers : v \in lost' /\ v \notin lost =>
          voucher[v].status = "redeemed" /\ served[v] = 0
  BY DEF Restart, MarkPending, Parts, ScansOwnTheirMark, Marked
<1>4. NothingElseRuns' /\ ClaimsArePrivate' /\ ScansOwnTheirMark'
  BY <1>1, <1>2, IdleIsNothing
     DEF Parts, NothingElseRuns, ClaimsArePrivate, ScansOwnTheirMark, Marked
<1>5. VouchersSettled'
  BY <1>2, <1>3 DEF Parts, VouchersSettled, Redeemed
<1>. QED
  BY <1>4, <1>5 DEF Parts
-------------------------------------------------------------------------------
(* Counting. *)

Served == {v \in Vouchers : served[v] = 1}
ServedFor(o) == {v \in Served : OfferOf[v] = o}

\* A voucher counts as used exactly when it has taken its place.
LEMMA UsedIsServed == AnyInv /\ Parts => Used = Served
<1>. SUFFICES ASSUME AnyInv, Parts, NEW v \in Vouchers
             PROVE  v \in Used <=> v \in Served
  BY DEF Used, Served, Redeemed
<1>1. served[v] \in {0, 1}
  BY DEF Parts, VouchersSettled
<1>2. CASE v \in Used
  <2>1. served[v] > 0
    BY <1>2 DEF Used, AnyInv, NoFreeRedemption
  <2>. QED
    BY <1>1, <1>2, <2>1 DEF Served
<1>3. CASE served[v] = 1
  <2>1. v \in Redeemed /\ v \notin lost
    BY <1>3 DEF Parts, VouchersSettled
  <2>2. ~MarkPending(v)
    BY <1>3 DEF MarkPending, Parts, ScansOwnTheirMark, Marked
  <2>. QED
    BY <1>3, <2>1, <2>2 DEF Used, Served
<1>. QED
  BY <1>2, <1>3 DEF Served

LEMMA PlacesCounted ==
    ASSUME ScanInv, NEW r \in Requests, ScanCount(r), NEW o \in Offers
    PROVE  /\ offer'[o].max = offer[o].max
           /\ served' # served =>
                  /\ req[r].v \in Vouchers \ Served
                  /\ Served' = Served \cup {req[r].v}
                  /\ offer[OfferOf[req[r].v]].max > 0 =>
                         offer[OfferOf[req[r].v]].count < offer[OfferOf[req[r].v]].max
           /\ served' # served /\ OfferOf[req[r].v] = o =>
                  /\ ServedFor(o)' = ServedFor(o) \cup {req[r].v}
                  /\ offer'[o].count = offer[o].count + 1
           /\ ~(served' # served /\ OfferOf[req[r].v] = o) =>
                  ServedFor(o)' = ServedFor(o) /\ offer'[o].count = offer[o].count
<1>. USE InvFacts
<1>. DEFINE w == req[r].v
<1>1. req[r].at = "count" /\ req[r].kind = "scan" /\ w \in Vouchers
  BY DEF ScanCount, At, GoodRequest
<1>2. served[w] = 0
  BY <1>1 DEF Parts, ScansOwnTheirMark, Marked
<1>3. offer[o].count \in Nat /\ offer[o].max \in Nat
  BY GoodRequests DEF OfferRow
<1>4. CASE UNCHANGED <<offer, served>>
  BY <1>3, <1>4 DEF ServedFor, Served
<1>5. CASE TakePlace(w) /\ LET f == offer[OfferOf[w]] IN f.max = 0 \/ f.count < f.max
  <2>1. /\ served'[w] = 1 /\ \A v \in Vouchers : v # w => served'[v] = served[v]
        /\ offer'[OfferOf[w]].count = offer[OfferOf[w]].count + 1
        /\ \A p \in Offers : /\ p # OfferOf[w] => offer'[p].count = offer[p].count
                             /\ offer'[p].max = offer[p].max
    BY <1>1, <1>2, <1>5, PlaceTaken
  <2>2. served' # served
    BY <1>2, <2>1
  <2>3. Served' = Served \cup {w}
    BY <1>1, <2>1 DEF Served
  <2>4. /\ OfferOf[w] = o => ServedFor(o)' = ServedFor(o) \cup {w}
        /\ OfferOf[w] # o => ServedFor(o)' = ServedFor(o)
    BY <2>3 DEF ServedFor
  <2>. QED
    <3>1. offer'[o].max = offer[o].max
      BY <2>1
    <3>2. w \in Vouchers \ Served
      BY <1>1, <1>2 DEF Served
    <3>3. OfferOf[w] = o =>
              ServedFor(o)' = ServedFor(o) \cup {w} /\ offer'[o].count = offer[o].count + 1
      BY <2>1, <2>4
    <3>4. OfferOf[w] # o => ServedFor(o)' = ServedFor(o) /\ offer'[o].count = offer[o].count
      BY <2>1, <2>4
    <3>5. offer[OfferOf[w]].max > 0 => offer[OfferOf[w]].count < offer[OfferOf[w]].max
      <4>1. PICK f : f = offer[OfferOf[w]] /\ (f.max = 0 \/ f.count < f.max)
        BY <1>5
      <4>. QED
        BY <4>1
    <3>. QED
      BY <2>2, <2>3, <3>1, <3>2, <3>3, <3>4, <3>5
<1>. QED
  BY <1>4, <1>5 DEF ScanCount

LEMMA ServedIsFinite ==
    ASSUME NEW o PROVE IsFiniteSet(ServedFor(o)) /\ Cardinality(ServedFor(o)) \in Nat
<1>1. ServedFor(o) \subseteq Vouchers
  BY DEF ServedFor, Served
<1>. QED
  BY <1>1, ConstantsAssumption, FS_Subset, FS_CardinalityType

LEMMA CountsKept ==
    ASSUME ScanInv, AnyInv', Parts', Used' = Served',
           (\E r \in Requests : ScanCount(r)) \/ UNCHANGED <<offer, served>>
    PROVE  CountExact' /\ CapRespected'
<1>1. Used = Served
  BY UsedIsServed, InvFacts DEF ScanInv
<1>2. CASE UNCHANGED <<offer, served>>
  <2>1. Used' = Used
    BY <1>1, <1>2 DEF Served
  <2>. QED
    BY <1>2, <2>1 DEF ScanInv, CountExact, CapRespected, UsedOf
<1>3. ASSUME NEW r \in Requests, ScanCount(r) PROVE CountExact' /\ CapRespected'
  <2>. SUFFICES ASSUME NEW o \in Offers
                PROVE  /\ offer'[o].count = Cardinality(UsedOf(o)')
                       /\ offer'[o].max > 0 => offer'[o].count <= offer'[o].max
    BY DEF CountExact, CapRespected
  <2>. DEFINE w == req[r].v
  <2>1. UsedOf(o) = ServedFor(o) /\ UsedOf(o)' = ServedFor(o)'
    BY <1>1 DEF UsedOf, ServedFor
  <2>2. /\ offer[o].count = Cardinality(ServedFor(o))
        /\ offer[o].max > 0 => offer[o].count <= offer[o].max
    BY <2>1 DEF ScanInv, CountExact, CapRespected
  <2>3. offer[o].count \in Nat /\ offer[o].max \in Nat
    BY InvFacts, GoodRequests DEF OfferRow
  <2>4. CASE served' # served /\ OfferOf[w] = o
    <3>1. w \notin ServedFor(o) /\ ServedFor(o)' = ServedFor(o) \cup {w}
      BY <1>3, <2>4, PlacesCounted DEF ServedFor
    <3>2. Cardinality(ServedFor(o) \cup {w}) = Cardinality(ServedFor(o)) + 1
      BY <3>1, ServedIsFinite, FS_AddElement
    <3>3. /\ offer'[o].count = offer[o].count + 1 /\ offer'[o].max = offer[o].max
          /\ offer[o].max > 0 => offer[o].count < offer[o].max
      BY <1>3, <2>4, PlacesCounted
    <3>. QED
      BY <2>1, <2>2, <2>3, <3>1, <3>2, <3>3
  <2>5. CASE ~(served' # served /\ OfferOf[w] = o)
    <3>1. /\ ServedFor(o)' = ServedFor(o)
          /\ offer'[o].count = offer[o].count /\ offer'[o].max = offer[o].max
      BY <1>3, <2>5, PlacesCounted
    <3>. QED
      BY <2>1, <2>2, <2>3, <3>1
  <2>. QED
    BY <2>4, <2>5
<1>. QED
  BY <1>2, <1>3

LEMMA ScanInit == ASSUME Init PROVE ScanInv
<1>1. AnyInv
  BY TypeInit, IdleIsNothing
     DEF Init, AnyInv, PaidBeforeSaved, NoFreeRedemption, Redeemed
<1>2. Parts
  BY IdleIsNothing DEF Init, Parts, NothingElseRuns, ClaimsArePrivate,
     ScansOwnTheirMark, Marked, VouchersSettled, Redeemed
<1>3. \A o \in Offers : UsedOf(o) = {}
  BY DEF Init, UsedOf, Used, Redeemed
<1>4. CountExact
  BY <1>3, FS_EmptySet DEF Init, CountExact
<1>5. CapRespected
  BY ConstantsAssumption DEF Init, CapRespected
<1>. QED
  BY <1>1, <1>2, <1>4, <1>5 DEF ScanInv, Parts

LEMMA ScanStep == ScansOnly /\ ScanInv /\ [Next]_vars => ScanInv'
<1>. SUFFICES ASSUME ScansOnly, ScanInv, [Next]_vars PROVE ScanInv'
  OBVIOUS
<1>2. AnyInv'
  BY TypeStep, PaidStep DEF ScanInv, AnyInv
<1>3. CASE Next
  <2>1. Parts' /\ ((\E r \in Requests : ScanCount(r)) \/ UNCHANGED <<offer, served>>)
    <3>1. ASSUME NEW r \in Requests, NEW v \in Vouchers, ClaimStart(r, v) \/ ScanStart(r, v)
          PROVE  Parts' /\ UNCHANGED <<offer, served>>
      BY <3>1, StartStep DEF ClaimStart, ScanStart, others
    <3>2. ASSUME NEW r \in Requests, ClaimFind(r) \/ ClaimInsert(r) \/ ClaimSign(r)
          PROVE  Parts' /\ UNCHANGED <<offer, served>>
      BY <3>2, ClaimStep DEF ClaimFind, ClaimInsert, ClaimSign, others
    <3>3. ASSUME NEW r \in Requests, ScanMark(r)
          PROVE  Parts' /\ UNCHANGED <<offer, served>>
      BY <3>3, MarkStep DEF ScanMark, others
    <3>4. ASSUME NEW r \in Requests, ScanCount(r)
          PROVE  Parts'
      BY <3>4, CountStep
    <3>5. ASSUME NEW r \in Requests, ScanRevert(r)
          PROVE  Parts' /\ UNCHANGED <<offer, served>>
      BY <3>5, RevertStep DEF ScanRevert, others
    <3>6. ASSUME NEW r \in Requests, ScanAudit(r) \/ AnalyticRead(r) \/ AnalyticWrite(r)
          PROVE  Parts' /\ UNCHANGED <<offer, served>>
      BY <3>6, AfterCountStep DEF ScanAudit, AnalyticRead, AnalyticWrite, others
    <3>7. CASE Restart
      BY <3>7, RestartStep DEF Restart
    <3>. QED
      BY <1>3, <3>1, <3>2, <3>3, <3>4, <3>5, <3>6, <3>7, OnlyScans
  <2>2. (Used = Served)'
    BY <1>2, <2>1, UsedIsServed, PTL
  <2>3. CountExact' /\ CapRespected'
    BY <1>2, <2>1, <2>2, CountsKept
  <2>. QED
    BY <1>2, <2>1, <2>3 DEF ScanInv, Parts
<1>4. CASE UNCHANGED vars
  <2>1. Parts'
    BY <1>4, InvFacts
       DEF vars, Parts, NothingElseRuns, ClaimsArePrivate, ScansOwnTheirMark, Marked,
           VouchersSettled, Redeemed
  <2>2. (Used = Served)'
    BY <1>2, <2>1, UsedIsServed, PTL
  <2>3. CountExact' /\ CapRespected'
    BY <1>2, <1>4, <2>1, <2>2, CountsKept DEF vars
  <2>. QED
    BY <1>2, <2>1, <2>3 DEF ScanInv, Parts
<1>. QED
  BY <1>3, <1>4
-------------------------------------------------------------------------------
(* What a venue that only scans can rely on. *)

\* The invariant is inductive for every number of vouchers, requests, offers and caps.
THEOREM ScanInvariant == ASSUME ScansOnly PROVE Spec => []ScanInv
<1>1. Init => ScanInv
  BY ScanInit
<1>2. ScanInv /\ [Next]_vars => ScanInv'
  BY ScanStep
<1>. QED
  BY <1>1, <1>2, PTL DEF Spec

\* A voucher takes at most one of its offer's places, however many scans of it run
\* (the conditional UPDATE of redeemOfferByWorker).
THEOREM VoucherUsedOnce == ASSUME ScansOnly PROVE Spec => []SingleUse
<1>1. ScanInv => SingleUse
  <2>. SUFFICES ASSUME ScanInv, NEW v \in Vouchers PROVE served[v] <= 1
    BY DEF SingleUse
  <2>1. served[v] \in {0, 1}
    BY InvFacts DEF Parts, VouchersSettled
  <2>. QED
    BY <2>1
<1>. QED
  BY <1>1, ScanInvariant, PTL

\* redemptionCount never passes maxRedemptions, though the availability check and the
\* increment are separate calls of separate requests.
THEOREM CapKept == ASSUME ScansOnly PROVE Spec => []CapRespected
<1>1. ScanInv => CapRespected
  BY DEF ScanInv
<1>. QED
  BY <1>1, ScanInvariant, PTL

\* The offers table counts exactly the used vouchers of the redemptions table, through
\* compensations and restarts, although no transaction spans the two.
THEOREM TablesAgree == ASSUME ScansOnly PROVE Spec => []CountExact
<1>1. ScanInv => CountExact
  BY DEF ScanInv
<1>. QED
  BY <1>1, ScanInvariant, PTL

\* An OFFER_REDEEM line in the activity log always stands for a place really taken.
THEOREM LogIsTrue == ASSUME ScansOnly PROVE Spec => []AuditTruthful
<1>1. ScanInv => AuditTruthful
  <2>. SUFFICES ASSUME ScanInv, NEW v \in audit
                PROVE  v \in Redeemed /\ served[v] > 0
    BY DEF AuditTruthful
  <2>1. v \in Vouchers
    BY InvFacts, GoodRequests
  <2>2. served[v] = 1
    BY <2>1, InvFacts DEF Parts, VouchersSettled
  <2>. QED
    BY <2>1, <2>2, InvFacts DEF Parts, VouchersSettled
<1>. QED
  BY <1>1, ScanInvariant, PTL

LEMMA RedeemedStays ==
    ASSUME ScansOnly, ScanInv, [Next]_vars,
           NEW v \in Redeemed, served[v] > 0
    PROVE  voucher'[v].status = "redeemed"
<1>. USE InvFacts DEF others
<1>0. v \in Vouchers /\ voucher[v].status = "redeemed"
  BY DEF Redeemed
<1>1. ASSUME NEW r \in Requests, ClaimInsert(r) \/ ClaimSign(r)
      PROVE  voucher'[v].status = "redeemed"
  <2>1. req[r].kind = "claim" /\ req[r].v \in Vouchers
    BY <1>1 DEF ClaimInsert, ClaimSign, At, ClaimSteps, GoodRequest
  <2>2. req[r].v # v
    BY <1>0, <2>1 DEF Parts, ClaimsArePrivate
  <2>. QED
    BY <1>0, <1>1, <2>2 DEF ClaimInsert, ClaimSign
<1>2. ASSUME NEW r \in Requests, ScanMark(r) PROVE voucher'[v].status = "redeemed"
  BY <1>0, <1>2 DEF ScanMark, VoucherRow
<1>3. ASSUME NEW r \in Requests, ScanRevert(r) PROVE voucher'[v].status = "redeemed"
  <2>1. Marked(r)
    BY <1>3 DEF ScanRevert, At, Marked, GoodRequest
  <2>2. req[r].v # v
    BY <2>1 DEF Parts, ScansOwnTheirMark
  <2>. QED
    BY <1>0, <1>3, <2>2 DEF ScanRevert
<1>4. CASE UNCHANGED voucher
  BY <1>0, <1>4
<1>5. CASE Next
  <2>1. \/ \E r \in Requests : ClaimInsert(r) \/ ClaimSign(r) \/ ScanMark(r) \/ ScanRevert(r)
        \/ UNCHANGED voucher
    BY <1>5, OnlyScans
       DEF ClaimStart, ScanStart, ClaimFind, ScanCount, ScanAudit, AnalyticRead,
           AnalyticWrite, Restart
  <2>. QED
    BY <1>1, <1>2, <1>3, <1>4, <2>1
<1>. QED
  BY <1>4, <1>5 DEF vars

\* A used voucher is never usable again: no compensation reaches it, and the claim's
\* second save comes before it can be scanned.
THEOREM RedeemedForGood == ASSUME ScansOnly PROVE Spec => RedeemedIsFinal
<1>1. ScanInv /\ [Next]_vars
          => [\A v \in Redeemed : served[v] > 0 => voucher'[v].status = "redeemed"]_vars
  BY RedeemedStays
<1>. QED
  BY <1>1, ScanInvariant, PTL DEF Spec, RedeemedIsFinal
-------------------------------------------------------------------------------
(* The handlers implement the ledger. *)

Issued == {v \in Vouchers : voucher[v].status # "none"}

LEMMA LedgerStep ==
    ASSUME ScansOnly, ScanInv, ScanInv', [Next]_vars
    PROVE  [Ledger!Next]_<<Issued, Used>>
<1>. USE InvFacts DEF others
<1>1. Used = Served
  BY UsedIsServed DEF ScanInv
<1>2. (ScanInv => AnyInv /\ Parts)'
  BY InvFacts, PTL DEF ScanInv, Parts
<1>3. (Used = Served)'
  BY <1>2, UsedIsServed, PTL
<1>4. UNCHANGED served => Used' = Used
  BY <1>1, <1>3 DEF Served
<1>5. ASSUME NEW r \in Requests, ClaimInsert(r) PROVE Ledger!Next
  <2>. PICK w : w = req[r].v
    OBVIOUS
  <2>1. req[r].at = "insertClaim" /\ req[r].kind = "claim" /\ w \in Vouchers
    BY <1>5 DEF ClaimInsert, At, ClaimSteps, GoodRequest
  <2>2. w \notin Issued
    BY <2>1 DEF Parts, ClaimsArePrivate, Issued
  <2>3. voucher' = [voucher EXCEPT ![w] = [status |-> "active", qr |-> "empty"]]
    BY <1>5 DEF ClaimInsert
  <2>4. Issued' = Issued \cup {w}
    BY <2>1, <2>3 DEF Issued
  <2>5. Used' = Used
    BY <1>4, <1>5 DEF ClaimInsert
  <2>6. Ledger!Issue(w)
    BY <2>2, <2>4, <2>5 DEF Ledger!Issue, Issued
  <2>. QED
    BY <2>1, <2>6 DEF Ledger!Next
<1>6. ASSUME NEW r \in Requests, ScanCount(r) PROVE Ledger!Next \/ UNCHANGED <<Issued, Used>>
  <2>. PICK w : w = req[r].v
    OBVIOUS
  <2>1. Issued' = Issued
    BY <1>6 DEF ScanCount, Issued
  <2>2. CASE UNCHANGED served
    BY <1>4, <2>1, <2>2
  <2>3. CASE served' # served
    <3>1. req[r].kind = "scan" /\ req[r].at = "count" /\ w \in Vouchers
      BY <1>6 DEF ScanCount, At, GoodRequest
    <3>2. /\ w \notin Used /\ Used' = Used \cup {w}
          /\ offer[OfferOf[w]].max > 0 => offer[OfferOf[w]].count < offer[OfferOf[w]].max
      <4>1. OfferOf[w] \in Offers
        BY <3>1, ConstantsAssumption
      <4>. QED
        BY <1>1, <1>3, <1>6, <2>3, <4>1, PlacesCounted
    <3>3. w \in Issued
      BY <3>1 DEF Parts, ScansOwnTheirMark, Marked, Issued
    <3>4. offer[OfferOf[w]].max = MaxOf[OfferOf[w]]
          /\ offer[OfferOf[w]].count = Cardinality(UsedOf(OfferOf[w]))
      BY <3>1, ConstantsAssumption DEF Parts, NothingElseRuns, ScanInv, CountExact
    <3>5. Ledger!Cardinality(Ledger!UsedFor(OfferOf[w])) = Cardinality(UsedOf(OfferOf[w]))
      BY DEF Ledger!UsedFor, UsedOf, Ledger!Cardinality, Cardinality
    <3>6. Ledger!Use(w)
      BY <2>1, <3>2, <3>3, <3>4, <3>5 DEF Ledger!Use, Issued
    <3>. QED
      BY <3>1, <3>6 DEF Ledger!Next
  <2>. QED
    BY <2>2, <2>3
<1>7. ASSUME NEW r \in Requests, ClaimSign(r) \/ ScanMark(r) \/ ScanRevert(r)
      PROVE  UNCHANGED <<Issued, Used>>
  <2>1. req[r].v \in Vouchers /\ voucher[req[r].v].status # "none"
    <3>1. CASE ClaimSign(r)
      BY <3>1 DEF ClaimSign, At, ClaimSteps, GoodRequest, Parts, ClaimsArePrivate
    <3>2. CASE ScanMark(r) \/ ScanRevert(r)
      <4>1. req[r].kind = "scan" /\ req[r].v \in Vouchers
        BY <3>2 DEF ScanMark, ScanRevert, At, GoodRequest
      <4>. QED
        BY <4>1 DEF Parts, ScansOwnTheirMark, VouchersSettled
    <3>. QED
      BY <1>7, <3>1, <3>2
  <2>2. /\ \A v \in Vouchers : v # req[r].v => voucher'[v] = voucher[v]
        /\ voucher'[req[r].v].status # "none"
    BY <1>7, <2>1 DEF ClaimSign, ScanMark, ScanRevert, VoucherRow
  <2>3. Issued' = Issued
    BY <2>1, <2>2 DEF Issued
  <2>. QED
    BY <1>4, <1>7, <2>3 DEF ClaimSign, ScanMark, ScanRevert
<1>8. CASE UNCHANGED <<voucher, served>>
  BY <1>4, <1>8 DEF Issued
<1>9. CASE Next
  <2>1. \/ \E r \in Requests : \/ ClaimInsert(r) \/ ScanCount(r)
                               \/ ClaimSign(r) \/ ScanMark(r) \/ ScanRevert(r)
        \/ UNCHANGED <<voucher, served>>
    BY <1>9, OnlyScans
       DEF ClaimStart, ScanStart, ClaimFind, ScanAudit, AnalyticRead, AnalyticWrite, Restart
  <2>. QED
    BY <1>5, <1>6, <1>7, <1>8, <2>1
<1>. QED
  BY <1>8, <1>9 DEF vars

\* The interleaved handlers implement the ledger in which using a voucher and taking
\* one of the offer's places is a single step: redeemOfferByWorker needs no transaction.
THEOREM ImplementsLedger == ASSUME ScansOnly PROVE Spec => LedgerSpec
<1>1. Init => Ledger!Init
  BY DEF Init, Ledger!Init, Used, Redeemed
<1>2. ScanInv /\ ScanInv' /\ [Next]_vars => [Ledger!Next]_(Ledger!ledger)
  BY LedgerStep DEF Ledger!ledger, Issued
<1>. QED
  BY <1>1, <1>2, ScanInvariant, PTL DEF Spec, LedgerSpec, Ledger!Spec

-------------------------------------------------------------------------------
(* Sums: what a fold over a finite set of indices is, by induction over its *)
(* subsets.                                                                 *)

Sum(f, S) == F!FoldFunctionOnSet(+, 0, f, S)
First(S) == CHOOSE x \in S : TRUE

\* h is the fold of f over every subset of S.
IsFold(f, S, h) ==
    h = [s \in SUBSET S |-> IF s = {} THEN 0 ELSE f[First(s)] + h[s \ {First(s)}]]

\* A set of subsets that has each one whose smaller subsets it has, has all.
LEMMA BySubsets ==
    ASSUME NEW S, IsFiniteSet(S), NEW P,
           \A s \in SUBSET S : (\A t \in SUBSET s : t # s => t \in P) => s \in P
    PROVE  SUBSET S \subseteq P
<1>. DEFINE T == (SUBSET S) \ P
<1>. SUFFICES ASSUME T # {} PROVE FALSE
  OBVIOUS
<1>1. FiniteSubsetsOf(S) = SUBSET S
  BY FS_FiniteSubsetsOfFinite, Zenon
<1>2. IsWellFoundedOn(StrictSubsetOrdering(S), SUBSET S)
  <2>1. IsWellFoundedOn(StrictSubsetOrdering(S), FiniteSubsetsOf(S))
    BY FS_StrictSubsetOrderingWellFounded, Zenon
  <2>. QED
    BY <1>1, <2>1, Zenon
<1>3. T \subseteq SUBSET S
  OBVIOUS
<1>. HIDE DEF T
<1>4. PICK s \in T : \A t \in T : ~(<<t, s>> \in StrictSubsetOrdering(S))
  BY <1>2, <1>3, WFMin
<1>5. s \in SUBSET S /\ s \notin P
  BY DEF T
<1>6. PICK t \in SUBSET s : t # s /\ t \notin P
  BY <1>5
<1>7. t \in T
  BY <1>5, <1>6 DEF T
<1>8. <<t, s>> \in StrictSubsetOrdering(S)
  BY <1>5, <1>6 DEF StrictSubsetOrdering
<1>. QED
  BY <1>4, <1>7, <1>8

LEMMA FirstKnown == ASSUME NEW s, s # {} PROVE First(s) \in s
BY DEF First

\* The fold of a set does not depend on what the set is part of.
LEMMA FoldsAgree ==
    ASSUME NEW f, NEW S, NEW T, NEW h, NEW k, IsFold(f, S, h), IsFold(f, T, k),
           NEW u, u \subseteq S, u \subseteq T, IsFiniteSet(u)
    PROVE  h[u] = k[u]
<1>. DEFINE P == {s \in SUBSET u : h[s] = k[s]}
<1>1. ASSUME NEW s \in SUBSET u, \A t \in SUBSET s : t # s => t \in P
      PROVE  s \in P
  <2>1. s \in SUBSET S /\ s \in SUBSET T
    OBVIOUS
  <2>2. /\ h[s] = IF s = {} THEN 0 ELSE f[First(s)] + h[s \ {First(s)}]
        /\ k[s] = IF s = {} THEN 0 ELSE f[First(s)] + k[s \ {First(s)}]
    BY <2>1 DEF IsFold
  <2>3. CASE s = {}
    BY <2>2, <2>3
  <2>4. CASE s # {}
    <3>1. s \ {First(s)} \in P
      BY <1>1, <2>4, FirstKnown
    <3>. QED
      BY <2>2, <2>4, <3>1
  <2>. QED
    BY <2>3, <2>4
<1>. HIDE DEF P
<1>2. SUBSET u \subseteq P
  BY <1>1, BySubsets
<1>. QED
  BY <1>2 DEF P

\* Every finite set has one.
LEMMA FoldsExist ==
    ASSUME NEW f, NEW S, IsFiniteSet(S)
    PROVE  \E h : IsFold(f, S, h)
<1>. DEFINE P == {s \in SUBSET S : \E h : IsFold(f, s, h)}
<1>1. ASSUME NEW s \in SUBSET S, \A t \in SUBSET s : t # s => t \in P
      PROVE  s \in P
  <2>. DEFINE H(t) == CHOOSE h : IsFold(f, t, h)
              g == [t \in SUBSET s |->
                       IF t = {} THEN 0
                       ELSE f[First(t)] + H(t \ {First(t)})[t \ {First(t)}]]
  <2>1. \A t \in SUBSET s : t # s => IsFold(f, t, H(t))
    BY <1>1
  <2>. HIDE DEF H
  <2>2. ASSUME NEW u \in SUBSET s, u # s PROVE g[u] = H(u)[u]
    <3>1. u \in SUBSET u /\ IsFold(f, u, H(u))
      BY <2>1, <2>2
    <3>2. H(u)[u] = IF u = {} THEN 0 ELSE f[First(u)] + H(u)[u \ {First(u)}]
      BY <3>1 DEF IsFold
    <3>3. CASE u = {}
      BY <3>2, <3>3
    <3>4. CASE u # {}
      <4>. DEFINE w == u \ {First(u)}
      <4>1. w \in SUBSET s /\ w \subseteq u
        BY <2>2
      <4>2. w # s
        BY <2>2, <4>1
      <4>3. IsFiniteSet(w)
        BY <4>1, FS_Subset
      <4>4. IsFold(f, w, H(w))
        BY <2>1, <4>1, <4>2
      <4>. HIDE DEF w
      <4>5. H(u)[w] = H(w)[w]
        BY <3>1, <4>1, <4>3, <4>4, FoldsAgree
      <4>. QED
        BY <3>2, <3>4, <4>5 DEF w
    <3>. QED
      BY <3>3, <3>4
  <2>3. ASSUME NEW t \in SUBSET s, t # {}
        PROVE  H(t \ {First(t)})[t \ {First(t)}] = g[t \ {First(t)}]
    <3>1. t \ {First(t)} \in SUBSET s /\ t \ {First(t)} # s
      BY <2>3, FirstKnown
    <3>. HIDE DEF g
    <3>. QED
      BY <2>2, <3>1
  <2>4. g = [t \in SUBSET s |-> IF t = {} THEN 0 ELSE f[First(t)] + g[t \ {First(t)}]]
    <3>. DEFINE k == [t \in SUBSET s |->
                         IF t = {} THEN 0 ELSE f[First(t)] + g[t \ {First(t)}]]
    <3>1. \A t \in SUBSET s : g[t] = k[t]
      BY <2>3
    <3>. QED
      BY <3>1
  <2>5. IsFold(f, s, g)
    BY <2>4 DEF IsFold
  <2>. QED
    BY <2>5
<1>. HIDE DEF P
<1>2. SUBSET S \subseteq P
  BY <1>1, BySubsets
<1>. QED
  BY <1>2 DEF P

LEMMA SumIsFold ==
    ASSUME NEW f, NEW S, IsFiniteSet(S), NEW h, IsFold(f, S, h)
    PROVE  \A s \in SUBSET S : Sum(f, s) = h[s]
<1>. TAKE s \in SUBSET S
<1>. DEFINE iter == CHOOSE i : IsFold(f, s, i)
<1>1. IsFiniteSet(s)
  BY FS_Subset
<1>2. IsFold(f, s, iter)
  BY <1>1, FoldsExist
<1>3. Sum(f, s) = iter[s]
  BY DEF Sum, F!FoldFunctionOnSet, F!MapThenFoldSet, IsFold, First
<1>. HIDE DEF iter
<1>. QED
  BY <1>1, <1>2, <1>3, FoldsAgree

\* A sum begins with the index CHOOSE picks.
LEMMA SumUnfolds ==
    ASSUME NEW f, NEW S, IsFiniteSet(S)
    PROVE  Sum(f, S) = IF S = {} THEN 0 ELSE f[First(S)] + Sum(f, S \ {First(S)})
<1>1. PICK h : IsFold(f, S, h)
  BY FoldsExist
<1>2. \A s \in SUBSET S : Sum(f, s) = h[s]
  BY <1>1, SumIsFold
<1>3. S \in SUBSET S /\ S \ {First(S)} \in SUBSET S
  OBVIOUS
<1>4. h[S] = IF S = {} THEN 0 ELSE f[First(S)] + h[S \ {First(S)}]
  BY <1>1, <1>3 DEF IsFold
<1>. QED
  BY <1>2, <1>3, <1>4

LEMMA SumIsNat ==
    ASSUME NEW f, NEW S, IsFiniteSet(S), \A x \in S : f[x] \in Nat
    PROVE  \A s \in SUBSET S : Sum(f, s) \in Nat
<1>. DEFINE P == {s \in SUBSET S : Sum(f, s) \in Nat}
<1>1. ASSUME NEW s \in SUBSET S, \A t \in SUBSET s : t # s => t \in P
      PROVE  s \in P
  <2>1. Sum(f, s) = IF s = {} THEN 0 ELSE f[First(s)] + Sum(f, s \ {First(s)})
    BY FS_Subset, SumUnfolds
  <2>2. CASE s = {}
    BY <2>1, <2>2
  <2>3. CASE s # {}
    <3>1. s \ {First(s)} \in P /\ f[First(s)] \in Nat
      BY <1>1, <2>3, FirstKnown
    <3>. QED
      BY <2>1, <2>3, <3>1
  <2>. QED
    BY <2>2, <2>3
<1>. HIDE DEF P
<1>2. SUBSET S \subseteq P
  BY <1>1, BySubsets
<1>. QED
  BY <1>2 DEF P

LEMMA SameSum ==
    ASSUME NEW f, NEW g, NEW S, IsFiniteSet(S), \A x \in S : f[x] = g[x]
    PROVE  Sum(f, S) = Sum(g, S)
<1>. DEFINE P == {s \in SUBSET S : Sum(f, s) = Sum(g, s)}
<1>1. ASSUME NEW s \in SUBSET S, \A t \in SUBSET s : t # s => t \in P
      PROVE  s \in P
  <2>1. /\ Sum(f, s) = IF s = {} THEN 0 ELSE f[First(s)] + Sum(f, s \ {First(s)})
        /\ Sum(g, s) = IF s = {} THEN 0 ELSE g[First(s)] + Sum(g, s \ {First(s)})
    BY FS_Subset, SumUnfolds
  <2>2. CASE s = {}
    BY <2>1, <2>2
  <2>3. CASE s # {}
    <3>1. s \ {First(s)} \in P /\ f[First(s)] = g[First(s)]
      BY <1>1, <2>3, FirstKnown
    <3>. QED
      BY <2>1, <2>3, <3>1
  <2>. QED
    BY <2>2, <2>3
<1>. HIDE DEF P
<1>2. SUBSET S \subseteq P
  BY <1>1, BySubsets
<1>. QED
  BY <1>2 DEF P

\* Any index may be taken first.
LEMMA SumPicks ==
    ASSUME NEW f, NEW S, IsFiniteSet(S), \A x \in S : f[x] \in Nat
    PROVE  \A x \in S : Sum(f, S) = f[x] + Sum(f, S \ {x})
<1>. DEFINE P == {s \in SUBSET S : \A x \in s : Sum(f, s) = f[x] + Sum(f, s \ {x})}
<1>1. ASSUME NEW s \in SUBSET S, \A t \in SUBSET s : t # s => t \in P
      PROVE  s \in P
  <2>. SUFFICES ASSUME NEW x \in s PROVE Sum(f, s) = f[x] + Sum(f, s \ {x})
    OBVIOUS
  <2>. DEFINE c == First(s)
  <2>1. c \in s /\ Sum(f, s) = f[c] + Sum(f, s \ {c})
    BY FS_Subset, SumUnfolds, FirstKnown
  <2>. HIDE DEF c
  <2>2. CASE x = c
    BY <2>1, <2>2
  <2>3. CASE x # c
    <3>1. s \ {c} \in P /\ s \ {x} \in P
      BY <1>1, <2>1
    <3>2. x \in s \ {c} /\ c \in s \ {x} /\ (s \ {c}) \ {x} = (s \ {x}) \ {c}
      BY <2>1, <2>3
    <3>3. PICK t \in SUBSET S : t = (s \ {x}) \ {c}
      OBVIOUS
    <3>4. /\ Sum(f, s \ {c}) = f[x] + Sum(f, t)
          /\ Sum(f, s \ {x}) = f[c] + Sum(f, t)
      BY <3>1, <3>2, <3>3
    <3>5. Sum(f, t) \in Nat /\ f[x] \in Nat /\ f[c] \in Nat
      BY <2>1, SumIsNat
    <3>. QED
      BY <2>1, <3>4, <3>5
  <2>. QED
    BY <2>2, <2>3
<1>. HIDE DEF P
<1>2. SUBSET S \subseteq P
  BY <1>1, BySubsets
<1>. QED
  BY <1>2 DEF P

LEMMA SumRaised ==
    ASSUME NEW f, NEW g, NEW S, IsFiniteSet(S), \A x \in S : f[x] \in Nat,
           NEW v, NEW n \in Nat, v \in S => g[v] = f[v] + n,
           \A x \in S : x # v => g[x] = f[x]
    PROVE  Sum(g, S) = IF v \in S THEN Sum(f, S) + n ELSE Sum(f, S)
<1>1. CASE v \notin S
  BY <1>1, SameSum
<1>2. CASE v \in S
  <2>. DEFINE T == S \ {v}
  <2>1. T \subseteq S /\ IsFiniteSet(T) /\ Sum(f, T) \in Nat
    BY FS_Subset, SumIsNat
  <2>2. Sum(g, T) = Sum(f, T)
    <3>1. \A x \in T : f[x] = g[x]
      OBVIOUS
    <3>. HIDE DEF T
    <3>. QED
      BY <2>1, <3>1, SameSum
  <2>3. \A x \in S : g[x] \in Nat
    BY <1>2
  <2>4. Sum(f, S) = f[v] + Sum(f, T)
    BY <1>2, SumPicks
  <2>5. Sum(g, S) = g[v] + Sum(g, T)
    BY <1>2, <2>3, SumPicks
  <2>. HIDE DEF T
  <2>. QED
    BY <1>2, <2>1, <2>2, <2>4, <2>5
<1>. QED
  BY <1>1, <1>2

LEMMA SumGrows ==
    ASSUME NEW f, NEW g, NEW S, IsFiniteSet(S), \A x \in S : f[x] \in Nat, NEW v, v \notin S,
           g[v] \in Nat, \A x \in S : g[x] = f[x]
    PROVE  Sum(g, S \cup {v}) = Sum(f, S) + g[v]
<1>. DEFINE T == S \cup {v}
<1>1. IsFiniteSet(T)
  BY FS_AddElement
<1>2. \A x \in T : g[x] \in Nat
  OBVIOUS
<1>3. v \in T /\ T \ {v} = S
  OBVIOUS
<1>. HIDE DEF T
<1>4. Sum(g, T) = g[v] + Sum(g, S)
  BY <1>1, <1>2, <1>3, SumPicks
<1>5. Sum(g, S) = Sum(f, S) /\ Sum(f, S) \in Nat
  BY SameSum, SumIsNat
<1>. QED
  BY <1>4, <1>5 DEF T

LEMMA SumAtMost ==
    ASSUME NEW f, NEW g, NEW S, IsFiniteSet(S),
           \A x \in S : f[x] \in Nat /\ g[x] \in Nat /\ f[x] <= g[x]
    PROVE  Sum(f, S) <= Sum(g, S)
<1>. DEFINE P == {s \in SUBSET S : Sum(f, s) <= Sum(g, s)}
<1>0. \A s \in SUBSET S : Sum(f, s) \in Nat /\ Sum(g, s) \in Nat
  BY SumIsNat
<1>1. ASSUME NEW s \in SUBSET S, \A t \in SUBSET s : t # s => t \in P
      PROVE  s \in P
  <2>1. /\ Sum(f, s) = IF s = {} THEN 0 ELSE f[First(s)] + Sum(f, s \ {First(s)})
        /\ Sum(g, s) = IF s = {} THEN 0 ELSE g[First(s)] + Sum(g, s \ {First(s)})
    BY FS_Subset, SumUnfolds
  <2>2. CASE s = {}
    BY <2>1, <2>2
  <2>3. CASE s # {}
    <3>1. First(s) \in S /\ s \ {First(s)} \in P /\ s \ {First(s)} \in SUBSET S
      BY <1>1, <2>3, FirstKnown
    <3>2. PICK t : t = s \ {First(s)}
      OBVIOUS
    <3>3. Sum(f, t) \in Nat /\ Sum(g, t) \in Nat /\ Sum(f, t) <= Sum(g, t)
      BY <1>0, <3>1, <3>2
    <3>. QED
      BY <2>1, <2>3, <3>1, <3>2, <3>3
  <2>. QED
    BY <2>2, <2>3
<1>. HIDE DEF P
<1>2. SUBSET S \subseteq P
  BY <1>1, BySubsets
<1>. QED
  BY <1>2 DEF P

-------------------------------------------------------------------------------
(* An offer's count never overstates, whichever old copies are saved. *)

VouchersOf(o) == {v \in Vouchers : OfferOf[v] = o}
Happened(o) == Sum(served, VouchersOf(o))

\* Neither the row nor a copy of it counts more than happened.
CountInv ==
    /\ \A o \in Offers : offer[o].count <= Happened(o)
    /\ \A e \in edits : e.snap.count <= Happened(e.offer)

LEMMA HappenedTyped ==
    ASSUME served \in [Vouchers -> Nat], NEW o
    PROVE  Happened(o) \in Nat /\ IsFiniteSet(VouchersOf(o))
<1>1. VouchersOf(o) \subseteq Vouchers
  BY DEF VouchersOf
<1>2. IsFiniteSet(VouchersOf(o))
  BY <1>1, ConstantsAssumption, FS_Subset
<1>3. \A v \in VouchersOf(o) : served[v] \in Nat
  BY <1>1
<1>. QED
  BY <1>2, <1>3, SumIsNat DEF Happened

LEMMA PlaceHappened ==
    ASSUME TypeInv, NEW v \in Vouchers, TakePlace(v)
    PROVE  \A o \in Offers :
               Happened(o)' = IF o = OfferOf[v] THEN Happened(o) + 1 ELSE Happened(o)
<1>. TAKE o \in Offers
<1>1. served \in [Vouchers -> Nat]
  BY GoodRequests
<1>2. /\ served'[v] = served[v] + 1
      /\ \A w \in Vouchers : w # v => served'[w] = served[w]
  BY PlaceTaken
<1>3. v \in VouchersOf(o) <=> o = OfferOf[v]
  BY DEF VouchersOf
<1>4. /\ \A w \in VouchersOf(o) : served[w] \in Nat /\ (w # v => served'[w] = served[w])
      /\ IsFiniteSet(VouchersOf(o))
  BY <1>1, <1>2, HappenedTyped DEF VouchersOf
<1>5. Sum(served', VouchersOf(o))
        = IF v \in VouchersOf(o) THEN Sum(served, VouchersOf(o)) + 1 ELSE Sum(served, VouchersOf(o))
  BY <1>2, <1>4, SumRaised
<1>6. Happened(o)' = Sum(served', VouchersOf(o))
  BY DEF Happened
<1>. QED
  BY <1>3, <1>5, <1>6 DEF Happened

\* What a step does to the counts.
CountsStay ==
    /\ UNCHANGED <<served, edits>>
    /\ \A o \in Offers : offer'[o].count = offer[o].count

LEMMA CountSteps ==
    ASSUME TypeInv, [Next]_vars
    PROVE  \/ CountsStay
           \/ \E v \in Vouchers : TakePlace(v) /\ UNCHANGED edits
           \/ \E o \in Offers : /\ UNCHANGED <<offer, served>>
                                /\ \E to : edits' = edits \cup {[to |-> to, offer |-> o, snap |-> offer[o]]}
           \/ \E e \in edits : EditSave(e)
           \/ UNCHANGED <<offer, served>> /\ edits' = {}
<1>. USE DEF others
<1>0. /\ \A r \in Requests : GoodRequest(req[r])
      /\ offer \in [Offers -> OfferRow]
  BY GoodRequests
<1>1. ASSUME NEW r \in Requests, Begin(r) PROVE CountsStay
  BY <1>1 DEF Begin, ClickStart, ClaimStart, RedeemStart, RedeemByCodeStart, ScanStart, CountsStay
<1>2. ASSUME NEW r \in Requests, Continue(r), ~RedeemBump(r), ~ScanCount(r) PROVE CountsStay
  BY <1>2 DEF Continue, ClaimFind, ClaimInsert, ClaimSign, RedeemLoad, RedeemSave, ScanMark,
              ScanRevert, ScanAudit, AnalyticRead, AnalyticWrite, CountsStay
<1>3. ASSUME NEW r \in Requests, RedeemBump(r) \/ ScanCount(r)
      PROVE  CountsStay \/ \E v \in Vouchers : TakePlace(v) /\ UNCHANGED edits
  <2>1. req[r].v \in Vouchers
    BY <1>0, <1>3 DEF RedeemBump, ScanCount, At, GoodRequest
  <2>. QED
    BY <1>3, <2>1 DEF RedeemBump, ScanCount, CountsStay
<1>4. ASSUME NEW o \in Offers, NEW to, EditRead(o, to) \/ SyncToggleRead(o, to)
      PROVE  /\ UNCHANGED <<offer, served>>
             /\ edits' = edits \cup {[to |-> to, offer |-> o, snap |-> offer[o]]}
  BY <1>4 DEF EditRead, SyncToggleRead
<1>5. ASSUME NEW o \in Offers, NEW max, NEW reopen, UpdateOffer(o, max, reopen) PROVE CountsStay
  BY <1>0, <1>5 DEF UpdateOffer, CountsStay, OfferRow
<1>6. CASE Restart
  BY <1>6 DEF Restart
<1>7. CASE UNCHANGED vars
  BY <1>7 DEF vars, CountsStay
<1>8. CASE EditOffer
  BY <1>4, <1>5, <1>8 DEF EditOffer
<1>. QED
  BY <1>1, <1>2, <1>3, <1>6, <1>7, <1>8 DEF Next

LEMMA CountKeeps ==
    ASSUME TypeInv, CountInv, [Next]_vars
    PROVE  CountInv'
<1>0. /\ served \in [Vouchers -> Nat] /\ offer \in [Offers -> OfferRow] /\ edits \subseteq Edit
      /\ \A o : Happened(o) \in Nat
  BY GoodRequests, HappenedTyped
<1>1. \A e \in edits : e.offer \in Offers
  BY <1>0 DEF Edit
<1>2. CASE CountsStay
  <2>1. \A o : Happened(o)' = Happened(o)
    BY <1>2 DEF CountsStay, Happened
  <2>. QED
    BY <1>2, <2>1 DEF CountsStay, CountInv
<1>3. ASSUME NEW v \in Vouchers, TakePlace(v), UNCHANGED edits PROVE CountInv'
  <2>1. /\ offer'[OfferOf[v]].count = offer[OfferOf[v]].count + 1
        /\ \A o \in Offers : o # OfferOf[v] => offer'[o].count = offer[o].count
    BY <1>3, PlaceTaken
  <2>2. \A o \in Offers :
           Happened(o)' = IF o = OfferOf[v] THEN Happened(o) + 1 ELSE Happened(o)
    BY <1>3, PlaceHappened
  <2>3. \A o \in Offers : offer[o].count \in Nat
    BY <1>0 DEF OfferRow
  <2>4. \A e \in edits : e.snap.count \in Nat
    BY <1>0 DEF Edit, OfferRow
  <2>5. ASSUME NEW o \in Offers PROVE offer'[o].count <= Happened(o)'
    <3>1. offer[o].count <= Happened(o) /\ offer[o].count \in Nat /\ Happened(o) \in Nat
      BY <1>0, <2>3 DEF CountInv
    <3>. QED
      BY <2>1, <2>2, <3>1
  <2>6. ASSUME NEW e \in edits' PROVE e.snap.count <= Happened(e.offer)'
    <3>1. /\ e \in edits /\ e.offer \in Offers /\ e.snap.count <= Happened(e.offer)
          /\ e.snap.count \in Nat /\ Happened(e.offer) \in Nat
      BY <1>0, <1>1, <1>3, <2>4 DEF CountInv
    <3>2. Happened(e.offer)' = Happened(e.offer) + 1 \/ Happened(e.offer)' = Happened(e.offer)
      BY <2>2, <3>1
    <3>. QED
      BY <3>1, <3>2
  <2>. QED
    BY <2>5, <2>6 DEF CountInv
<1>4. ASSUME NEW o \in Offers, UNCHANGED <<offer, served>>, NEW to,
             edits' = edits \cup {[to |-> to, offer |-> o, snap |-> offer[o]]}
      PROVE  CountInv'
  <2>1. \A p : Happened(p)' = Happened(p)
    BY <1>4 DEF Happened
  <2>2. ASSUME NEW e \in edits' PROVE e.snap.count <= Happened(e.offer)
    BY <1>4, <2>2 DEF CountInv
  <2>. QED
    BY <1>4, <2>1, <2>2 DEF CountInv
<1>5. ASSUME NEW e \in edits, EditSave(e) PROVE CountInv'
  <2>1. \A p : Happened(p)' = Happened(p)
    BY <1>5 DEF EditSave, Happened
  <2>2. \A o \in Offers : offer'[o].count = IF o = e.offer THEN e.snap.count ELSE offer[o].count
    BY <1>0, <1>5 DEF EditSave
  <2>3. edits' \subseteq edits
    BY <1>5 DEF EditSave
  <2>. QED
    BY <2>1, <2>2, <2>3 DEF CountInv
<1>6. ASSUME UNCHANGED <<offer, served>>, edits' = {} PROVE CountInv'
  <2>1. \A p : Happened(p)' = Happened(p)
    BY <1>6 DEF Happened
  <2>. QED
    BY <1>6, <2>1 DEF CountInv
<1>. QED
  BY <1>2, <1>3, <1>4, <1>5, <1>6, CountSteps

\* A business is never told it gave away more than it did, although toggle, delete and the
\* offline toggle save whole old rows of the offer over the count (toggleOffer, deleteOffer).
THEOREM CountsNeverOverstate == Spec => []CountNeverOverstates
<1>1. Init => CountInv
  <2>. SUFFICES ASSUME Init PROVE CountInv
    OBVIOUS
  <2>1. \A o \in Offers : offer[o].count = 0 /\ Happened(o) \in Nat
    BY HappenedTyped DEF Init
  <2>. QED
    BY <2>1 DEF Init, CountInv
<1>2. (TypeInv /\ CountInv) /\ [Next]_vars => (TypeInv /\ CountInv)'
  BY TypeStep, CountKeeps
<1>3. CountInv => CountNeverOverstates
  BY DEF CountInv, CountNeverOverstates, Happened, Sum, VouchersOf
<1>. QED
  BY <1>1, <1>2, <1>3, TypeInit, PTL DEF Spec

-------------------------------------------------------------------------------
(* The analytics never overcount, whichever updates of a row are lost. *)

\* The redemptions that are not in the analytics yet, and what a request read of a row.
Owing == {r \in Requests : req[r].at \in {"readRow", "writeRow"} /\ req[r].kind # "click"}
ReadAtMost(c, r) ==
    req[r].at = "writeRow" =>
        IF req[r].row = 0 THEN req[r].seen = 0
        ELSE req[r].row \in DOMAIN rows /\ req[r].seen <= c[req[r].row]

\* c counts what was ever added to each row; it bounds the row and what was read of it.
Covers(c) ==
    /\ c \in [DOMAIN rows -> Nat]
    /\ \A i \in DOMAIN rows : rows[i] <= c[i]
    /\ \A r \in Requests : ReadAtMost(c, r)
    /\ Sum(c, DOMAIN rows) + Cardinality(Owing) <= Sum(served, Vouchers)

AnalyticsInv == IsFiniteSet(Owing) /\ \E c : Covers(c)

LEMMA RowsTyped ==
    ASSUME TypeInv
    PROVE  /\ Len(rows) \in Nat /\ DOMAIN rows = 1 .. Len(rows) /\ IsFiniteSet(DOMAIN rows)
           /\ \A i \in DOMAIN rows : rows[i] \in Nat
           /\ served \in [Vouchers -> Nat] /\ Sum(served, Vouchers) \in Nat
<1>1. rows \in Seq(Nat) /\ served \in [Vouchers -> Nat]
  BY GoodRequests
<1>2. Len(rows) \in Nat /\ DOMAIN rows = 1 .. Len(rows) /\ \A i \in DOMAIN rows : rows[i] \in Nat
  BY <1>1
<1>3. IsFiniteSet(DOMAIN rows)
  BY <1>2, FS_Interval
<1>4. Sum(served, Vouchers) \in Nat
  BY <1>1, SumIsNat, ConstantsAssumption
<1>. QED
  BY <1>1, <1>2, <1>3, <1>4

\* A step that leaves the rows, and takes no request away from or to one that owes.
LEMMA OwingStays ==
    ASSUME AnalyticsInv, UNCHANGED <<rows, served>>, Owing' = Owing,
           \A c : Covers(c) => \A r \in Requests : ReadAtMost(c, r)'
    PROVE  AnalyticsInv'
<1>1. PICK c : Covers(c)
  BY DEF AnalyticsInv
<1>2. c \in [DOMAIN rows -> Nat] /\ \A i \in DOMAIN rows : rows[i] <= c[i]
  BY <1>1 DEF Covers
<1>3. Sum(c, DOMAIN rows) + Cardinality(Owing) <= Sum(served, Vouchers)
  BY <1>1 DEF Covers
<1>4. Covers(c)'
  BY <1>1, <1>2, <1>3 DEF Covers
<1>. QED
  BY <1>4 DEF AnalyticsInv

\* Nobody but r moves, and r is elsewhere before and after.
LEMMA ElsewhereOwes ==
    ASSUME AnalyticsInv, NEW r \in Requests, \A q \in Requests : q # r => req'[q] = req[q],
           UNCHANGED <<rows, served>>,
           req[r].at \notin {"readRow", "writeRow"} \/ req[r].kind = "click",
           req'[r].at \notin {"readRow", "writeRow"} \/ req'[r].kind = "click",
           req'[r].at # "writeRow"
    PROVE  AnalyticsInv'
<1>1. Owing' = Owing
  BY DEF Owing
<1>2. ASSUME NEW c, Covers(c), NEW q \in Requests PROVE ReadAtMost(c, q)'
  <2>1. ReadAtMost(c, q)
    BY <1>2 DEF Covers
  <2>. QED
    BY <2>1 DEF ReadAtMost
<1>. QED
  BY <1>1, <1>2, OwingStays

LEMMA PlaceServed ==
    ASSUME TypeInv, NEW v \in Vouchers, TakePlace(v)
    PROVE  Sum(served', Vouchers) = Sum(served, Vouchers) + 1
<1>1. /\ served'[v] = served[v] + 1
      /\ \A w \in Vouchers : w # v => served'[w] = served[w]
  BY PlaceTaken
<1>2. IsFiniteSet(Vouchers) /\ \A w \in Vouchers : served[w] \in Nat
  BY RowsTyped, ConstantsAssumption
<1>3. Sum(served', Vouchers)
        = IF v \in Vouchers THEN Sum(served, Vouchers) + 1 ELSE Sum(served, Vouchers)
  BY <1>1, <1>2, SumRaised
<1>. QED
  BY <1>3

\* A row more, and what a row more or a row raised does to the sum.
LEMMA RowAppended ==
    ASSUME NEW s \in Seq(Nat), NEW x \in Nat, NEW n, n = Len(s) + 1
    PROVE  /\ DOMAIN Append(s, x) = DOMAIN s \cup {n}
           /\ n \notin DOMAIN s /\ Append(s, x)[n] = x
           /\ \A i \in DOMAIN s : Append(s, x)[i] = s[i]
<1>1. Len(s) \in Nat /\ DOMAIN s = 1 .. Len(s)
  OBVIOUS
<1>2. Append(s, x) \in Seq(Nat) /\ Len(Append(s, x)) = Len(s) + 1
  OBVIOUS
<1>3. DOMAIN Append(s, x) = 1 .. Len(s) + 1
  BY <1>2
<1>4. 1 .. Len(s) + 1 = (1 .. Len(s)) \cup {Len(s) + 1}
  BY <1>1
<1>5. Append(s, x)[Len(s) + 1] = x /\ \A i \in 1 .. Len(s) : Append(s, x)[i] = s[i]
  OBVIOUS
<1>. QED
  BY <1>1, <1>3, <1>4, <1>5

LEMMA PlaceOwes ==
    ASSUME TypeInv, AnalyticsInv, NEW r \in Requests, RedeemBump(r) \/ ScanCount(r)
    PROVE  AnalyticsInv'
<1>0. /\ GoodRequest(req[r]) /\ req[r] \in Request /\ rows' = rows
      /\ req[r].at \in {"bump", "count"} /\ req[r].v \in Vouchers /\ req[r].kind # "click"
  BY GoodRequests DEF GoodRequest, RedeemBump, ScanCount, At
<1>1. CASE TakePlace(req[r].v) /\ Goto(r, "readRow")
  <2>1. /\ req'[r].kind = req[r].kind /\ req'[r].at = "readRow"
        /\ \A q \in Requests : q # r => req'[q] = req[q]
    BY <1>1, Moved
  <2>2. Owing' = Owing \cup {r} /\ r \notin Owing
    BY <1>0, <2>1 DEF Owing
  <2>3. /\ IsFiniteSet(Owing) /\ Cardinality(Owing) \in Nat /\ IsFiniteSet(Owing')
        /\ Cardinality(Owing') = Cardinality(Owing) + 1
    BY <2>2, FS_AddElement, FS_CardinalityType DEF AnalyticsInv
  <2>4. Sum(served', Vouchers) = Sum(served, Vouchers) + 1 /\ Sum(served, Vouchers) \in Nat
    BY <1>0, <1>1, RowsTyped, PlaceServed
  <2>5. PICK c : Covers(c)
    BY DEF AnalyticsInv
  <2>6. Sum(c, DOMAIN rows) \in Nat
    BY <2>5, RowsTyped, SumIsNat DEF Covers
  <2>7. \A q \in Requests : ReadAtMost(c, q)'
    BY <1>0, <2>1, <2>5 DEF Covers, ReadAtMost
  <2>8. Sum(c, DOMAIN rows) + Cardinality(Owing') <= Sum(served', Vouchers)
    <3>1. Sum(c, DOMAIN rows) + Cardinality(Owing) <= Sum(served, Vouchers)
      BY <2>5 DEF Covers
    <3>. QED
      BY <2>3, <2>4, <2>6, <3>1
  <2>9. Covers(c)'
    BY <1>0, <2>5, <2>7, <2>8 DEF Covers
  <2>. QED
    BY <2>3, <2>9 DEF AnalyticsInv
<1>2. CASE Goto(r, "revert") /\ UNCHANGED <<offer, served>>
  <2>1. /\ req'[r].at = "revert" /\ \A q \in Requests : q # r => req'[q] = req[q]
    BY <1>2, Moved
  <2>. QED
    BY <1>0, <1>2, <2>1, ElsewhereOwes
<1>. QED
  BY <1>1, <1>2 DEF RedeemBump, ScanCount

LEMMA ReadOwes ==
    ASSUME TypeInv, AnalyticsInv, NEW r \in Requests, AnalyticRead(r)
    PROVE  AnalyticsInv'
<1>1. req[r].at = "readRow" /\ UNCHANGED <<rows, served>>
  BY DEF AnalyticRead, At, others
<1>2. PICK i \in Nat, n \in Nat :
          /\ Remember(r, "writeRow", req[r].qr, i, n)
          /\ \/ i = 0 /\ n = 0
             \/ i \in DOMAIN rows /\ n = rows[i]
  BY RowsTyped DEF AnalyticRead
<1>3. /\ req'[r].kind = req[r].kind /\ req'[r].at = "writeRow"
      /\ req'[r].row = i /\ req'[r].seen = n
      /\ \A q \in Requests : q # r => req'[q] = req[q]
  BY <1>2, GoodRequests DEF Remember
<1>4. Owing' = Owing
  BY <1>1, <1>3 DEF Owing
<1>5. ASSUME NEW c, Covers(c), NEW q \in Requests PROVE ReadAtMost(c, q)'
  <2>1. CASE q # r
    BY <1>1, <1>3, <1>5, <2>1 DEF Covers, ReadAtMost
  <2>2. CASE q = r
    <3>1. i \in DOMAIN rows => n <= c[i] /\ i # 0
      BY <1>2, <1>5, RowsTyped DEF Covers
    <3>. QED
      BY <1>1, <1>2, <1>3, <2>2, <3>1 DEF ReadAtMost
  <2>. QED
    BY <2>1, <2>2
<1>. QED
  BY <1>1, <1>4, <1>5, OwingStays

\* What r adds to the row it writes.
Added(r) == IF req[r].kind = "click" THEN 0 ELSE 1

LEMMA WriteOwes ==
    ASSUME TypeInv, AnalyticsInv, NEW r \in Requests, AnalyticWrite(r)
    PROVE  AnalyticsInv'
<1>0. /\ req[r] \in Request /\ req[r].at = "writeRow" /\ served' = served
      /\ req[r].seen \in Nat /\ req[r].row \in Nat
      /\ Added(r) \in Nat /\ rows \in Seq(Nat)
      /\ rows' = IF req[r].row = 0 THEN Append(rows, req[r].seen + Added(r))
                 ELSE [rows EXCEPT ![req[r].row] = req[r].seen + Added(r)]
  BY GoodRequests DEF AnalyticWrite, At, others, Added, Request
<1>1. /\ req'[r].at \notin {"readRow", "writeRow"}
      /\ \A q \in Requests : q # r => req'[q] = req[q]
  BY Moved, Finished, IdleIsNothing DEF AnalyticWrite
<1>2. Owing' = Owing \ {r} /\ (r \in Owing <=> Added(r) = 1)
  BY <1>0, <1>1 DEF Owing, Added
<1>3. /\ IsFiniteSet(Owing) /\ Cardinality(Owing) \in Nat /\ IsFiniteSet(Owing')
      /\ Cardinality(Owing') \in Nat
      /\ Cardinality(Owing') = Cardinality(Owing) - Added(r)
  <2>1. IsFiniteSet(Owing)
    BY DEF AnalyticsInv
  <2>2. /\ Cardinality(Owing) \in Nat /\ IsFiniteSet(Owing') /\ Cardinality(Owing') \in Nat
        /\ Cardinality(Owing') = IF r \in Owing THEN Cardinality(Owing) - 1 ELSE Cardinality(Owing)
    BY <1>2, <2>1, FS_RemoveElement, FS_CardinalityType
  <2>. QED
    BY <1>2, <2>1, <2>2 DEF Added
<1>4. PICK c : Covers(c)
  BY DEF AnalyticsInv
<1>5. /\ c \in [DOMAIN rows -> Nat] /\ Sum(c, DOMAIN rows) \in Nat
      /\ Sum(c, DOMAIN rows) + Cardinality(Owing) <= Sum(served, Vouchers)
      /\ \A i \in DOMAIN rows : rows[i] <= c[i]
      /\ \A q \in Requests : ReadAtMost(c, q)
  <2>1. c \in [DOMAIN rows -> Nat]
    BY <1>4 DEF Covers
  <2>. QED
    BY <1>4, <2>1, RowsTyped, SumIsNat DEF Covers
\* It is enough to show who covers the rows afterwards.
<1>6. ASSUME NEW d, d \in [DOMAIN rows' -> Nat],
             \A i \in DOMAIN rows' : rows'[i] <= d[i],
             DOMAIN rows \subseteq DOMAIN rows', \A i \in DOMAIN rows : c[i] <= d[i],
             Sum(d, DOMAIN rows') = Sum(c, DOMAIN rows) + Added(r)
      PROVE  AnalyticsInv'
  <2>1. \A q \in Requests : ReadAtMost(d, q)'
    <3>. TAKE q \in Requests
    <3>1. CASE q = r
      BY <1>1, <3>1 DEF ReadAtMost
    <3>2. CASE q # r
      <4>1. req'[q] = req[q] /\ req[q].seen \in Nat /\ ReadAtMost(c, q)
        BY <1>1, <1>5, <3>2, GoodRequests DEF Request
      <4>2. \A i \in DOMAIN rows : c[i] \in Nat /\ d[i] \in Nat /\ c[i] <= d[i]
        BY <1>5, <1>6
      <4>. QED
        BY <1>6, <4>1, <4>2 DEF ReadAtMost
    <3>. QED
      BY <3>1, <3>2
  <2>2. Sum(d, DOMAIN rows') + Cardinality(Owing') <= Sum(served', Vouchers)
    BY <1>0, <1>3, <1>5, <1>6, RowsTyped
  <2>3. Covers(d)'
    BY <1>6, <2>1, <2>2 DEF Covers
  <2>. QED
    BY <1>3, <2>3 DEF AnalyticsInv
<1>7. CASE req[r].row = 0
  <2>. DEFINE n == Len(rows) + 1
              d == [i \in DOMAIN rows \cup {n} |-> IF i = n THEN Added(r) ELSE c[i]]
  <2>1. /\ rows' = Append(rows, Added(r)) /\ DOMAIN rows' = DOMAIN rows \cup {n}
        /\ n \notin DOMAIN rows /\ rows'[n] = Added(r)
        /\ \A i \in DOMAIN rows : rows'[i] = rows[i]
    <3>1. req[r].seen = 0
      BY <1>0, <1>5, <1>7 DEF ReadAtMost
    <3>2. rows' = Append(rows, Added(r))
      BY <1>0, <1>7, <3>1
    <3>. QED
      BY <1>0, <3>2, RowAppended
  <2>2. /\ \A i \in DOMAIN rows : d[i] = c[i] /\ c[i] \in Nat /\ i # n
        /\ d[n] = Added(r)
    BY <1>5, <2>1
  <2>3. d \in [DOMAIN rows' -> Nat]
    BY <1>0, <1>5, <2>1
  <2>. HIDE DEF d, n
  <2>4. Sum(d, DOMAIN rows \cup {n}) = Sum(c, DOMAIN rows) + d[n]
    <3>1. IsFiniteSet(DOMAIN rows) /\ \A i \in DOMAIN rows : c[i] \in Nat
      BY <2>2, RowsTyped
    <3>2. n \notin DOMAIN rows /\ d[n] \in Nat /\ \A i \in DOMAIN rows : d[i] = c[i]
      BY <1>0, <2>1, <2>2
    <3>. PICK D : D = DOMAIN rows
      OBVIOUS
    <3>3. Sum(d, D \cup {n}) = Sum(c, D) + d[n]
      BY <3>1, <3>2, SumGrows
    <3>. QED
      BY <3>3
  <2>5. \A i \in DOMAIN rows' : rows'[i] <= d[i]
    BY <1>0, <1>5, <2>1, <2>2
  <2>6. \A i \in DOMAIN rows : c[i] <= d[i]
    BY <2>2
  <2>. QED
    BY <1>6, <2>1, <2>2, <2>3, <2>4, <2>5, <2>6
<1>8. CASE req[r].row # 0
  <2>. DEFINE k == req[r].row
              d == [c EXCEPT ![k] = @ + Added(r)]
  <2>1. k \in DOMAIN rows /\ req[r].seen <= c[k]
    BY <1>0, <1>5, <1>8 DEF ReadAtMost
  <2>2. /\ DOMAIN rows' = DOMAIN rows /\ rows'[k] = req[r].seen + Added(r)
        /\ \A i \in DOMAIN rows : i # k => rows'[i] = rows[i]
    BY <1>0, <1>8, <2>1
  <2>3. d \in [DOMAIN rows -> Nat] /\ d[k] = c[k] + Added(r)
        /\ \A i \in DOMAIN rows : c[i] \in Nat /\ (i # k => d[i] = c[i])
    <3>1. PICK n \in Nat : n = Added(r)
      BY <1>0
    <3>2. c \in [DOMAIN rows -> Nat] /\ \A i \in DOMAIN rows : c[i] \in Nat
      BY <1>5
    <3>3. PICK more \in Nat : more = c[k] + n
      BY <2>1, <3>2
    <3>4. d = [c EXCEPT ![k] = more]
      BY <3>1, <3>3
    <3>. HIDE DEF d, k
    <3>5. d \in [DOMAIN rows -> Nat] /\ d[k] = more
      BY <2>1, <3>2, <3>4
    <3>6. \A i \in DOMAIN rows : i # k => d[i] = c[i]
      BY <3>2, <3>4
    <3>. QED
      BY <3>1, <3>2, <3>3, <3>5, <3>6
  <2>. HIDE DEF d, k
  <2>4. Sum(d, DOMAIN rows) = Sum(c, DOMAIN rows) + Added(r)
    <3>1. IsFiniteSet(DOMAIN rows) /\ \A i \in DOMAIN rows : c[i] \in Nat
      BY <2>3, RowsTyped
    <3>2. PICK n \in Nat : n = Added(r)
      BY <1>0
    <3>3. k \in DOMAIN rows => d[k] = c[k] + n
      BY <2>3, <3>2
    <3>4. \A i \in DOMAIN rows : i # k => d[i] = c[i]
      BY <2>3
    <3>5. Sum(d, DOMAIN rows)
            = IF k \in DOMAIN rows THEN Sum(c, DOMAIN rows) + n ELSE Sum(c, DOMAIN rows)
      BY <3>1, <3>3, <3>4, SumRaised
    <3>6. Sum(d, DOMAIN rows) = Sum(c, DOMAIN rows) + n
      BY <2>1, <3>5, Zenon
    <3>. QED
      BY <3>2, <3>6, Zenon
  <2>5. ASSUME NEW i \in DOMAIN rows PROVE rows'[i] <= d[i] /\ c[i] <= d[i]
    <3>1. CASE i = k
      <4>1. PICK a \in Nat, b \in Nat, n \in Nat :
                a = req[r].seen /\ b = c[k] /\ n = Added(r)
        BY <1>0, <2>1, <2>3
      <4>2. rows'[i] = a + n /\ d[i] = b + n /\ c[i] = b /\ a <= b
        BY <2>1, <2>2, <2>3, <3>1, <4>1, Zenon
      <4>3. a + n <= b + n /\ b <= b + n
        BY <4>2
      <4>. QED
        BY <4>2, <4>3, Zenon
    <3>2. CASE i # k
      BY <1>5, <2>2, <2>3, <3>2
    <3>. QED
      BY <3>1, <3>2
  <2>. QED
    BY <1>6, <2>2, <2>3, <2>4, <2>5
<1>. QED
  BY <1>7, <1>8

LEMMA AnalyticsKeeps ==
    ASSUME TypeInv, AnalyticsInv, [Next]_vars
    PROVE  AnalyticsInv'
<1>. USE DEF others
<1>0. \A r \in Requests : GoodRequest(req[r]) /\ req[r] \in Request
  BY GoodRequests
<1>1. ASSUME NEW r \in Requests, Begin(r) PROVE AnalyticsInv'
  <2>1. UNCHANGED <<rows, served>>
    BY <1>1 DEF Begin, ClickStart, ClaimStart, RedeemStart, RedeemByCodeStart, ScanStart
  <2>2. /\ req[r] = Idle
        /\ req'[r].at \in {"findClaim", "load", "mark"} \/ (req'[r].kind = "click" /\ req'[r].at = "readRow")
        /\ \A q \in Requests : q # r => req'[q] = req[q]
    BY <1>1, Started DEF Begin, ClickStart, ClaimStart, RedeemStart, RedeemByCodeStart, ScanStart
  <2>. QED
    BY <2>1, <2>2, ElsewhereOwes, IdleIsNothing
<1>2. ASSUME NEW r \in Requests, ClaimFind(r) \/ ClaimInsert(r) \/ ClaimSign(r)
      PROVE  AnalyticsInv'
  <2>1. UNCHANGED <<rows, served>> /\ req[r].at \in ClaimSteps
    BY <1>2 DEF ClaimFind, ClaimInsert, ClaimSign, At, ClaimSteps
  <2>2. /\ req'[r].at \in {"idle", "insertClaim", "signClaim"}
        /\ \A q \in Requests : q # r => req'[q] = req[q]
    BY <1>2, Moved, Finished, IdleIsNothing DEF ClaimFind, ClaimInsert, ClaimSign
  <2>. QED
    BY <2>1, <2>2, ElsewhereOwes DEF ClaimSteps
<1>3. ASSUME NEW r \in Requests, RedeemLoad(r) \/ RedeemSave(r) PROVE AnalyticsInv'
  <2>1. UNCHANGED <<rows, served>> /\ req[r].at \in {"load", "saveVoucher"}
    BY <1>3 DEF RedeemLoad, RedeemSave, At
  <2>2. /\ req'[r].at \in {"idle", "bump"}
        /\ \A q \in Requests : q # r => req'[q] = req[q]
    <3>1. RedeemLoad(r) => Finish(r) \/ \E qr \in {"empty", "signed"}, i, n \in Nat : Remember(r, "bump", qr, i, n)
      <4>1. \A v \in Vouchers : voucher[v].qr \in {"empty", "signed"}
        BY GoodRequests DEF VoucherRow
      <4>2. RedeemLoad(r) => req[r].v \in Vouchers
        BY <1>0 DEF RedeemLoad, At, GoodRequest
      <4>. QED
        BY <4>1, <4>2 DEF RedeemLoad
    <3>. QED
      BY <1>3, <3>1, Moved, Finished, IdleIsNothing DEF RedeemSave
  <2>. QED
    BY <2>1, <2>2, ElsewhereOwes
<1>4. ASSUME NEW r \in Requests, ScanMark(r) \/ ScanRevert(r) \/ ScanAudit(r) PROVE AnalyticsInv'
  <2>1. UNCHANGED <<rows, served>> /\ req[r].at \in {"mark", "revert", "audit"}
    BY <1>4 DEF ScanMark, ScanRevert, ScanAudit, At
  <2>2. /\ req'[r].at \in {"idle", "count"}
        /\ \A q \in Requests : q # r => req'[q] = req[q]
    BY <1>4, Moved, Finished, IdleIsNothing DEF ScanMark, ScanRevert, ScanAudit
  <2>. QED
    BY <2>1, <2>2, ElsewhereOwes
<1>5. ASSUME NEW r \in Requests, Continue(r) PROVE AnalyticsInv'
  BY <1>2, <1>3, <1>4, <1>5, PlaceOwes, ReadOwes, WriteOwes DEF Continue
<1>6. CASE EditOffer
  <2>1. UNCHANGED <<rows, served, req>>
    BY <1>6 DEF EditOffer, EditRead, SyncToggleRead, EditSave, UpdateOffer
  <2>2. Owing' = Owing /\ \A c : Covers(c) => \A r \in Requests : ReadAtMost(c, r)'
    BY <2>1 DEF Owing, Covers, ReadAtMost
  <2>. QED
    BY <2>1, <2>2, OwingStays
<1>7. CASE Restart
  <2>1. UNCHANGED <<rows, served>> /\ \A r \in Requests : req'[r] = Idle
    BY <1>7 DEF Restart
  <2>2. Owing' = {} /\ IsFiniteSet(Owing') /\ Cardinality(Owing') = 0
    BY <2>1, IdleIsNothing, FS_EmptySet DEF Owing
  <2>3. PICK c : Covers(c)
    BY DEF AnalyticsInv
  <2>4. Sum(c, DOMAIN rows) \in Nat /\ Cardinality(Owing) \in Nat
    BY <2>3, RowsTyped, SumIsNat, FS_CardinalityType DEF Covers, AnalyticsInv
  <2>5. Sum(c, DOMAIN rows) + 0 <= Sum(served, Vouchers)
    BY <2>3, <2>4, RowsTyped DEF Covers
  <2>6. Covers(c)'
    BY <2>1, <2>2, <2>3, <2>5, IdleIsNothing DEF Covers, ReadAtMost
  <2>. QED
    BY <2>2, <2>6 DEF AnalyticsInv
<1>8. CASE UNCHANGED vars
  <2>1. UNCHANGED <<rows, served, req>>
    BY <1>8 DEF vars
  <2>2. Owing' = Owing /\ \A c : Covers(c) => \A r \in Requests : ReadAtMost(c, r)'
    BY <2>1 DEF Owing, Covers, ReadAtMost
  <2>. QED
    BY <2>1, <2>2, OwingStays
<1>. QED
  BY <1>1, <1>5, <1>6, <1>7, <1>8 DEF Next

\* The dashboard never shows more redemptions than there were: first increments that each
\* insert a row and increments that overwrite one another only lose some (incrementAnalytic).
THEOREM AnalyticsStayBelow == Spec => []AnalyticsNeverOvercount
<1>1. Init => AnalyticsInv
  <2>. SUFFICES ASSUME Init PROVE AnalyticsInv
    OBVIOUS
  <2>1. rows = <<>> /\ \A r \in Requests : req[r] = Idle
    BY DEF Init
  <2>2. Owing = {} /\ IsFiniteSet(Owing) /\ Cardinality(Owing) = 0
    BY <2>1, IdleIsNothing, FS_EmptySet DEF Owing
  <2>3. DOMAIN rows = {} /\ <<>> \in [DOMAIN rows -> Nat]
    BY <2>1
  <2>4. Sum(<<>>, {}) = 0
    BY SumUnfolds, FS_EmptySet
  <2>5. Sum(served, Vouchers) \in Nat
    BY SumIsNat, ConstantsAssumption DEF Init
  <2>6. Covers(<<>>)
    BY <2>1, <2>2, <2>3, <2>4, <2>5, IdleIsNothing DEF Covers, ReadAtMost
  <2>. QED
    BY <2>2, <2>6 DEF AnalyticsInv
<1>2. (TypeInv /\ AnalyticsInv) /\ [Next]_vars => (TypeInv /\ AnalyticsInv)'
  BY TypeStep, AnalyticsKeeps
<1>3. TypeInv /\ AnalyticsInv => AnalyticsNeverOvercount
  <2>. SUFFICES ASSUME TypeInv, AnalyticsInv
                PROVE  Sum(rows, DOMAIN rows) <= Sum(served, DOMAIN served)
    BY DEF AnalyticsNeverOvercount, F!FoldFunction, Sum
  <2>1. PICK c : Covers(c)
    BY DEF AnalyticsInv
  <2>2. \A i \in DOMAIN rows : rows[i] \in Nat /\ c[i] \in Nat /\ rows[i] <= c[i]
    BY <2>1, RowsTyped DEF Covers
  <2>3. Sum(rows, DOMAIN rows) <= Sum(c, DOMAIN rows)
    BY <2>2, RowsTyped, SumAtMost
  <2>4. /\ Sum(c, DOMAIN rows) \in Nat /\ Sum(rows, DOMAIN rows) \in Nat
        /\ Cardinality(Owing) \in Nat /\ Sum(served, Vouchers) \in Nat
    BY <2>2, RowsTyped, SumIsNat, FS_CardinalityType DEF AnalyticsInv
  <2>5. Sum(c, DOMAIN rows) + Cardinality(Owing) <= Sum(served, Vouchers)
    BY <2>1 DEF Covers
  <2>6. DOMAIN served = Vouchers
    BY RowsTyped
  <2>. QED
    BY <2>3, <2>4, <2>5, <2>6
<1>. QED
  BY <1>1, <1>2, <1>3, TypeInit, PTL DEF Spec

================================================================================
