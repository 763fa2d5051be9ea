----------------------------- MODULE VoucherLedger -----------------------------
(***************************************************************************)
(* What the voucher system promises a venue, with no requests, no database *)
(* and no interleaving: a voucher is issued once, is used at most once,    *)
(* and an offer is never used more often than its maxRedemptions allows.   *)
(* Redemption implements it when vouchers are redeemed by the worker scan. *)
(***************************************************************************)
EXTENDS Integers, FiniteSets

CONSTANTS Vouchers,   \* every voucher that can ever be issued
          Offers,
          OfferOf,    \* the offer each voucher is for
          MaxOf       \* maxRedemptions of each offer, 0 = unlimited

VARIABLES issued, used

ledger == <<issued, used>>

UsedFor(o) == {v \in used : OfferOf[v] = o}

Init == issued = {} /\ used = {}

Issue(v) ==
    /\ v \notin issued
    /\ issued' = issued \cup {v}
    /\ UNCHANGED used

\* Using a voucher and taking one of the offer's places is one indivisible step.
Use(v) ==
    /\ v \in issued \ used
    /\ MaxOf[OfferOf[v]] > 0 =>
           Cardinality(UsedFor(OfferOf[v])) < MaxOf[OfferOf[v]]
    /\ used' = used \cup {v}
    /\ UNCHANGED issued

Next == \E v \in Vouchers : Issue(v) \/ Use(v)

Spec == Init /\ [][Next]_ledger
================================================================================
