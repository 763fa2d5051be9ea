------------------------------- MODULE MCBilling -------------------------------
(* Small instances of Billing: a business that presses "subscribe" once or twice. *)
EXTENDS Billing, TLC

CONSTANTS k1, k2, pro, ent

Asked == [k \in Keys |-> IF k = k1 THEN pro ELSE ent]
Interchangeable == Permutations(Requests)

\* A fault, a crash and stale saves, or a second event.
Few ==
    \/ Len(events) <= 1
    \/ /\ faults + restarts = 0
       /\ \A r \in Requests : req[r].at # "saveGrace"
FewSpec ==
    /\ Init /\ [][Next /\ Few']_vars
    /\ \A r \in Requests : WF_vars(Continue(r) /\ Few')
    /\ \A e \in Event : SF_vars(Deliver(e) /\ Few')
================================================================================
