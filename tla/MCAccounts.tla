------------------------------ MODULE MCAccounts ------------------------------
(* Small instances of Accounts: two rows that want one address, and a guest.     *)
EXTENDS Accounts, TLC

CONSTANTS a, b, g, e1

Addresses == [u \in Users |-> IF u = g THEN NoEmail ELSE e1]
Interchangeable == Permutations(Requests)

\* Three passwords and two sessions, or two passwords and three sessions.
Few == chosen <= 2 \/ Len(session) <= 2
FewSpec ==
    /\ Init /\ [][Next /\ Few']_vars
    /\ \A r \in Requests : WF_vars(Continue(r) /\ Few')
===============================================================================
