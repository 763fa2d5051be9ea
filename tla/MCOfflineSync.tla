----------------------------- MODULE MCOfflineSync -----------------------------
(* A small instance of OfflineSync.  A behaviour is about the status and its  *)
(* deltas, the saved venues and their count, or the check-ins.                *)
EXTENDS OfflineSync, TLC

\* A behaviour is about one of the scenes, and who it is about is in it.
VARIABLES scene, who

Scene ==
    [status |-> [handlers |-> {"queue", "status", "delta"}, phones |-> 1, ticks |-> 2,
                 actions |-> 2],
     saves |-> [handlers |-> {"queue", "save", "unsave", "state"}, phones |-> 2,
                ticks |-> 1, actions |-> 1],
     points |-> [handlers |-> {"queue", "checkIn"}, phones |-> 1, ticks |-> 3,
                 actions |-> 2]]

MCInit ==
    /\ Init
    /\ scene \in DOMAIN Scene
    /\ who \in {S \in SUBSET Phones : Cardinality(S) = Scene[scene].phones}

MCNext ==
    /\ Next
    /\ UNCHANGED <<scene, who>>
    /\ clock' <= Scene[scene].ticks /\ minted' <= Scene[scene].actions
    /\ \A p \in Phones : queue'[p] # queue[p] =>
          /\ p \in who
          /\ \A i \in DOMAIN queue'[p] : queue'[p][i].type \in Scene[scene].handlers
    /\ \A r \in Requests :
          /\ req'[r].kind \in Scene[scene].handlers \cup {"none"}
          /\ req'[r].phone \in who \cup {None}

MCSpec == MCInit /\ [][MCNext]_<<vars, scene, who>>

\* An excuse stays, and no scene asks more of the count once there is one.
Followed == excuses = {}

Interchangeable == Permutations(Requests) \cup Permutations(Phones)
================================================================================
