-------------------------------- MODULE MCMirror --------------------------------
(* A small instance of Billing for what rows say.  A behaviour is about saves that   *)
(* overlap and events of one second, or about replacing one subscription by another. *)
EXTENDS MCBilling

VARIABLE scene

Scheduling(r) == req[r].at \in {"schedule", "savePending", "saveGrace"}

\* One subscription, one plan and two events.  After a crash only deliveries overlap, of
\* events of different seconds.
Overlap ==
    /\ \A i \in DOMAIN events : events[i].is.price # ent /\ events[i].is.plan # ent
    /\ \A r \in Requests :
           /\ req[r] # NoRequest => req[r].key = k1 /\ req[r].plan = pro
           /\ restarts = 0 \/ ~Scheduling(r)
    /\ restarts = 0 \/ \A i \in DOMAIN events : events[i].created = i

\* Two subscriptions and plans, a request at a time.
Replace ==
    /\ \A i \in DOMAIN events : events[i].created = i
    /\ \A r \in Requests :
           /\ req[r].at # "saveGrace"
           /\ req[r] # NoRequest => \A q \in Requests \ {r} : req[q] = NoRequest

MCInit == Init /\ scene \in {"overlap", "replace"}
MCNext ==
    /\ Next
    /\ UNCHANGED scene
    /\ IF scene = "overlap" THEN Overlap' ELSE Replace'
MCSpec == MCInit /\ [][MCNext]_<<vars, scene>>
================================================================================
