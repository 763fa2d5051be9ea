-------------------------------- MODULE MCTeam --------------------------------
(* A small instance of Team: two owners, one address for a staff account.      *)
EXTENDS Team, TLC

CONSTANTS o1, o2, s1, v1

\* A behaviour is about the team, or about its venues.
VARIABLE scene

Scene ==
    [team |-> {"createStaff", "deactivate", "profile", "assign", "work", "createVenue"},
     roster |-> {"createStaff", "assign", "unassign", "createVenue", "deleteVenue"},
     accounts |-> {"register", "createStaff", "deactivate", "reset"},
     venues |-> {"createVenue", "updateVenue", "deleteVenue", "work"}]

MCInit == Init /\ scene \in DOMAIN Scene

MCNext ==
    /\ Next
    /\ UNCHANGED scene
    /\ \A r \in Requests : req'[r].kind \in Scene[scene] \cup {"none"}

MCSpec == MCInit /\ [][MCNext]_<<vars, scene>>

Interchangeable == Permutations(Requests)
================================================================================
