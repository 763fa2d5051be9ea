------------------------------- MODULE MCNotify -------------------------------
(* A small instance of Notify.  A behaviour is about the pushes, the          *)
(* preferences, the devices or the proximity notices.                         *)
EXTENDS Notify, TLC

CONSTANTS u1, u2, alert, v1, v2, t1, t2

VARIABLE scene

Scene ==
    [pushes |-> [handlers |-> {"announce"}, users |-> {u1}, ticks |-> 2, boots |-> 2],
     preferences |-> [handlers |-> {"announce", "update", "read"}, users |-> {u1},
                      ticks |-> 2, boots |-> 1],
     devices |-> [handlers |-> {"announce", "register"}, users |-> {u1, u2},
                  ticks |-> 0, boots |-> 1],
     near |-> [handlers |-> {"geofence"}, users |-> {u1}, ticks |-> 2, boots |-> 1]]

\* Quiet from the last third of the day to the second, over midnight.
Nights == {<<2, 1>>}

Stored == [u \in Users |-> Defaults]
LoggedIn == [t \in Tokens |-> [user |-> u1, active |-> TRUE]]

MCInit ==
    /\ scene \in DOMAIN Scene
    /\ IF scene = "pushes" THEN InitWith(Stored, LoggedIn)
       ELSE IF scene = "preferences"
       THEN InitWith([u \in Users |-> NoRow], [LoggedIn EXCEPT ![t2] = NoDevices[t2]])
       ELSE IF scene = "devices" THEN InitWith(Stored, NoDevices)
       ELSE Init

MCNext ==
    /\ Next
    /\ UNCHANGED scene
    /\ clock' <= Scene[scene].ticks /\ boot' <= Scene[scene].boots
    /\ req' = req /\ device' # device => scene = "devices"
    /\ \A r \in Requests :
          /\ req'[r].kind \in Scene[scene].handlers \cup {"none"}
          /\ req'[r].user \in Scene[scene].users \cup {NoOne}
          /\ req'[r].kind = "register" => req'[r].token = t1
          /\ req'[r].kind = "announce" =>
                /\ req'[r].topic[2] = v1 /\ req'[r].rest \subseteq Scene[scene].users
                /\ scene = "preferences" => \A q \in Requests \ {r} : req'[q].kind # "announce"

MCSpec == MCInit /\ [][MCNext]_<<vars, scene>>

Interchangeable == Permutations(Requests)
===============================================================================
