----------------------------- MODULE MCVenueLive -----------------------------
(* A small instance of VenueLive: one venue, in a city whose slug is its name in *)
(* lower case, as those of the seed are.  Rooms, streams, alerts and news share   *)
(* no state but the busyness row: each behaviour shows one of them.              *)
EXTENDS VenueLive, TLC

CONSTANTS s1, s2, u1, v1, p1

VARIABLE scene

\* Any client may ask for any room; which it does is part of the scene.
Screens == [s \in Sockets |-> FeedKinds]
InTown == [v \in Venues |-> p1]
Saved == [v \in Venues |-> Users]
Interchangeable == Permutations(Requests)

MCInit == Init /\ scene \in {"page", "board", "stream", "alerts", "news"}

\* The rooms the clients of a scene ask for: the venue page and the city feed,
\* the map and the owner's dashboard, or none.
Asked == CASE scene = "page" -> {Venue(v1), City(p1)}
           [] scene = "board" -> {Map(p1), Business(v1)}
           [] scene = "news" -> {Venue(v1), City(p1)}
           [] scene \in {"stream", "alerts"} -> {}

MCNext ==
    /\ Next
    /\ scene' = scene
    /\ rooms'[s1] \subseteq Asked \cup {Personal(u1)}
    /\ rooms'[s2] \subseteq (Asked \cap {Venue(v1)}) \cup {Personal(u1)}
    /\ IF scene = "news" THEN updates' = updates
       ELSE items' = items /\ \A r \in Requests : req'[r] # Idle => req'[r].kind \in Writers
    /\ scene = "stream" \/ stream' = stream
    /\ scene \notin {"stream", "alerts"} \/ conn' = conn
    /\ scene = "alerts" \/ \A r \in Requests : req'[r] # Idle => req'[r].tags = "kept"

MCSpec == MCInit /\ [][MCNext]_<<vars, scene>>
================================================================================
