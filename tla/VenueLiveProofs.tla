----------------------------- MODULE VenueLiveProofs -----------------------------
(***************************************************************************)
(* The gateway's maps, Socket.IO's rooms and what the viewers were told    *)
(* agree, for any number of sockets, users, venues and cities; and what    *)
(* the rooms, the streams and the inboxes have of a venue is what is       *)
(* stored, but for the causes named, for any number of requests.           *)
(***************************************************************************)
EXTENDS VenueLive, FiniteSetTheorems, TLAPS

\* The maps and the rooms, seen through their members.
RegistryInv == GatewayTypeOK /\ RegistriesAgree
GatewayInv == RegistryInv /\ ViewersAreInTheRoom /\ ViewersKnowTheCount

-------------------------------------------------------------------------------
(* Rooms and maps. *)

\* A room's kind and name can be told from it.
LEMMA RoomsDiffer ==
    ASSUME NEW x, NEW y
    PROVE  /\ Personal(x) = Personal(y) <=> x = y
           /\ Venue(x) = Venue(y) <=> x = y
           /\ Personal(x) # Venue(y) /\ Personal(x) # Business(y)
           /\ Personal(x) # City(y) /\ Personal(x) # Map(y)
           /\ Venue(x) # Business(y) /\ Venue(x) # City(y) /\ Venue(x) # Map(y)
BY DEF Personal, Venue, Business, City, Map

\* Every room a handler joins is one of Rooms.
LEMMA RoomsAreRooms ==
    /\ \A u \in Users : Personal(u) \in Rooms
    /\ \A p \in Places : City(p) \in Rooms /\ Map(p) \in Rooms
    /\ \A v \in Venues : Venue(v) \in Rooms /\ Business(v) \in Rooms
BY DEF Rooms

\* Adding a socket to a map adds it to one set and leaves no set empty.
LEMMA EnlistMembers ==
    ASSUME NEW map, NEW k, NEW s
    PROVE  /\ \A j : Members(Enlist(map, k, s), j)
                     = IF j = k THEN Members(map, j) \cup {s} ELSE Members(map, j)
           /\ (\A j \in DOMAIN map : map[j] # {}) =>
                  \A j \in DOMAIN Enlist(map, k, s) : Enlist(map, k, s)[j] # {}
<1> DEFINE new == Enlist(map, k, s)
<1>1. /\ DOMAIN new = (DOMAIN map) \cup {k}
      /\ \A j \in DOMAIN new :
             new[j] = IF j = k THEN Members(map, k) \cup {s} ELSE map[j]
  BY DEF Enlist
<1> HIDE DEF new
<1>2. \A j : Members(new, j)
             = IF j = k THEN Members(map, j) \cup {s} ELSE Members(map, j)
  BY <1>1 DEF Members
<1>3. (\A j \in DOMAIN map : map[j] # {}) => \A j \in DOMAIN new : new[j] # {}
  BY <1>1
<1> QED BY <1>2, <1>3 DEF new

\* It stays a map of sockets.
LEMMA EnlistIsMap ==
    ASSUME NEW map, NEW D, NEW k \in D, NEW s \in Sockets, IsMap(map, D)
    PROVE  IsMap(Enlist(map, k, s), D)
<1> DEFINE new == Enlist(map, k, s)
<1>1. /\ DOMAIN new = (DOMAIN map) \cup {k}
      /\ new = [j \in DOMAIN new |-> new[j]]
      /\ \A j \in DOMAIN new :
             new[j] = IF j = k THEN Members(map, k) \cup {s} ELSE map[j]
  BY DEF Enlist
<1> HIDE DEF new
<1>2. Members(map, k) \subseteq Sockets
  BY DEF Members, IsMap
<1>3. \A j \in DOMAIN new : new[j] \in SUBSET Sockets
  BY <1>1, <1>2 DEF IsMap
<1>4. new \in [DOMAIN new -> SUBSET Sockets]
  BY <1>1, <1>3
<1> QED BY <1>1, <1>4 DEF IsMap, new

\* Taking a socket out of a map takes it out of the sets under K only, and
\* leaves no set empty.
LEMMA StrikeMembers ==
    ASSUME NEW map, NEW K, NEW s
    PROVE  /\ \A j : j \in K => Members(Strike(map, K, s), j) = Members(map, j) \ {s}
           /\ \A j : j \notin K => Members(Strike(map, K, s), j) = Members(map, j)
           /\ (\A j \in DOMAIN map : map[j] # {}) =>
                  \A j \in DOMAIN Strike(map, K, s) : Strike(map, K, s)[j] # {}
<1> DEFINE new == Strike(map, K, s)
<1>1. /\ DOMAIN new = {i \in DOMAIN map : i \in K => map[i] \ {s} # {}}
      /\ \A j \in DOMAIN new : new[j] = IF j \in K THEN map[j] \ {s} ELSE map[j]
  BY DEF Strike
<1> HIDE DEF new
<1>2. \A j : Members(new, j)
             = IF j \in K THEN Members(map, j) \ {s} ELSE Members(map, j)
  BY <1>1 DEF Members
<1>3. (\A j \in DOMAIN map : map[j] # {}) => \A j \in DOMAIN new : new[j] # {}
  BY <1>1
<1> QED BY <1>2, <1>3 DEF new

\* It stays a map of sockets.
LEMMA StrikeIsMap ==
    ASSUME NEW map, NEW D, NEW K, NEW s, IsMap(map, D)
    PROVE  IsMap(Strike(map, K, s), D)
<1> DEFINE new == Strike(map, K, s)
<1>1. /\ DOMAIN new \subseteq DOMAIN map
      /\ new = [j \in DOMAIN new |-> new[j]]
      /\ \A j \in DOMAIN new : new[j] = IF j \in K THEN map[j] \ {s} ELSE map[j]
  BY DEF Strike
<1> HIDE DEF new
<1>2. \A j \in DOMAIN new : new[j] \in SUBSET Sockets
  BY <1>1 DEF IsMap
<1>3. new \in [DOMAIN new -> SUBSET Sockets]
  BY <1>1, <1>2
<1> QED BY <1>1, <1>3 DEF IsMap, new

\* The map that has just been made is empty.
LEMMA EmptyMap ==
    ASSUME NEW D, NEW map, map = [j \in {} |-> {}]
    PROVE  IsMap(map, D) /\ DOMAIN map = {} /\ \A j : Members(map, j) = {}
BY DEF IsMap, Members

\* A venue's number of viewers is a number.
LEMMA CountIsNat ==
    ASSUME NEW map, NEW D, IsMap(map, D), NEW v
    PROVE  ViewerCount(map, v) \in Nat
<1>1. Members(map, v) \subseteq Sockets
  BY DEF Members, IsMap
<1>2. IsFiniteSet(Members(map, v))
  BY <1>1, FS_Subset, GatewayAssumption
<1> QED BY <1>2, FS_CardinalityType DEF ViewerCount

\* What a handler tells keeps the type of told.
LEMMA TellTypes ==
    ASSUME GatewayTypeOK, NEW V, Tell(V), IsMap(venueViewers', Venues)
    PROVE  told' \in [Sockets -> [Venues -> Nat]]
<1>1. \A v : ViewerCount(venueViewers', v) \in Nat
  BY CountIsNat
<1>2. \A s \in Sockets, v \in Venues : told[s][v] \in Nat
  BY DEF GatewayTypeOK
<1>3. told' = [s \in Sockets |-> [v \in Venues |->
                IF v \in V /\ Venue(v) \in rooms'[s]
                THEN ViewerCount(venueViewers', v) ELSE told[s][v]]]
  BY DEF Tell
<1>4. \A s \in Sockets, v \in Venues :
          (IF v \in V /\ Venue(v) \in rooms'[s]
           THEN ViewerCount(venueViewers', v) ELSE told[s][v]) \in Nat
  BY <1>1, <1>2
<1> HIDE DEF ViewerCount
<1>5. \A s \in Sockets :
          [v \in Venues |-> IF v \in V /\ Venue(v) \in rooms'[s]
                            THEN ViewerCount(venueViewers', v) ELSE told[s][v]]
          \in [Venues -> Nat]
  BY <1>4
<1> QED BY <1>3, <1>5

\* Telling the venues whose viewers change keeps every viewer informed.
LEMMA TellInforms ==
    ASSUME ViewersKnowTheCount, NEW V, Tell(V),
           \A s \in Sockets, v \in Venues \ V :
               /\ Venue(v) \in rooms'[s] => Venue(v) \in rooms[s]
               /\ Members(venueViewers', v) = Members(venueViewers, v)
    PROVE  ViewersKnowTheCount'
<1> SUFFICES ASSUME NEW s \in Sockets, NEW v \in Venues, Venue(v) \in rooms'[s]
             PROVE  told'[s][v] = ViewerCount(venueViewers', v)
  BY DEF ViewersKnowTheCount, ViewerCount, Members
<1>1. told'[s][v] = IF v \in V /\ Venue(v) \in rooms'[s]
                    THEN ViewerCount(venueViewers', v) ELSE told[s][v]
  BY DEF Tell
<1>2. CASE v \in V
  BY <1>1, <1>2
<1>3. CASE v \notin V
  BY <1>1, <1>3 DEF ViewersKnowTheCount, ViewerCount
<1> QED BY <1>2, <1>3

-------------------------------------------------------------------------------
(* The gateway's steps. *)

\* Joining or leaving a room that is neither personal nor a venue's changes
\* nothing the invariant speaks of but the type of rooms.
LEMMA OtherRoom ==
    ASSUME GatewayInv, NEW s \in Sockets, NEW room \in Rooms,
           \A x : room # Personal(x) /\ room # Venue(x),
           \/ rooms' = [rooms EXCEPT ![s] = @ \cup {room}]
           \/ rooms' = [rooms EXCEPT ![s] = @ \ {room}],
           UNCHANGED <<registry, venueViewers, told>>
    PROVE  GatewayInv'
<1> USE DEF GatewayInv, RegistryInv
<1>1. UNCHANGED <<conn, socketToUser, connectedUsers, venueViewers, told>>
  BY DEF registry
<1>2. rooms' \in [Sockets -> SUBSET Rooms]
  BY DEF GatewayTypeOK
<1>3. \A x \in Sockets : \A y :
          /\ Personal(y) \in rooms'[x] <=> Personal(y) \in rooms[x]
          /\ Venue(y) \in rooms'[x] <=> Venue(y) \in rooms[x]
  BY DEF GatewayTypeOK
<1>4. GatewayTypeOK'
  BY <1>1, <1>2 DEF GatewayTypeOK, IsMap
<1>5. RegistriesAgree'
  BY <1>1, <1>3 DEF RegistriesAgree, Members
<1>6. ViewersAreInTheRoom'
  BY <1>1, <1>3 DEF ViewersAreInTheRoom, Members
<1>7. ViewersKnowTheCount'
  BY <1>1, <1>3 DEF ViewersKnowTheCount, ViewerCount, Members
<1> QED BY <1>4, <1>5, <1>6, <1>7

\* A socket that connects is entered in both maps and in its personal room.
LEMMA ConnectStep ==
    ASSUME GatewayInv, NEW s \in Sockets, NEW u \in Users, Connect(s, u)
    PROVE  GatewayInv'
<1> USE DEF GatewayInv, RegistryInv
<1>1. /\ conn' = [conn EXCEPT ![s] = "open"] /\ conn[s] = "new"
      /\ socketToUser' = [socketToUser EXCEPT ![s] = u]
      /\ connectedUsers' = Enlist(connectedUsers, u, s)
      /\ rooms' = [rooms EXCEPT ![s] = @ \cup {Personal(u)}]
      /\ venueViewers' = venueViewers /\ told' = told
  BY DEF Connect
<1>2. socketToUser[s] = NoUser
  BY <1>1 DEF GatewayTypeOK, RegistriesAgree
<1>3. /\ IsMap(connectedUsers', Users)
      /\ \A j : Members(connectedUsers', j)
                = IF j = u THEN Members(connectedUsers, j) \cup {s}
                  ELSE Members(connectedUsers, j)
      /\ \A j \in DOMAIN connectedUsers' : connectedUsers'[j] # {}
  <2>1. IsMap(connectedUsers, Users)
        /\ \A j \in DOMAIN connectedUsers : connectedUsers[j] # {}
    BY DEF GatewayTypeOK, RegistriesAgree
  <2>2. IsMap(Enlist(connectedUsers, u, s), Users)
    BY <2>1, EnlistIsMap
  <2> QED BY <1>1, <2>1, <2>2, EnlistMembers
<1>4. \A x \in Sockets : \A y :
          /\ Personal(y) \in rooms'[x] <=> Personal(y) \in rooms[x] \/ (x = s /\ y = u)
          /\ Venue(y) \in rooms'[x] <=> Venue(y) \in rooms[x]
  BY <1>1, RoomsDiffer DEF GatewayTypeOK
<1>5. GatewayTypeOK'
  <2>1. rooms' \in [Sockets -> SUBSET Rooms]
    BY <1>1, RoomsAreRooms DEF GatewayTypeOK
  <2> QED BY <1>1, <1>3, <2>1 DEF GatewayTypeOK, IsMap
<1>6. RegistriesAgree'
  <2>1. \A x \in Sockets : conn'[x] = "open" <=> socketToUser'[x] # NoUser
    BY <1>1, GatewayAssumption DEF GatewayTypeOK, RegistriesAgree
  <2>2. \A w \in Users :
            {x \in Sockets : socketToUser'[x] = w} = Members(connectedUsers', w)
    <3> TAKE w \in Users
    <3>1. {x \in Sockets : socketToUser[x] = w} = Members(connectedUsers, w)
      BY DEF RegistriesAgree
    <3>2. \A x \in Sockets : socketToUser'[x] = w <=>
              IF x = s THEN w = u ELSE socketToUser[x] = w
      BY <1>1 DEF GatewayTypeOK
    <3> QED BY <1>2, <1>3, <3>1, <3>2, GatewayAssumption
  <2>3. \A x \in Sockets, w \in Users :
            Personal(w) \in rooms'[x] <=> socketToUser'[x] = w
    <3> TAKE x \in Sockets, w \in Users
    <3>1. Personal(w) \in rooms[x] <=> socketToUser[x] = w
      BY DEF RegistriesAgree
    <3> QED BY <1>1, <1>2, <1>4, <3>1, GatewayAssumption DEF GatewayTypeOK
  <2> QED BY <1>3, <2>1, <2>2, <2>3 DEF RegistriesAgree, Members
<1>7. ViewersAreInTheRoom'
  BY <1>1, <1>4 DEF ViewersAreInTheRoom, Members
<1>8. ViewersKnowTheCount'
  BY <1>1, <1>4 DEF ViewersKnowTheCount, ViewerCount, Members
<1> QED BY <1>5, <1>6, <1>7, <1>8

\* A refused socket was in no map and no room, and still is not.
LEMMA RefuseStep ==
    ASSUME GatewayInv, NEW s \in Sockets, Refuse(s)
    PROVE  GatewayInv'
<1> USE DEF GatewayInv, RegistryInv
<1>1. /\ conn' = [conn EXCEPT ![s] = "closed"] /\ conn[s] = "new"
      /\ UNCHANGED <<rooms, socketToUser, connectedUsers, venueViewers, told>>
  BY DEF Refuse
<1>2. GatewayTypeOK'
  BY <1>1 DEF GatewayTypeOK, IsMap
<1>3. RegistriesAgree'
  BY <1>1 DEF RegistriesAgree, GatewayTypeOK, Members
<1>4. ViewersAreInTheRoom' /\ ViewersKnowTheCount'
  BY <1>1 DEF ViewersAreInTheRoom, ViewersKnowTheCount, ViewerCount, Members
<1> QED BY <1>2, <1>3, <1>4

\* A socket that breaks off leaves every map and room, and those who viewed a
\* venue with it are told.
LEMMA DisconnectStep ==
    ASSUME GatewayInv, NEW s \in Sockets, Disconnect(s)
    PROVE  GatewayInv'
<1> USE DEF GatewayInv, RegistryInv
<1>1. /\ conn' = [conn EXCEPT ![s] = "closed"]
      /\ rooms' = [rooms EXCEPT ![s] = {}]
      /\ socketToUser' = [socketToUser EXCEPT ![s] = NoUser]
      /\ connectedUsers' = Strike(connectedUsers, {socketToUser[s]}, s)
      /\ venueViewers' = Strike(venueViewers, Viewing(s), s)
      /\ Tell(Viewing(s))
  BY DEF Disconnect
<1>2. /\ IsMap(connectedUsers, Users) /\ IsMap(venueViewers, Venues)
      /\ \A j \in DOMAIN connectedUsers : connectedUsers[j] # {}
      /\ \A j \in DOMAIN venueViewers : venueViewers[j] # {}
  BY DEF GatewayTypeOK, RegistriesAgree, ViewersAreInTheRoom
<1>3. /\ IsMap(connectedUsers', Users)
      /\ \A j : Members(connectedUsers', j)
                = IF j = socketToUser[s] THEN Members(connectedUsers, j) \ {s}
                  ELSE Members(connectedUsers, j)
      /\ \A j \in DOMAIN connectedUsers' : connectedUsers'[j] # {}
  <2>1. IsMap(Strike(connectedUsers, {socketToUser[s]}, s), Users)
    BY <1>2, StrikeIsMap
  <2>2. LET K == {socketToUser[s]}
        IN  /\ \A j : j \in K => Members(Strike(connectedUsers, K, s), j)
                                  = Members(connectedUsers, j) \ {s}
            /\ \A j : j \notin K => Members(Strike(connectedUsers, K, s), j)
                                     = Members(connectedUsers, j)
    BY StrikeMembers
  <2>3. \A j \in DOMAIN Strike(connectedUsers, {socketToUser[s]}, s) :
            Strike(connectedUsers, {socketToUser[s]}, s)[j] # {}
    BY <1>2, StrikeMembers
  <2> QED BY <1>1, <2>1, <2>2, <2>3
<1>4. /\ IsMap(venueViewers', Venues)
      /\ \A j : Members(venueViewers', j)
                = IF j \in Viewing(s) THEN Members(venueViewers, j) \ {s}
                  ELSE Members(venueViewers, j)
      /\ \A j \in DOMAIN venueViewers' : venueViewers'[j] # {}
  BY <1>1, <1>2, StrikeMembers, StrikeIsMap
<1>5. \A j : Members(venueViewers', j) = Members(venueViewers, j) \ {s}
  BY <1>4 DEF Viewing, Members
<1>6. \A x \in Sockets : \A y : y \in rooms'[x] <=> x # s /\ y \in rooms[x]
  BY <1>1 DEF GatewayTypeOK
<1>7. GatewayTypeOK'
  <2>1. told' \in [Sockets -> [Venues -> Nat]]
    BY <1>1, <1>4, TellTypes
  <2>2. rooms' \in [Sockets -> SUBSET Rooms]
    BY <1>1 DEF GatewayTypeOK
  <2> QED BY <1>1, <1>3, <1>4, <2>1, <2>2 DEF GatewayTypeOK, IsMap
<1>8. RegistriesAgree'
  <2>1. \A x \in Sockets : conn'[x] = "open" <=> socketToUser'[x] # NoUser
    BY <1>1 DEF GatewayTypeOK, RegistriesAgree
  <2>2. \A x \in Sockets, w \in Users :
            socketToUser'[x] = w <=> x # s /\ socketToUser[x] = w
    BY <1>1, GatewayAssumption DEF GatewayTypeOK
  <2>3. \A w \in Users :
            {x \in Sockets : socketToUser'[x] = w} = Members(connectedUsers', w)
    <3> TAKE w \in Users
    <3>1. {x \in Sockets : socketToUser[x] = w} = Members(connectedUsers, w)
      BY DEF RegistriesAgree
    <3> QED BY <1>3, <2>2, <3>1
  <2>4. \A x \in Sockets, w \in Users :
            Personal(w) \in rooms'[x] <=> socketToUser'[x] = w
    BY <1>6, <2>2 DEF RegistriesAgree
  <2> QED BY <1>3, <2>1, <2>3, <2>4 DEF RegistriesAgree, Members
<1>9. ViewersAreInTheRoom'
  <2>1. \A v \in Venues :
            {x \in Sockets : Venue(v) \in rooms'[x]} = Members(venueViewers', v)
    <3> TAKE v \in Venues
    <3>1. {x \in Sockets : Venue(v) \in rooms[x]} = Members(venueViewers, v)
      BY DEF ViewersAreInTheRoom
    <3> QED BY <1>5, <1>6, <3>1
  <2> QED BY <1>4, <2>1 DEF ViewersAreInTheRoom, Members
<1>10. ViewersKnowTheCount'
  BY <1>1, <1>4, <1>6, TellInforms
<1> QED BY <1>7, <1>8, <1>9, <1>10

\* A socket that views a venue is in its room and in its set, and the room is
\* told of it.
LEMMA JoinVenueStep ==
    ASSUME GatewayInv, NEW s \in Sockets, NEW v \in Venues, JoinVenue(s, v)
    PROVE  GatewayInv'
<1> USE DEF GatewayInv, RegistryInv
<1>1. /\ rooms' = [rooms EXCEPT ![s] = @ \cup {Venue(v)}]
      /\ venueViewers' = Enlist(venueViewers, v, s)
      /\ Tell({v})
      /\ UNCHANGED <<conn, socketToUser, connectedUsers>>
  BY DEF JoinVenue, Enter, registry
<1>2. /\ IsMap(venueViewers', Venues)
      /\ \A j : Members(venueViewers', j)
                = IF j = v THEN Members(venueViewers, j) \cup {s}
                  ELSE Members(venueViewers, j)
      /\ \A j \in DOMAIN venueViewers' : venueViewers'[j] # {}
  <2>1. IsMap(venueViewers, Venues) /\ \A j \in DOMAIN venueViewers : venueViewers[j] # {}
    BY DEF GatewayTypeOK, ViewersAreInTheRoom
  <2>2. IsMap(Enlist(venueViewers, v, s), Venues)
    BY <2>1, EnlistIsMap
  <2> QED BY <1>1, <2>1, <2>2, EnlistMembers
<1>3. \A x \in Sockets : \A y :
          /\ Personal(y) \in rooms'[x] <=> Personal(y) \in rooms[x]
          /\ Venue(y) \in rooms'[x] <=> Venue(y) \in rooms[x] \/ (x = s /\ y = v)
  BY <1>1, RoomsDiffer DEF GatewayTypeOK
<1>4. GatewayTypeOK'
  <2>1. told' \in [Sockets -> [Venues -> Nat]]
    BY <1>1, <1>2, TellTypes
  <2>2. rooms' \in [Sockets -> SUBSET Rooms]
    BY <1>1, RoomsAreRooms DEF GatewayTypeOK
  <2> QED BY <1>1, <1>2, <2>1, <2>2 DEF GatewayTypeOK, IsMap
<1>5. RegistriesAgree'
  BY <1>1, <1>3 DEF RegistriesAgree, Members
<1>6. ViewersAreInTheRoom'
  <2>1. \A w \in Venues :
            {x \in Sockets : Venue(w) \in rooms'[x]} = Members(venueViewers', w)
    <3> TAKE w \in Venues
    <3>1. {x \in Sockets : Venue(w) \in rooms[x]} = Members(venueViewers, w)
      BY DEF ViewersAreInTheRoom
    <3> QED BY <1>2, <1>3, <3>1
  <2> QED BY <1>2, <2>1 DEF ViewersAreInTheRoom, Members
<1>7. ViewersKnowTheCount'
  BY <1>1, <1>2, <1>3, TellInforms
<1> QED BY <1>4, <1>5, <1>6, <1>7

\* A socket that leaves a venue is out of its room and its set, and those who
\* stay are told.
LEMMA LeaveVenueStep ==
    ASSUME GatewayInv, NEW s \in Sockets, NEW v \in Venues, LeaveVenue(s, v)
    PROVE  GatewayInv'
<1> USE DEF GatewayInv, RegistryInv
<1>1. /\ rooms' = [rooms EXCEPT ![s] = @ \ {Venue(v)}]
      /\ venueViewers' = Strike(venueViewers, {v}, s)
      /\ Tell(DOMAIN venueViewers \cap {v})
      /\ UNCHANGED <<conn, socketToUser, connectedUsers>>
  BY DEF LeaveVenue, Exit, registry
<1>2. /\ IsMap(venueViewers', Venues)
      /\ \A j : Members(venueViewers', j)
                = IF j = v THEN Members(venueViewers, j) \ {s}
                  ELSE Members(venueViewers, j)
      /\ \A j \in DOMAIN venueViewers' : venueViewers'[j] # {}
  <2>1. IsMap(venueViewers, Venues) /\ \A j \in DOMAIN venueViewers : venueViewers[j] # {}
    BY DEF GatewayTypeOK, ViewersAreInTheRoom
  <2>2. IsMap(Strike(venueViewers, {v}, s), Venues)
    BY <2>1, StrikeIsMap
  <2>3. /\ \A j : j \in {v} => Members(Strike(venueViewers, {v}, s), j)
                                = Members(venueViewers, j) \ {s}
        /\ \A j : j \notin {v} => Members(Strike(venueViewers, {v}, s), j)
                                   = Members(venueViewers, j)
    BY StrikeMembers
  <2>4. \A j \in DOMAIN Strike(venueViewers, {v}, s) :
            Strike(venueViewers, {v}, s)[j] # {}
    BY <2>1, StrikeMembers
  <2> QED BY <1>1, <2>2, <2>3, <2>4
<1>3. \A x \in Sockets : \A y :
          /\ Personal(y) \in rooms'[x] <=> Personal(y) \in rooms[x]
          /\ Venue(y) \in rooms'[x] <=> Venue(y) \in rooms[x] /\ ~(x = s /\ y = v)
  BY <1>1, RoomsDiffer DEF GatewayTypeOK
<1>4. GatewayTypeOK'
  <2>1. told' \in [Sockets -> [Venues -> Nat]]
    BY <1>1, <1>2, TellTypes
  <2>2. rooms' \in [Sockets -> SUBSET Rooms]
    BY <1>1 DEF GatewayTypeOK
  <2> QED BY <1>1, <1>2, <2>1, <2>2 DEF GatewayTypeOK, IsMap
<1>5. RegistriesAgree'
  BY <1>1, <1>3 DEF RegistriesAgree, Members
<1>6. ViewersAreInTheRoom'
  <2>1. \A w \in Venues :
            {x \in Sockets : Venue(w) \in rooms'[x]} = Members(venueViewers', w)
    <3> TAKE w \in Venues
    <3>1. {x \in Sockets : Venue(w) \in rooms[x]} = Members(venueViewers, w)
      BY DEF ViewersAreInTheRoom
    <3> QED BY <1>2, <1>3, <3>1
  <2> QED BY <1>2, <2>1 DEF ViewersAreInTheRoom, Members
<1>7. ViewersKnowTheCount'
  <2>1. \A w : w \notin DOMAIN venueViewers =>
            Members(venueViewers', w) = Members(venueViewers, w)
    BY <1>2 DEF Members
  <2> QED BY <1>1, <1>2, <1>3, <2>1, TellInforms
<1> QED BY <1>4, <1>5, <1>6, <1>7

\* After a restart nobody is connected, and the empty maps say so.
LEMMA RestartStep ==
    ASSUME GatewayInv, GatewayRestart
    PROVE  GatewayInv'
<1> USE DEF GatewayInv, RegistryInv
<1>1. /\ conn' = [s \in Sockets |-> IF conn[s] = "open" THEN "closed" ELSE conn[s]]
      /\ rooms' = [s \in Sockets |-> {}]
      /\ socketToUser' = [s \in Sockets |-> NoUser]
      /\ connectedUsers' = [u \in {} |-> {}]
      /\ venueViewers' = [v \in {} |-> {}]
      /\ told' = told
  BY DEF GatewayRestart
<1>2. /\ IsMap(connectedUsers', Users) /\ DOMAIN connectedUsers' = {}
      /\ \A j : Members(connectedUsers', j) = {}
      /\ IsMap(venueViewers', Venues) /\ DOMAIN venueViewers' = {}
      /\ \A j : Members(venueViewers', j) = {}
  BY <1>1, EmptyMap
<1>3. GatewayTypeOK'
  <2>1. rooms' \in [Sockets -> SUBSET Rooms] /\ socketToUser' \in [Sockets -> Users \cup {NoUser}]
    BY <1>1
  <2>2. conn' \in [Sockets -> {"new", "open", "closed"}]
    BY <1>1 DEF GatewayTypeOK
  <2> QED BY <1>1, <1>2, <2>1, <2>2 DEF GatewayTypeOK, IsMap
<1>4. RegistriesAgree'
  <2>1. \A x \in Sockets : conn'[x] # "open" /\ socketToUser'[x] = NoUser /\ rooms'[x] = {}
    BY <1>1
  <2>2. \A u \in Users : {x \in Sockets : socketToUser'[x] = u} = {}
    BY <2>1, GatewayAssumption
  <2> QED BY <1>2, <2>1, <2>2, GatewayAssumption DEF RegistriesAgree, Members
<1>5. ViewersAreInTheRoom'
  BY <1>1, <1>2 DEF ViewersAreInTheRoom, Members
<1>6. ViewersKnowTheCount'
  BY <1>1 DEF ViewersKnowTheCount
<1> QED BY <1>3, <1>4, <1>5, <1>6
-------------------------------------------------------------------------------
(* Theorems. *)

\* The gateway starts with nobody connected and every map empty.
LEMMA GatewayStart == GatewayInit => GatewayInv
<1> SUFFICES ASSUME GatewayInit PROVE GatewayInv
  OBVIOUS
<1>1. /\ IsMap(connectedUsers, Users) /\ DOMAIN connectedUsers = {}
      /\ \A j : Members(connectedUsers, j) = {}
      /\ IsMap(venueViewers, Venues) /\ DOMAIN venueViewers = {}
      /\ \A j : Members(venueViewers, j) = {}
  BY EmptyMap DEF GatewayInit
<1>2. GatewayTypeOK
  BY <1>1 DEF GatewayTypeOK, GatewayInit, IsMap
<1>3. \A u \in Users : {x \in Sockets : socketToUser[x] = u} = {}
  BY GatewayAssumption DEF GatewayInit
<1>4. RegistriesAgree
  BY <1>1, <1>3, GatewayAssumption DEF RegistriesAgree, GatewayInit
<1>5. ViewersAreInTheRoom /\ ViewersKnowTheCount
  BY <1>1 DEF ViewersAreInTheRoom, ViewersKnowTheCount, GatewayInit
<1> QED BY <1>2, <1>4, <1>5 DEF GatewayInv, RegistryInv

\* Every handler preserves the agreement of maps, rooms and counts.
LEMMA GatewayKeeps == GatewayInv /\ [GatewayNext]_gateway => GatewayInv'
<1> SUFFICES ASSUME GatewayInv, [GatewayNext]_gateway PROVE GatewayInv'
  OBVIOUS
<1>1. ASSUME NEW s \in Sockets, NEW u \in Users, Connect(s, u) PROVE GatewayInv'
  BY <1>1, ConnectStep
<1>2. ASSUME NEW s \in Sockets, Refuse(s) PROVE GatewayInv'
  BY <1>2, RefuseStep
<1>3. ASSUME NEW s \in Sockets, Disconnect(s) PROVE GatewayInv'
  BY <1>3, DisconnectStep
<1>4. ASSUME NEW s \in Sockets, NEW p \in Places,
             JoinCity(s, p) \/ LeaveCity(s, p) \/ JoinMap(s, p) \/ LeaveMap(s, p)
      PROVE  GatewayInv'
  <2>1. City(p) \in Rooms /\ Map(p) \in Rooms
    BY RoomsAreRooms
  <2>2. \A x : /\ City(p) # Personal(x) /\ City(p) # Venue(x)
               /\ Map(p) # Personal(x) /\ Map(p) # Venue(x)
    BY RoomsDiffer
  <2>3. UNCHANGED <<registry, venueViewers, told>>
    BY <1>4 DEF JoinCity, LeaveCity, JoinMap, LeaveMap
  <2>4. CASE JoinCity(s, p) \/ LeaveCity(s, p)
    <3>1. \/ rooms' = [rooms EXCEPT ![s] = @ \cup {City(p)}]
          \/ rooms' = [rooms EXCEPT ![s] = @ \ {City(p)}]
      BY <2>4 DEF JoinCity, LeaveCity, Enter, Exit
    <3> QED BY <2>1, <2>2, <2>3, <3>1, OtherRoom
  <2>5. CASE JoinMap(s, p) \/ LeaveMap(s, p)
    <3>1. \/ rooms' = [rooms EXCEPT ![s] = @ \cup {Map(p)}]
          \/ rooms' = [rooms EXCEPT ![s] = @ \ {Map(p)}]
      BY <2>5 DEF JoinMap, LeaveMap, Enter, Exit
    <3> QED BY <2>1, <2>2, <2>3, <3>1, OtherRoom
  <2> QED BY <1>4, <2>4, <2>5
<1>5. ASSUME NEW s \in Sockets, NEW v \in Venues, JoinVenue(s, v) PROVE GatewayInv'
  BY <1>5, JoinVenueStep
<1>6. ASSUME NEW s \in Sockets, NEW v \in Venues, LeaveVenue(s, v) PROVE GatewayInv'
  BY <1>6, LeaveVenueStep
<1>7. ASSUME NEW s \in Sockets, NEW v \in Venues,
             JoinBusiness(s, v) \/ LeaveBusiness(s, v)
      PROVE  GatewayInv'
  <2>1. Business(v) \in Rooms
    BY RoomsAreRooms
  <2>2. \A x : Business(v) # Personal(x) /\ Business(v) # Venue(x)
    BY RoomsDiffer
  <2>3. UNCHANGED <<registry, venueViewers, told>>
    BY <1>7 DEF JoinBusiness, LeaveBusiness
  <2>4. \/ rooms' = [rooms EXCEPT ![s] = @ \cup {Business(v)}]
        \/ rooms' = [rooms EXCEPT ![s] = @ \ {Business(v)}]
    BY <1>7 DEF JoinBusiness, LeaveBusiness, Enter, Exit
  <2> QED BY <2>1, <2>2, <2>3, <2>4, OtherRoom
<1>8. CASE GatewayRestart
  BY <1>8, RestartStep
<1>9. CASE UNCHANGED gateway
  BY <1>9 DEF gateway, GatewayInv, RegistryInv, GatewayTypeOK, IsMap, RegistriesAgree,
              ViewersAreInTheRoom, ViewersKnowTheCount, ViewerCount, Members
<1> QED BY <1>1, <1>2, <1>3, <1>4, <1>5, <1>6, <1>7, <1>8, <1>9 DEF GatewayNext

\* The invariant of the gateway, for any number of sockets, users and venues.
THEOREM GatewayInvariant == GatewaySpec => []GatewayInv
<1>1. GatewayInit => GatewayInv
  BY GatewayStart
<1>2. GatewayInv /\ [GatewayNext]_gateway => GatewayInv'
  BY GatewayKeeps
<1> QED BY <1>1, <1>2, PTL DEF GatewaySpec

\* The gateway's two registries and the personal rooms agree with the sockets
\* that are open, whatever connects, breaks off and restarts.
THEOREM RegistriesAlwaysAgree == GatewaySpec => []RegistriesAgree
<1>1. GatewayInv => RegistriesAgree
  BY DEF GatewayInv, RegistryInv
<1> QED BY <1>1, GatewayInvariant, PTL

\* The set of a venue's viewers is the membership of its room.
THEOREM ViewersAlwaysInTheRoom == GatewaySpec => []ViewersAreInTheRoom
<1>1. GatewayInv => ViewersAreInTheRoom
  BY DEF GatewayInv
<1> QED BY <1>1, GatewayInvariant, PTL

\* Everyone who views a venue was last told the number of its viewers.
THEOREM ViewersAlwaysKnowTheCount == GatewaySpec => []ViewersKnowTheCount
<1>1. GatewayInv => ViewersKnowTheCount
  BY DEF GatewayInv
<1> QED BY <1>1, GatewayInvariant, PTL

\* All of the gateway's books agree, for any number of sockets, users and venues.
THEOREM GatewayAlwaysAgrees == GatewaySpec => []GatewayAgrees
<1>1. GatewayInv => GatewayAgrees
  BY DEF GatewayInv, RegistryInv, GatewayAgrees
<1> QED BY <1>1, GatewayInvariant, PTL

-------------------------------------------------------------------------------
(* The inductive invariant of the venue's updates. *)

\* A request with a status update, and one that has stored it but not published it.
Writer(r) == req[r] # Idle /\ req[r].kind \in Writers
Stored(r) == Writer(r) /\ req[r].at \notin {"find", "save"}
Unsettled(v) == \E r \in Requests : Stored(r) /\ req[r].v = v

\* The requests on their way to send an alert.
Pending(v, t) == {r \in Requests : Deciding(r, t) /\ req[r].v = v}

\* Who takes which steps.
InOrder(r) ==
    /\ req[r].at \in {"find", "save", "publish"} => req[r].kind \in Writers
    /\ req[r].at \in {"findVibes", "saveVibes", "alertLive", "log", "alertPeak"}
           => req[r].kind = "owner"
    /\ req[r].at = "alertPeak" => req[r].level = "busy"
    /\ req[r].at \in {"store", "notify", "announce"}
           => req[r].kind \in Posters /\ req[r].item \in Items

LiveTypes == TypeOK /\ \A r \in Requests : InOrder(r)

\* An alert that is owed has been sent to every follower or is on its way.
Sent(v, t) == owed[v][t] - Cardinality(Pending(v, t))
AlertsInv ==
    \A v \in Venues, t \in Alerts :
        Sent(v, t) \in Nat /\ \A u \in Followers[v] : inbox[u][v][t] = Sent(v, t)

\* What a request has stored is still there, unless the venue is blurred.
UpdatesInv ==
    /\ \A r \in alone : r \in Requests /\ Writer(r) /\ Writing(req[r].v) = {r}
    /\ \A r \in Requests :
           Stored(r) /\ (r \in alone \/ req[r].v \notin blurred)
               => level[req[r].v] = req[r].level

\* A socket has heard nothing in a room it is not in, and the last level elsewhere.
RoomsInv ==
    /\ \A s \in Sockets, k \in FeedKinds, v \in Venues :
           FeedRoom(k, v) \notin rooms[s] => heard[s][k][v] = "none"
    /\ \A v \in Venues : v \notin blurred /\ ~Unsettled(v) =>
           \A s \in Sockets, k \in FeedKinds : heard[s][k][v] \in {"none", level[v]}

\* So has a stream, from the moment its snapshot is taken.
StreamsInv ==
    \A f \in Streams, v \in Venues :
        /\ stream[f].at # "closed" /\ v \notin blurred /\ v \notin stream[f].gap
        /\ NameKey[v] = stream[f].place /\ SlugKey[v] = stream[f].place
        /\ ~Unsettled(v)
        => stream[f].shows[v] = level[v]

LiveInv ==
    /\ GatewayInv /\ LiveTypes
    /\ AlertsInv /\ UpdatesInv /\ RoomsInv /\ StreamsInv

-------------------------------------------------------------------------------
(* Requests. *)

LEMMA RequestIsBusy ==
    \A x \in Request : x # Idle /\ x.at # "idle"
BY DEF Request, Idle, Steps

\* A request at a step has the fields of a request.
LEMMA AtKnown ==
    ASSUME TypeOK, NEW r \in Requests
    PROVE  /\ req[r] \in Request \cup {Idle} /\ (req[r] # Idle <=> req[r] \in Request)
           /\ req[r].at # "idle" => req[r] \in Request
           /\ Idle.at = "idle"
<1>1. req[r] \in Request \cup {Idle} /\ Idle.at = "idle"
  BY DEF TypeOK, Idle
<1>. QED
  BY <1>1, RequestIsBusy

\* What r becomes is written over what it was.
LEMMA Becoming ==
    ASSUME TypeOK, NEW r \in Requests, NEW new \in Request \cup {Idle},
           req' = [req EXCEPT ![r] = new]
    PROVE  /\ req' \in [Requests -> Request \cup {Idle}] /\ req'[r] = new
           /\ \A q \in Requests \ {r} : req'[q] = req[q]
BY DEF TypeOK

\* It takes a step, and nothing else of it changes.
LEMMA GotoKnown ==
    ASSUME TypeOK, NEW r \in Requests, req[r] \in Request, NEW step \in Steps, Goto(r, step)
    PROVE  /\ req' \in [Requests -> Request \cup {Idle}]
           /\ \A q \in Requests \ {r} : req'[q] = req[q]
           /\ req'[r] \in Request /\ req'[r].at = step
           /\ req'[r].kind = req[r].kind /\ req'[r].v = req[r].v
           /\ req'[r].level = req[r].level /\ req'[r].item = req[r].item
<1>1. PICK new : new = [req[r] EXCEPT !.at = step]
  OBVIOUS
<1>2. /\ new \in Request /\ new.at = step /\ new.kind = req[r].kind /\ new.v = req[r].v
      /\ new.level = req[r].level /\ new.item = req[r].item
  BY <1>1 DEF Request
<1>3. req' = [req EXCEPT ![r] = new]
  BY <1>1 DEF Goto
<1>. QED
  BY <1>2, <1>3, Becoming

LEMMA FinishKnown ==
    ASSUME TypeOK, NEW r \in Requests, Finish(r)
    PROVE  /\ req' \in [Requests -> Request \cup {Idle}] /\ req'[r] = Idle
           /\ \A q \in Requests \ {r} : req'[q] = req[q]
BY Becoming DEF Finish

\* An idle request takes part in nothing.
LEMMA IdleKnown ==
    ASSUME NEW q, req[q] = Idle
    PROVE  ~Writer(q) /\ ~Stored(q) /\ InOrder(q) /\ \A t : ~Deciding(q, t)
BY DEF Writer, Stored, InOrder, Deciding, Idle

\* A request that has not moved is where it was.
LEMMA SameRequest ==
    ASSUME NEW q, req'[q] = req[q]
    PROVE  /\ Writer(q)' <=> Writer(q)
           /\ Stored(q)' <=> Stored(q)
           /\ InOrder(q)' <=> InOrder(q)
           /\ \A t : Deciding(q, t)' <=> Deciding(q, t)
BY DEF Writer, Stored, InOrder, Deciding, At

\* The two searches remember what they have read.
ReadsBusyness(r) ==
    /\ At(r, "find")
    /\ req' = [req EXCEPT ![r] = [@ EXCEPT !.at = "save", !.seen = level[req[r].v]]]
    /\ UNCHANGED <<gateway, tables, clients, updates, failures, histories>>

LEMMA ReadKnown ==
    ASSUME TypeOK, NEW r \in Requests, ReadsBusyness(r) \/ FindVibes(r)
    PROVE  /\ req' \in [Requests -> Request \cup {Idle}]
           /\ \A q \in Requests \ {r} : req'[q] = req[q]
           /\ req[r] \in Request /\ req'[r] \in Request
           /\ ReadsBusyness(r) => req[r].at = "find" /\ req'[r].at = "save"
           /\ FindVibes(r) => req[r].at = "findVibes" /\ req'[r].at = "saveVibes"
           /\ req'[r].kind = req[r].kind /\ req'[r].v = req[r].v
           /\ req'[r].level = req[r].level
<1>1. req[r] \in Request
  BY AtKnown DEF ReadsBusyness, FindVibes, At
<1>2. req[r].v \in Venues
  BY <1>1 DEF Request
<1>3. CASE ReadsBusyness(r)
  <2>1. PICK new : new = [req[r] EXCEPT !.at = "save", !.seen = level[req[r].v]]
    OBVIOUS
  <2>2. level[req[r].v] \in Levels \cup {"absent"}
    BY <1>2 DEF TypeOK
  <2>3. /\ new \in Request /\ new.at = "save" /\ new.kind = req[r].kind
        /\ new.v = req[r].v /\ new.level = req[r].level
    BY <1>1, <2>1, <2>2 DEF Request, Steps
  <2>4. req' = [req EXCEPT ![r] = new] /\ req[r].at = "find"
    BY <1>3, <2>1 DEF ReadsBusyness, At
  <2>. QED
    BY <1>1, <2>3, <2>4, Becoming DEF FindVibes, At
<1>4. CASE FindVibes(r)
  <2>1. PICK new : new = [req[r] EXCEPT !.at = "saveVibes", !.was = live[req[r].v]]
    OBVIOUS
  <2>2. live[req[r].v] \in BOOLEAN
    BY <1>2 DEF TypeOK
  <2>3. /\ new \in Request /\ new.at = "saveVibes" /\ new.kind = req[r].kind
        /\ new.v = req[r].v /\ new.level = req[r].level
    BY <1>1, <2>1, <2>2 DEF Request, Steps
  <2>4. req' = [req EXCEPT ![r] = new] /\ req[r].at = "findVibes"
    BY <1>4, <2>1 DEF FindVibes, At
  <2>. QED
    BY <1>1, <2>3, <2>4, Becoming DEF ReadsBusyness, At
<1>. QED
  BY <1>3, <1>4

-------------------------------------------------------------------------------
(* Steps that change nothing the invariant speaks of. *)

\* The updates under way, and how far they are, are the same.
SameWriters ==
    \A q \in Requests :
        /\ Writer(q)' <=> Writer(q)
        /\ Stored(q)' <=> Stored(q)
        /\ Writer(q) => req'[q].v = req[q].v /\ req'[q].level = req[q].level

\* So are the alerts decided on.
SameAlerts ==
    \A q \in Requests, t \in Alerts :
        (Deciding(q, t)' <=> Deciding(q, t)) /\ (Deciding(q, t) => req'[q].v = req[q].v)

LEMMA RequestsStay ==
    ASSUME req' = req
    PROVE  SameWriters /\ SameAlerts /\ \A q \in Requests : InOrder(q)' <=> InOrder(q)
BY SameRequest DEF SameWriters, SameAlerts

LEMMA UnsettledStays ==
    ASSUME SameWriters
    PROVE  \A v : (Unsettled(v)' <=> Unsettled(v)) /\ Writing(v)' = Writing(v)
<1>1. \A v : Unsettled(v)' <=> Unsettled(v)
  BY DEF SameWriters, Unsettled, Stored
<1>2. ASSUME NEW v PROVE Writing(v)' = Writing(v)
  <2>1. \A q \in Requests : q \in Writing(v) <=> Writer(q) /\ req[q].v = v
    BY DEF Writing, Writer
  <2>2. \A q \in Requests : q \in Writing(v)' <=> Writer(q)' /\ req'[q].v = v
    BY DEF Writing, Writer
  <2>3. Writing(v) \subseteq Requests /\ Writing(v)' \subseteq Requests
    BY DEF Writing
  <2>. QED
    BY <2>1, <2>2, <2>3 DEF SameWriters
<1>. QED
  BY <1>1, <1>2

LEMMA UpdatesStay ==
    ASSUME UpdatesInv, SameWriters, UNCHANGED <<level, alone, blurred>>
    PROVE  UpdatesInv'
<1>1. \A r \in alone : r \in Requests /\ Writer(r)' /\ (Writing(req[r].v) = {r})'
  BY UnsettledStays DEF UpdatesInv, SameWriters
<1>2. \A r \in Requests : Stored(r)' /\ (r \in alone \/ req'[r].v \notin blurred)
          => level[req'[r].v] = req'[r].level
  BY DEF UpdatesInv, SameWriters, Stored
<1>. QED
  BY <1>1, <1>2 DEF UpdatesInv

LEMMA RoomsStay ==
    ASSUME RoomsInv, SameWriters, UNCHANGED <<level, blurred, heard, rooms>>
    PROVE  RoomsInv'
BY UnsettledStays DEF RoomsInv, FeedRoom

LEMMA StreamsStay ==
    ASSUME StreamsInv, SameWriters, UNCHANGED <<level, blurred, stream>>
    PROVE  StreamsInv'
BY UnsettledStays DEF StreamsInv

LEMMA AlertsStay ==
    ASSUME AlertsInv, SameAlerts, UNCHANGED <<inbox, owed>>
    PROVE  AlertsInv'
<1>1. ASSUME NEW v \in Venues, NEW t \in Alerts PROVE Pending(v, t)' = Pending(v, t)
  BY DEF SameAlerts, Pending
<1>. QED
  BY <1>1 DEF AlertsInv, Sent

LEMMA GatewayStays ==
    ASSUME GatewayInv, UNCHANGED gateway
    PROVE  GatewayInv' /\ GatewayTypeOK' /\ rooms' = rooms
BY GatewayKeeps DEF gateway, GatewayInv, RegistryInv

LEMMA QuietKeeps ==
    ASSUME LiveInv, UNCHANGED <<gateway, tables, clients, failures, histories>>,
           updates' \in 0 .. MaxUpdates,
           req' \in [Requests -> Request \cup {Idle}], \A q \in Requests : InOrder(q)',
           SameWriters, SameAlerts
    PROVE  LiveInv'
<1>1. UNCHANGED <<level, live, items, inbox, heard, got, stream, failures,
                  alone, blurred, owed, due>>
  BY DEF tables, clients, histories
<1>2. GatewayInv' /\ GatewayTypeOK' /\ rooms' = rooms
  BY GatewayStays DEF LiveInv
<1>3. LiveTypes'
  BY <1>1, <1>2 DEF LiveInv, LiveTypes, TypeOK
<1>4. AlertsInv'
  BY <1>1, AlertsStay DEF LiveInv
<1>5. UpdatesInv' /\ RoomsInv' /\ StreamsInv'
  BY <1>1, <1>2, UpdatesStay, RoomsStay, StreamsStay DEF LiveInv
<1>. QED
  BY <1>2, <1>3, <1>4, <1>5 DEF LiveInv

\* A step of r that leaves it what it was: it is written down whether r is a writer, has
\* stored its update, and decides on an alert.
LEMMA OneMoves ==
    ASSUME NEW r \in Requests, \A q \in Requests \ {r} : req'[q] = req[q],
           Writer(r)' <=> Writer(r), Stored(r)' <=> Stored(r),
           Writer(r) => req'[r].v = req[r].v /\ req'[r].level = req[r].level,
           \A t \in Alerts : Deciding(r, t)' <=> Deciding(r, t),
           \A q \in Requests : InOrder(q), InOrder(r)'
    PROVE  SameWriters /\ SameAlerts /\ \A q \in Requests : InOrder(q)'
<1>1. \A q \in Requests \ {r} :
          /\ Writer(q)' <=> Writer(q)
          /\ Stored(q)' <=> Stored(q)
          /\ InOrder(q)' <=> InOrder(q)
          /\ \A t : Deciding(q, t)' <=> Deciding(q, t)
  BY SameRequest
<1>2. \A q \in Requests, t \in Alerts : Deciding(q, t) => Writer(q)
  BY DEF Deciding, Writer, Writers
<1>3. SameWriters
  BY <1>1 DEF SameWriters
<1>4. SameAlerts
  BY <1>1, <1>2, <1>3 DEF SameAlerts, SameWriters
<1>. QED
  BY <1>1, <1>3, <1>4

LEMMA ReadKeeps ==
    ASSUME LiveInv, NEW r \in Requests, ReadsBusyness(r) \/ FindVibes(r)
    PROVE  LiveInv'
<1>0. TypeOK /\ \A q \in Requests : InOrder(q)
  BY DEF LiveInv, LiveTypes
<1>1. /\ req' \in [Requests -> Request \cup {Idle}]
      /\ \A q \in Requests \ {r} : req'[q] = req[q]
      /\ req[r] # Idle /\ req'[r] # Idle
      /\ ReadsBusyness(r) => req[r].at = "find" /\ req'[r].at = "save"
      /\ FindVibes(r) => req[r].at = "findVibes" /\ req'[r].at = "saveVibes"
      /\ req'[r].kind = req[r].kind /\ req'[r].v = req[r].v /\ req'[r].level = req[r].level
  BY <1>0, ReadKnown, RequestIsBusy
<1>2. Writer(r)' <=> Writer(r)
  BY <1>1 DEF Writer
<1>3. Stored(r)' <=> Stored(r)
  BY <1>1, <1>2 DEF Stored
<1>4. \A t \in Alerts : Deciding(r, t)' <=> Deciding(r, t)
  BY <1>1 DEF Deciding, At
<1>5. InOrder(r)'
  BY <1>0, <1>1 DEF InOrder
<1>6. UNCHANGED <<gateway, tables, clients, updates, failures, histories>>
  BY DEF ReadsBusyness, FindVibes
<1>7. updates' \in 0 .. MaxUpdates
  BY <1>0, <1>6 DEF TypeOK
<1>8. SameWriters /\ SameAlerts /\ \A q \in Requests : InOrder(q)'
  BY <1>0, <1>1, <1>2, <1>3, <1>4, <1>5, OneMoves
<1>. QED
  BY <1>1, <1>6, <1>7, <1>8, QuietKeeps

LEMMA LogStatusKeeps ==
    ASSUME LiveInv, NEW r \in Requests, LogStatus(r)
    PROVE  LiveInv'
<1>0. TypeOK /\ \A q \in Requests : InOrder(q)
  BY DEF LiveInv, LiveTypes
<1>1. req[r] \in Request /\ req[r] # Idle /\ req[r].at = "log" /\ req[r].kind = "owner"
  BY <1>0, AtKnown DEF LogStatus, At, InOrder
<1>2. PICK step \in Steps : /\ Goto(r, step)
                            /\ step = IF req[r].level = "busy" THEN "alertPeak" ELSE "publish"
  BY DEF LogStatus, Steps
<1>3. /\ req' \in [Requests -> Request \cup {Idle}]
      /\ \A q \in Requests \ {r} : req'[q] = req[q]
      /\ req'[r] # Idle /\ req'[r].at = step
      /\ req'[r].kind = req[r].kind /\ req'[r].v = req[r].v /\ req'[r].level = req[r].level
  BY <1>0, <1>1, <1>2, GotoKnown, RequestIsBusy
<1>4. (Writer(r)' <=> Writer(r)) /\ (Stored(r)' <=> Stored(r))
  BY <1>1, <1>2, <1>3 DEF Writer, Stored
<1>5. \A t \in Alerts : Deciding(r, t)' <=> Deciding(r, t)
  BY <1>1, <1>2, <1>3 DEF Deciding, At
<1>6. InOrder(r)'
  BY <1>1, <1>2, <1>3 DEF InOrder, Writers
<1>7. UNCHANGED <<gateway, tables, clients, updates, failures, histories>>
  BY DEF LogStatus
<1>8. updates' \in 0 .. MaxUpdates
  BY <1>0, <1>7 DEF TypeOK
<1>9. SameWriters /\ SameAlerts /\ \A q \in Requests : InOrder(q)'
  BY <1>0, <1>3, <1>4, <1>5, <1>6, OneMoves
<1>. QED
  BY <1>3, <1>7, <1>8, <1>9, QuietKeeps

-------------------------------------------------------------------------------
(* News. *)

\* A request of news is no update and decides on no alert.
LEMMA PosterKnown ==
    ASSUME NEW q, req[q].kind \in Posters
    PROVE  ~Writer(q) /\ ~Stored(q) /\ \A t : ~Deciding(q, t)
BY DEF Posters, Writers, Writer, Stored, Deciding

LEMMA PostKeeps ==
    ASSUME LiveInv, NEW r \in Requests, NEW kind \in Posters, NEW v \in Venues,
           NEW i \in Items, Post(r, kind, v, i)
    PROVE  LiveInv'
<1>0. TypeOK /\ (\A q \in Requests : InOrder(q)) /\ req[r] = Idle
  BY DEF LiveInv, LiveTypes, Post
<1>1. PICK new : new = [kind |-> kind, at |-> "store", v |-> v, item |-> i,
                  level |-> "quiet", tags |-> "kept", seen |-> "absent", was |-> FALSE]
  OBVIOUS
<1>2. new \in Request /\ new.kind \in Posters /\ new.at = "store" /\ new.item \in Items
  BY <1>1 DEF Request, Steps, Levels
<1>3. /\ req' \in [Requests -> Request \cup {Idle}] /\ req'[r] = new
      /\ \A q \in Requests \ {r} : req'[q] = req[q]
  BY <1>0, <1>1, <1>2, Becoming DEF Post
<1>4. ~Writer(r)' /\ ~Stored(r)' /\ \A t : ~Deciding(r, t)'
  BY <1>2, <1>3 DEF Posters, Writers, Writer, Stored, Deciding
<1>5. ~Writer(r) /\ ~Stored(r) /\ \A t : ~Deciding(r, t)
  BY <1>0, IdleKnown
<1>6. InOrder(r)'
  BY <1>2, <1>3 DEF InOrder
<1>7. UNCHANGED <<gateway, tables, clients, updates, failures, histories>>
  BY DEF Post
<1>8. updates' \in 0 .. MaxUpdates
  BY <1>0, <1>7 DEF TypeOK
<1>9. SameWriters /\ SameAlerts /\ \A q \in Requests : InOrder(q)'
  BY <1>0, <1>3, <1>4, <1>5, <1>6, OneMoves
<1>. QED
  BY <1>3, <1>7, <1>8, <1>9, QuietKeeps

LEMMA NotifySaversKeeps ==
    ASSUME LiveInv, NEW r \in Requests, NotifySavers(r)
    PROVE  LiveInv'
<1>0. TypeOK /\ \A q \in Requests : InOrder(q)
  BY DEF LiveInv, LiveTypes
<1>1. /\ req[r] \in Request /\ req[r] # Idle
      /\ req[r].kind \in Posters /\ req[r].item \in Items
  BY <1>0, AtKnown DEF NotifySavers, At, InOrder
<1>2. Goto(r, "announce") /\ "announce" \in Steps
  BY DEF NotifySavers, Steps
<1>3. /\ req' \in [Requests -> Request \cup {Idle}]
      /\ \A q \in Requests \ {r} : req'[q] = req[q]
      /\ req'[r].at = "announce" /\ req'[r].kind = req[r].kind /\ req'[r].item = req[r].item
  BY <1>0, <1>1, <1>2, GotoKnown
<1>4. ~Writer(r)' /\ ~Stored(r)' /\ \A t : ~Deciding(r, t)'
  BY <1>1, <1>3 DEF Posters, Writers, Writer, Stored, Deciding
<1>5. ~Writer(r) /\ ~Stored(r) /\ \A t : ~Deciding(r, t)
  BY <1>1, PosterKnown
<1>6. InOrder(r)'
  BY <1>1, <1>3 DEF InOrder
<1>7. UNCHANGED <<gateway, tables, clients, updates, failures, histories>>
  BY DEF NotifySavers
<1>8. updates' \in 0 .. MaxUpdates
  BY <1>0, <1>7 DEF TypeOK
<1>9. SameWriters /\ SameAlerts /\ \A q \in Requests : InOrder(q)'
  BY <1>0, <1>3, <1>4, <1>5, <1>6, OneMoves
<1>. QED
  BY <1>3, <1>7, <1>8, <1>9, QuietKeeps

\* A step that stores or announces news: only the items, who is owed them and who got
\* them change.
LEMMA NewsKeeps ==
    ASSUME LiveInv, NEW r \in Requests, StoreItem(r) \/ Announce(r)
    PROVE  LiveInv'
<1>0. TypeOK /\ \A q \in Requests : InOrder(q)
  BY DEF LiveInv, LiveTypes
<1>1. /\ req[r] \in Request /\ req[r] # Idle /\ req[r].v \in Venues
      /\ req[r].kind \in Posters /\ req[r].item \in Items
  BY <1>0, AtKnown DEF StoreItem, Announce, At, InOrder, Request
<1>2. Finish(r) \/ \E step \in {"notify", "announce"} : Goto(r, step)
  BY <1>1 DEF StoreItem, Announce, Posters
<1>3. /\ req' \in [Requests -> Request \cup {Idle}]
      /\ \A q \in Requests \ {r} : req'[q] = req[q]
      /\ \/ req'[r] = Idle
         \/ /\ req'[r].at \in {"notify", "announce"}
            /\ req'[r].kind \in Posters /\ req'[r].item \in Items
  <2>1. CASE Finish(r)
    BY <1>0, <2>1, FinishKnown
  <2>2. CASE \E step \in {"notify", "announce"} : Goto(r, step)
    <3>1. PICK step \in {"notify", "announce"} : Goto(r, step)
      BY <2>2
    <3>2. step \in Steps
      BY DEF Steps
    <3>. QED
      BY <1>0, <1>1, <3>1, <3>2, GotoKnown
  <2>. QED
    BY <1>2, <2>1, <2>2
<1>4. ~Writer(r)' /\ ~Stored(r)' /\ (\A t : ~Deciding(r, t)') /\ InOrder(r)'
  BY <1>3 DEF Posters, Writers, Writer, Stored, Deciding, InOrder, Idle
<1>5. ~Writer(r) /\ ~Stored(r) /\ \A t : ~Deciding(r, t)
  BY <1>1, PosterKnown
<1>6. SameWriters /\ SameAlerts /\ \A q \in Requests : InOrder(q)'
  BY <1>0, <1>3, <1>4, <1>5, OneMoves
<1>7. UNCHANGED <<gateway, level, live, inbox, heard, stream, updates, failures,
                  alone, blurred, owed>>
  BY DEF StoreItem, Announce, tables, clients, histories
<1>8. GatewayInv' /\ GatewayTypeOK' /\ rooms' = rooms
  BY <1>7, GatewayStays DEF LiveInv
<1>9. /\ items' \subseteq [id : Items, v : Venues, kind : Posters]
      /\ got' \in [Sockets -> SUBSET Items]
      /\ due' \in [Items -> SUBSET Sockets]
  <2>1. CASE StoreItem(r)
    <3>2. Audience(req[r].kind, req[r].v) \subseteq Sockets
      BY DEF Audience
    <3>3. due' \in [Items -> SUBSET Sockets]
      BY <1>0, <1>1, <2>1, <3>2 DEF StoreItem, TypeOK
    <3>. QED
      BY <1>0, <1>1, <2>1, <3>3 DEF StoreItem, TypeOK, clients
  <2>2. CASE Announce(r)
    <3>1. got' \in [Sockets -> SUBSET Items]
      BY <1>0, <1>1, <2>2 DEF Announce, TypeOK
    <3>. QED
      BY <1>0, <2>2, <3>1 DEF Announce, TypeOK, tables, histories
  <2>. QED
    BY <2>1, <2>2
<1>10. LiveTypes'
  BY <1>0, <1>3, <1>6, <1>7, <1>8, <1>9 DEF LiveTypes, TypeOK
<1>11. AlertsInv' /\ UpdatesInv' /\ RoomsInv' /\ StreamsInv'
  BY <1>6, <1>7, <1>8, AlertsStay, UpdatesStay, RoomsStay, StreamsStay DEF LiveInv
<1>. QED
  BY <1>8, <1>10, <1>11 DEF LiveInv

-------------------------------------------------------------------------------
(* Clients and streams. *)

LEMMA ClientStepKeeps ==
    ASSUME LiveInv, ClientStep
    PROVE  LiveInv'
<1>0. TypeOK /\ \A q \in Requests : InOrder(q)
  BY DEF LiveInv, LiveTypes
<1>1. [GatewayNext]_gateway
  BY DEF ClientStep, GatewayNext
<1>2. GatewayInv' /\ GatewayTypeOK'
  BY <1>1, GatewayKeeps DEF LiveInv, GatewayInv, RegistryInv
<1>3. /\ heard' = [s \in Sockets |-> [k \in FeedKinds |-> [v \in Venues |->
              IF FeedRoom(k, v) \in rooms'[s] THEN heard[s][k][v] ELSE "none"]]]
      /\ due' = [i \in Items |-> {s \in due[i] : rooms'[s] \cap rooms[s] = rooms[s]}]
      /\ UNCHANGED <<tables, req, got, stream, updates, failures, alone, blurred, owed>>
  BY DEF ClientStep
<1>4. UNCHANGED <<level, live, items, inbox, req, got, stream, updates, failures,
                  alone, blurred, owed>>
  BY <1>3 DEF tables
<1>5. SameWriters /\ SameAlerts /\ \A q \in Requests : InOrder(q)'
  BY <1>0, <1>4, RequestsStay
<1>6. heard' \in [Sockets -> [FeedKinds -> [Venues -> Levels \cup {"none", "due"}]]]
  BY <1>0, <1>3 DEF TypeOK
<1>7. due' \in [Items -> SUBSET Sockets]
  BY <1>0, <1>3 DEF TypeOK
<1>8. LiveTypes'
  BY <1>0, <1>2, <1>4, <1>5, <1>6, <1>7 DEF LiveTypes, TypeOK
<1>9. RoomsInv'
  <2>1. \A s \in Sockets, k \in FeedKinds, v \in Venues :
            heard'[s][k][v] = IF FeedRoom(k, v) \in rooms'[s] THEN heard[s][k][v] ELSE "none"
    BY <1>3
  <2>3. \A v : Unsettled(v)' <=> Unsettled(v)
    BY <1>5, UnsettledStays
  <2>. QED
    BY <1>4, <2>1, <2>3 DEF LiveInv, RoomsInv
<1>10. AlertsInv' /\ UpdatesInv' /\ StreamsInv'
  BY <1>4, <1>5, AlertsStay, UpdatesStay, StreamsStay DEF LiveInv
<1>. QED
  BY <1>2, <1>8, <1>9, <1>10 DEF LiveInv

LEMMA StreamStepKeeps ==
    ASSUME LiveInv, NEW f \in Streams,
           StreamOpen(f) \/ StreamSubscribe(f) \/ StreamClose(f)
    PROVE  LiveInv'
<1>0. TypeOK /\ (\A q \in Requests : InOrder(q)) /\ stream[f] \in Stream
  BY DEF LiveInv, LiveTypes, TypeOK
<1>1. UNCHANGED <<gateway, tables, req, heard, got, updates, failures, histories>>
  BY DEF StreamOpen, StreamSubscribe, StreamClose
<1>2. UNCHANGED <<level, live, items, inbox, req, heard, got, updates, failures,
                  alone, blurred, owed, due>>
  BY <1>1 DEF tables, histories
<1>3. GatewayInv' /\ GatewayTypeOK' /\ rooms' = rooms
  BY <1>1, GatewayStays DEF LiveInv
<1>4. SameWriters /\ SameAlerts /\ \A q \in Requests : InOrder(q)'
  BY <1>0, <1>2, RequestsStay
<1>5. PICK new \in Stream :
          /\ stream' = [stream EXCEPT ![f] = new]
          /\ \/ new.at = "closed"
             \/ /\ new.place = stream[f].place
                /\ \A v \in Venues : SlugKey[v] = stream[f].place => new.shows[v] = level[v]
             \/ /\ stream[f].at # "closed" /\ new.place = stream[f].place
                /\ new.shows = stream[f].shows /\ new.gap = stream[f].gap
  <2>1. CASE StreamOpen(f)
    <3>1. PICK shows : shows = [v \in Venues |-> IF SlugKey[v] = stream[f].place
                                                 THEN level[v] ELSE "none"]
      OBVIOUS
    <3>2. shows \in [Venues -> Levels \cup {"absent", "none"}]
      BY <1>0, <3>1 DEF TypeOK
    <3>3. PICK new : new = [stream[f] EXCEPT !.at = "snapshot", !.shows = shows]
      OBVIOUS
    <3>4. new \in Stream /\ new.place = stream[f].place /\ new.shows = shows
      BY <1>0, <3>2, <3>3 DEF Stream
    <3>5. stream' = [stream EXCEPT ![f] = new]
      BY <2>1, <3>1, <3>3 DEF StreamOpen
    <3>6. \A v \in Venues : SlugKey[v] = stream[f].place => new.shows[v] = level[v]
      BY <3>1, <3>4
    <3>. QED
      BY <3>4, <3>5, <3>6
  <2>2. CASE StreamSubscribe(f)
    <3>1. PICK new : new = [stream[f] EXCEPT !.at = "open"]
      OBVIOUS
    <3>2. /\ new \in Stream /\ new.place = stream[f].place
          /\ new.shows = stream[f].shows /\ new.gap = stream[f].gap
      BY <1>0, <3>1 DEF Stream
    <3>3. stream' = [stream EXCEPT ![f] = new] /\ stream[f].at # "closed"
      BY <2>2, <3>1 DEF StreamSubscribe
    <3>. QED
      BY <3>2, <3>3
  <2>3. CASE StreamClose(f)
    <3>1. PICK new : new = [stream[f] EXCEPT !.at = "closed", !.gap = {},
                                             !.shows = [v \in Venues |-> "none"]]
      OBVIOUS
    <3>2. new \in Stream /\ new.at = "closed"
      BY <1>0, <3>1 DEF Stream
    <3>3. stream' = [stream EXCEPT ![f] = new]
      BY <2>3, <3>1 DEF StreamClose
    <3>. QED
      BY <3>2, <3>3
  <2>. QED
    BY <2>1, <2>2, <2>3
<1>6. /\ stream' \in [Streams -> Stream] /\ stream'[f] = new
      /\ \A g \in Streams \ {f} : stream'[g] = stream[g]
  BY <1>0, <1>5 DEF TypeOK
<1>7. LiveTypes'
  BY <1>0, <1>2, <1>3, <1>4, <1>6 DEF LiveTypes, TypeOK
<1>8. StreamsInv'
  <2>1. \A v : Unsettled(v)' <=> Unsettled(v)
    BY <1>4, UnsettledStays
  <2>2. SUFFICES ASSUME NEW g \in Streams, NEW v \in Venues,
                        stream'[g].at # "closed", v \notin blurred, v \notin stream'[g].gap,
                        NameKey[v] = stream'[g].place, SlugKey[v] = stream'[g].place,
                        ~Unsettled(v)
                 PROVE  stream'[g].shows[v] = level[v]
    BY <1>2, <2>1 DEF StreamsInv
  <2>3. CASE g # f
    BY <1>6, <2>2, <2>3 DEF LiveInv, StreamsInv
  <2>4. CASE g = f
    BY <1>5, <1>6, <2>2, <2>4 DEF LiveInv, StreamsInv
  <2>. QED
    BY <2>3, <2>4
<1>9. AlertsInv' /\ UpdatesInv' /\ RoomsInv'
  BY <1>2, <1>3, <1>4, AlertsStay, UpdatesStay, RoomsStay DEF LiveInv
<1>. QED
  BY <1>3, <1>7, <1>8, <1>9 DEF LiveInv

-------------------------------------------------------------------------------
(* One request moves on. *)

LEMMA UnsettledOne ==
    ASSUME NEW r \in Requests, \A q \in Requests \ {r} : req'[q] = req[q]
    PROVE  \A v : Unsettled(v)' <=> \/ \E q \in Requests \ {r} : Stored(q) /\ req[q].v = v
                                    \/ Stored(r)' /\ req'[r].v = v
BY SameRequest DEF Unsettled

LEMMA WritingOne ==
    ASSUME NEW r \in Requests, \A q \in Requests \ {r} : req'[q] = req[q]
    PROVE  /\ \A v, q : q \in Writing(v) <=> q \in Requests /\ Writer(q) /\ req[q].v = v
           /\ \A v, q : q \in Writing(v)' <=>
                  q \in Requests /\ IF q = r THEN Writer(r)' /\ req'[r].v = v
                                    ELSE Writer(q) /\ req[q].v = v
BY SameRequest DEF Writing, Writer

\* Rooms and streams, when the only levels that change are of venues that are blurred
\* or have an update still to be published.
LEMMA RoomsSettle ==
    ASSUME RoomsInv, UNCHANGED rooms,
           \A v \in Venues : v \notin blurred' /\ ~Unsettled(v)' =>
               /\ v \notin blurred /\ ~Unsettled(v) /\ level'[v] = level[v]
               /\ \A s \in Sockets, k \in FeedKinds : heard'[s][k][v] = heard[s][k][v],
           \A s \in Sockets, k \in FeedKinds, v \in Venues :
               heard'[s][k][v] = heard[s][k][v] \/ FeedRoom(k, v) \in rooms[s]
    PROVE  RoomsInv'
<1>1. \A k \in FeedKinds, v \in Venues : FeedRoom(k, v)' = FeedRoom(k, v)
  BY DEF FeedRoom
<1>. QED
  BY <1>1 DEF RoomsInv

LEMMA StreamsSettle ==
    ASSUME StreamsInv, UNCHANGED stream,
           \A v \in Venues : v \notin blurred' /\ ~Unsettled(v)' =>
               v \notin blurred /\ ~Unsettled(v) /\ level'[v] = level[v]
    PROVE  StreamsInv'
BY DEF StreamsInv

LEMMA BeginKeeps ==
    ASSUME LiveInv, NEW r \in Requests, NEW kind \in Writers, NEW v \in Venues,
           NEW l \in Levels, NEW tags \in {"kept", "live", "plain"},
           Begin(r, kind, v, l, tags)
    PROVE  LiveInv'
<1>0. TypeOK /\ (\A q \in Requests : InOrder(q)) /\ req[r] = Idle
  BY DEF LiveInv, LiveTypes, Begin
<1>1. PICK new : new = [kind |-> kind, at |-> "find", v |-> v, item |-> NoItem,
                  level |-> l, tags |-> tags, seen |-> "absent", was |-> FALSE]
  OBVIOUS
<1>2. new \in Request /\ new.kind \in Writers /\ new.at = "find" /\ new.v = v /\ new # Idle
  BY <1>1, RequestIsBusy DEF Request, Steps, Levels
<1>3. /\ req' \in [Requests -> Request \cup {Idle}] /\ req'[r] = new
      /\ \A q \in Requests \ {r} : req'[q] = req[q]
  BY <1>0, <1>1, <1>2, Becoming DEF Begin
<1>4. Writer(r)' /\ ~Stored(r)' /\ (\A t : ~Deciding(r, t)') /\ InOrder(r)'
  BY <1>2, <1>3 DEF Writer, Stored, Deciding, At, InOrder
<1>5. ~Writer(r) /\ ~Stored(r) /\ \A t : ~Deciding(r, t)
  BY <1>0, IdleKnown
<1>6. /\ UNCHANGED <<gateway, tables, clients, failures, blurred, owed, due>>
      /\ updates < MaxUpdates /\ updates' = updates + 1
      /\ alone' = IF Writing(v) = {} THEN alone \cup {r} ELSE alone \ Writing(v)
  BY DEF Begin
<1>7. UNCHANGED <<level, live, items, inbox, heard, got, stream>>
  BY <1>6 DEF tables, clients
<1>8. GatewayInv' /\ GatewayTypeOK' /\ rooms' = rooms
  BY <1>6, GatewayStays DEF LiveInv
<1>9. LiveTypes'
  <2>1. updates' \in 0 .. MaxUpdates
    BY <1>0, <1>6, VenueLiveAssumption DEF TypeOK
  <2>2. alone' \subseteq Requests
    BY <1>0, <1>6 DEF TypeOK
  <2>3. \A q \in Requests : InOrder(q)'
    BY <1>0, <1>3, <1>4, SameRequest
  <2>. QED
    BY <1>0, <1>3, <1>6, <1>7, <1>8, <2>1, <2>2, <2>3 DEF LiveTypes, TypeOK
<1>10. AlertsInv'
  <2>1. SameAlerts
    BY <1>3, <1>4, <1>5, SameRequest DEF SameAlerts
  <2>. QED
    BY <1>6, <1>7, <2>1, AlertsStay DEF LiveInv
<1>11. UpdatesInv'
  <2>0. /\ \A w, q : q \in Writing(w) <=> q \in Requests /\ Writer(q) /\ req[q].v = w
        /\ \A w, q : q \in Writing(w)' <=>
               q \in Requests /\ IF q = r THEN Writer(r)' /\ req'[r].v = w
                                 ELSE Writer(q) /\ req[q].v = w
    BY <1>3, WritingOne
  <2>1. ASSUME NEW q \in alone'
        PROVE  q \in Requests /\ Writer(q)' /\ (Writing(req[q].v) = {q})'
    <3>1. CASE q = r
      <4>1. Writing(v) = {}
        <5>1. r \notin alone
          BY <1>5 DEF LiveInv, UpdatesInv
        <5>. QED
          BY <1>6, <2>1, <3>1, <5>1
      <4>. QED
        BY <1>2, <1>3, <1>4, <2>0, <3>1, <4>1
    <3>2. CASE q # r
      <4>1. q \in alone /\ q \notin Writing(v)
        <5>1. q \in alone
          BY <1>6, <2>1, <3>2
        <5>. QED
          BY <1>6, <2>1, <3>2, <5>1
      <4>2. q \in Requests /\ Writer(q) /\ Writing(req[q].v) = {q}
        BY <4>1 DEF LiveInv, UpdatesInv
      <4>3. req'[q] = req[q] /\ Writer(q)' /\ req[q].v # v
        BY <1>3, <2>0, <3>2, <4>1, <4>2, SameRequest
      <4>. QED
        BY <1>2, <1>3, <2>0, <4>2, <4>3
    <3>. QED
      BY <3>1, <3>2
  <2>2. ASSUME NEW q \in Requests, Stored(q)', q \in alone' \/ req'[q].v \notin blurred
        PROVE  level[req'[q].v] = req'[q].level
    <3>1. q # r
      BY <1>4, <2>2
    <3>2. req'[q] = req[q] /\ Stored(q) /\ (q \in alone' => q \in alone)
      BY <1>3, <1>6, <2>2, <3>1, SameRequest
    <3>. QED
      BY <2>2, <3>2 DEF LiveInv, UpdatesInv
  <2>. QED
    BY <1>6, <1>7, <2>1, <2>2 DEF UpdatesInv
<1>12. RoomsInv' /\ StreamsInv'
  <2>1. \A w : Unsettled(w)' <=> Unsettled(w)
    <3>1. \A w : Unsettled(w)' <=> \E q \in Requests \ {r} : Stored(q) /\ req[q].v = w
      BY <1>3, <1>4, UnsettledOne
    <3>2. \A w : Unsettled(w) <=> \E q \in Requests \ {r} : Stored(q) /\ req[q].v = w
      BY <1>5 DEF Unsettled
    <3>. QED
      BY <3>1, <3>2
  <2>. QED
    BY <1>6, <1>7, <1>8, <2>1, RoomsSettle, StreamsSettle DEF LiveInv
<1>. QED
  BY <1>8, <1>9, <1>10, <1>11, <1>12 DEF LiveInv

-------------------------------------------------------------------------------
(* Alerts. *)

In(b) == IF b THEN 1 ELSE 0

LEMMA PendingKnown ==
    ASSUME NEW v, NEW t
    PROVE  IsFiniteSet(Pending(v, t)) /\ Cardinality(Pending(v, t)) \in Nat
<1>1. Pending(v, t) \in SUBSET Requests /\ IsFiniteSet(Requests)
  BY VenueLiveAssumption DEF Pending
<1>2. IsFiniteSet(Pending(v, t))
  BY <1>1, FS_Subset
<1>. QED
  BY <1>2, FS_CardinalityType

\* A set with r, counted by what it is without r.
LEMMA CountedWithout ==
    ASSUME NEW P, IsFiniteSet(P), NEW r
    PROVE  /\ IsFiniteSet(P \ {r}) /\ Cardinality(P \ {r}) \in Nat
           /\ Cardinality(P) = Cardinality(P \ {r}) + In(r \in P)
<1>1. /\ IsFiniteSet(P \ {r})
      /\ Cardinality(P \ {r}) = IF r \in P THEN Cardinality(P) - 1 ELSE Cardinality(P)
  BY FS_RemoveElement
<1>2. Cardinality(P) \in Nat /\ Cardinality(P \ {r}) \in Nat
  BY <1>1, FS_CardinalityType
<1>. QED
  BY <1>1, <1>2 DEF In

LEMMA PendingOne ==
    ASSUME NEW r \in Requests, \A q \in Requests \ {r} : req'[q] = req[q], NEW v, NEW t
    PROVE  /\ Cardinality(Pending(v, t)') + In(Deciding(r, t) /\ req[r].v = v)
                  = Cardinality(Pending(v, t)) + In(Deciding(r, t)' /\ req'[r].v = v)
           /\ Cardinality(Pending(v, t)) \in Nat /\ Cardinality(Pending(v, t)') \in Nat
<1>1. Pending(v, t)' \ {r} = Pending(v, t) \ {r}
  BY SameRequest DEF Pending
<1>2. IsFiniteSet(Pending(v, t)) /\ Cardinality(Pending(v, t)) \in Nat
  BY PendingKnown
<1>3. IsFiniteSet(Pending(v, t)') /\ Cardinality(Pending(v, t)') \in Nat
  <2>1. Pending(v, t)' \in SUBSET Requests /\ IsFiniteSet(Requests)
    BY VenueLiveAssumption DEF Pending
  <2>2. IsFiniteSet(Pending(v, t)')
    BY <2>1, FS_Subset
  <2>. QED
    BY <2>2, FS_CardinalityType
<1>4. /\ Cardinality(Pending(v, t) \ {r}) \in Nat
      /\ Cardinality(Pending(v, t)) = Cardinality(Pending(v, t) \ {r}) + In(r \in Pending(v, t))
  BY <1>2, CountedWithout
<1>5. Cardinality(Pending(v, t)')
          = Cardinality(Pending(v, t)' \ {r}) + In(r \in Pending(v, t)')
  BY <1>3, CountedWithout
<1>6. /\ r \in Pending(v, t) <=> Deciding(r, t) /\ req[r].v = v
      /\ r \in Pending(v, t)' <=> Deciding(r, t)' /\ req'[r].v = v
  BY DEF Pending
<1>7. /\ In(r \in Pending(v, t)) = In(Deciding(r, t) /\ req[r].v = v)
      /\ In(r \in Pending(v, t)') = In(Deciding(r, t)' /\ req'[r].v = v)
  BY <1>6 DEF In
<1>8. /\ In(Deciding(r, t) /\ req[r].v = v) \in Nat
      /\ In(Deciding(r, t)' /\ req'[r].v = v) \in Nat
  BY DEF In
<1>9. Cardinality(Pending(v, t)' \ {r}) = Cardinality(Pending(v, t) \ {r})
  BY <1>1
<1>10. PICK m \in Nat, was \in Nat, is \in Nat :
          /\ m = Cardinality(Pending(v, t) \ {r})
          /\ was = In(Deciding(r, t) /\ req[r].v = v)
          /\ is = In(Deciding(r, t)' /\ req'[r].v = v)
  BY <1>4, <1>8
<1>11. Cardinality(Pending(v, t)) = m + was
  BY <1>4, <1>7, <1>10
<1>12. Cardinality(Pending(v, t)') = m + is
  BY <1>5, <1>7, <1>9, <1>10
<1>. QED
  BY <1>2, <1>3, <1>10, <1>11, <1>12

\* A step of r by which what it newly decides on is owed, and what it sends, n of each
\* venue and type, is in the inboxes.
Tells(r, n) ==
    \A v \in Venues, t \in Alerts :
        /\ n[v][t] \in Nat /\ owed'[v][t] \in Int
        /\ owed'[v][t] + In(Deciding(r, t) /\ req[r].v = v)
               = owed[v][t] + In(Deciding(r, t)' /\ req'[r].v = v) + n[v][t]
        /\ \A u \in Followers[v] : inbox'[u][v][t] = inbox[u][v][t] + n[v][t]

LEMMA AlertsMove ==
    ASSUME TypeOK, AlertsInv, NEW r \in Requests, \A q \in Requests \ {r} : req'[q] = req[q],
           NEW n, Tells(r, n)
    PROVE  AlertsInv' /\ \A v \in Venues, t \in Alerts : owed'[v][t] \in Nat
<1>1. ASSUME NEW v \in Venues, NEW t \in Alerts
      PROVE  /\ Sent(v, t)' = Sent(v, t) + n[v][t] /\ Sent(v, t)' \in Nat /\ owed'[v][t] \in Nat
             /\ Sent(v, t) \in Nat
  <2>1. Sent(v, t) \in Nat /\ owed[v][t] \in Int
    BY DEF AlertsInv, TypeOK
  <2>2. /\ Cardinality(Pending(v, t)') + In(Deciding(r, t) /\ req[r].v = v)
                  = Cardinality(Pending(v, t)) + In(Deciding(r, t)' /\ req'[r].v = v)
        /\ Cardinality(Pending(v, t)) \in Nat /\ Cardinality(Pending(v, t)') \in Nat
    BY PendingOne
  <2>3. /\ In(Deciding(r, t) /\ req[r].v = v) \in Int
        /\ In(Deciding(r, t)' /\ req'[r].v = v) \in Int
    BY DEF In
  <2>4. /\ Sent(v, t) = owed[v][t] - Cardinality(Pending(v, t))
        /\ Sent(v, t)' = owed'[v][t] - Cardinality(Pending(v, t)')
    BY DEF Sent
  <2>5. /\ n[v][t] \in Nat /\ owed'[v][t] \in Int
        /\ owed'[v][t] + In(Deciding(r, t) /\ req[r].v = v)
               = owed[v][t] + In(Deciding(r, t)' /\ req'[r].v = v) + n[v][t]
    BY DEF Tells
  <2>6. Sent(v, t)' = Sent(v, t) + n[v][t]
    BY <2>1, <2>2, <2>3, <2>4, <2>5
  <2>. QED
    BY <2>1, <2>2, <2>4, <2>5, <2>6
<1>. QED
  BY <1>1 DEF AlertsInv, Tells

LEMMA NotifyKnown ==
    ASSUME TypeOK, NEW v0 \in Venues, NEW t0 \in Alerts, Notify(v0, t0)
    PROVE  /\ inbox' \in [Users -> [Venues -> [Alerts -> Nat]]]
           /\ \A v \in Venues, t \in Alerts : \A u \in Followers[v] :
                  inbox'[u][v][t] = inbox[u][v][t] + In(v = v0 /\ t = t0)
<1>1. inbox \in [Users -> [Venues -> [Alerts -> Nat]]]
  BY DEF TypeOK
<1>2. ASSUME NEW u \in Users
      PROVE  /\ inbox'[u] \in [Venues -> [Alerts -> Nat]]
             /\ \A v \in Venues, t \in Alerts :
                    inbox'[u][v][t] = inbox[u][v][t] + In(u \in Followers[v0] /\ v = v0 /\ t = t0)
  <2>1. inbox[u] \in [Venues -> [Alerts -> Nat]]
    BY <1>1
  <2>2. inbox'[u] = IF u \in Followers[v0]
                    THEN [inbox[u] EXCEPT ![v0][t0] = @ + 1] ELSE inbox[u]
    BY DEF Notify
  <2>3. CASE u \in Followers[v0]
    <3>1. PICK mine \in [Venues -> [Alerts -> Nat]] : mine = inbox[u]
      BY <2>1
    <3>2. inbox'[u] = [mine EXCEPT ![v0][t0] = @ + 1]
      BY <2>2, <2>3, <3>1
    <3>3. PICK at \in [Alerts -> Nat] : at = [mine[v0] EXCEPT ![t0] = @ + 1]
      <4>1. mine[v0] \in [Alerts -> Nat] /\ mine[v0][t0] + 1 \in Nat
        OBVIOUS
      <4>. QED
        BY <4>1
    <3>4. inbox'[u] = [mine EXCEPT ![v0] = at]
      BY <3>2, <3>3
    <3>5. \A t \in Alerts : at[t] = mine[v0][t] + In(t = t0)
      BY <3>3 DEF In
    <3>6. inbox'[u] \in [Venues -> [Alerts -> Nat]]
      BY <3>4
    <3>7. ASSUME NEW v \in Venues, NEW t \in Alerts
          PROVE  inbox'[u][v][t] = inbox[u][v][t] + In(v = v0 /\ t = t0)
      <4>1. mine[v][t] \in Nat
        OBVIOUS
      <4>. QED
        BY <3>1, <3>4, <3>5, <4>1 DEF In
    <3>. QED
      BY <2>3, <3>6, <3>7 DEF In
  <2>4. CASE u \notin Followers[v0]
    <3>1. \A v \in Venues, t \in Alerts : inbox[u][v][t] \in Nat
      BY <2>1
    <3>. QED
      BY <2>1, <2>2, <2>4, <3>1 DEF In
  <2>. QED
    BY <2>3, <2>4
<1>3. inbox' \in [Users -> [Venues -> [Alerts -> Nat]]]
  <2>1. inbox' = [u \in Users |-> inbox'[u]]
    BY DEF Notify
  <2>. QED
    BY <1>2, <2>1
<1>4. ASSUME NEW v \in Venues, NEW t \in Alerts, NEW u \in Followers[v]
      PROVE  inbox'[u][v][t] = inbox[u][v][t] + In(v = v0 /\ t = t0)
  <2>1. u \in Users
    BY VenueLiveAssumption
  <2>2. inbox'[u][v][t] = inbox[u][v][t] + In(u \in Followers[v0] /\ v = v0 /\ t = t0)
    BY <1>2, <2>1
  <2>3. u \in Followers[v0] /\ v = v0 /\ t = t0 <=> v = v0 /\ t = t0
    OBVIOUS
  <2>. QED
    BY <2>2, <2>3 DEF In
<1>. QED
  BY <1>3, <1>4

LEMMA OweKnown ==
    ASSUME TypeOK, NEW v0 \in Venues, NEW t0 \in Alerts, Owe(v0, t0)
    PROVE  /\ owed' \in [Venues -> [Alerts -> Nat]]
           /\ \A v \in Venues, t \in Alerts : owed'[v][t] = owed[v][t] + In(v = v0 /\ t = t0)
<1>1. owed \in [Venues -> [Alerts -> Nat]]
  BY DEF TypeOK
<1>2. PICK at \in [Alerts -> Nat] : at = [owed[v0] EXCEPT ![t0] = @ + 1]
  <2>1. owed[v0] \in [Alerts -> Nat] /\ owed[v0][t0] + 1 \in Nat
    BY <1>1
  <2>. QED
    BY <2>1
<1>3. owed' = [owed EXCEPT ![v0] = at]
  BY <1>2 DEF Owe
<1>4. \A t \in Alerts : at[t] = owed[v0][t] + In(t = t0)
  BY <1>1, <1>2 DEF In
<1>5. owed' \in [Venues -> [Alerts -> Nat]]
  BY <1>1, <1>3
<1>6. ASSUME NEW v \in Venues, NEW t \in Alerts
      PROVE  owed'[v][t] = owed[v][t] + In(v = v0 /\ t = t0)
  <2>1. owed[v][t] \in Nat
    BY <1>1
  <2>. QED
    BY <1>1, <1>3, <1>4, <2>1 DEF In
<1>. QED
  BY <1>5, <1>6

LEMMA AlertsTold ==
    {"LIVE_PERFORMANCE", "VIBE_ALERT"} \subseteq Alerts
BY DEF Alerts

\* A step of r that sends the alert it had decided on, decides on one, or does neither.
Alerting(r, v0, t0) ==
    \/ Deciding(r, t0) /\ ~Deciding(r, t0)' /\ Notify(v0, t0) /\ UNCHANGED owed
    \/ ~Deciding(r, t0) /\ Deciding(r, t0)' /\ Owe(v0, t0) /\ UNCHANGED inbox
    \/ (Deciding(r, t0)' <=> Deciding(r, t0)) /\ UNCHANGED <<owed, inbox>>

LEMMA AlertingTells ==
    ASSUME TypeOK, NEW r \in Requests, NEW v0 \in Venues, NEW t0 \in Alerts,
           \A t \in Alerts : Deciding(r, t) => req[r].v = v0,
           \A t \in Alerts : Deciding(r, t)' => req'[r].v = v0,
           \A t \in Alerts \ {t0} : Deciding(r, t)' <=> Deciding(r, t),
           Alerting(r, v0, t0)
    PROVE  /\ inbox' \in [Users -> [Venues -> [Alerts -> Nat]]]
           /\ owed' \in [Venues -> [Alerts -> Nat]]
           /\ \E n : Tells(r, n)
<1>0. /\ inbox \in [Users -> [Venues -> [Alerts -> Nat]]]
      /\ owed \in [Venues -> [Alerts -> Nat]]
  BY DEF TypeOK
<1>1. \A v \in Venues, t \in Alerts : /\ owed[v][t] \in Nat
                                      /\ \A u \in Followers[v] : inbox[u][v][t] \in Nat
  BY <1>0, VenueLiveAssumption
<1>2. ASSUME NEW v \in Venues, NEW t \in Alerts
      PROVE  /\ (Deciding(r, t) /\ req[r].v = v) <=> (Deciding(r, t) /\ v = v0)
             /\ (Deciding(r, t)' /\ req'[r].v = v) <=> (Deciding(r, t)' /\ v = v0)
  OBVIOUS
<1>3. CASE Deciding(r, t0) /\ ~Deciding(r, t0)' /\ Notify(v0, t0) /\ UNCHANGED owed
  <2>1. /\ inbox' \in [Users -> [Venues -> [Alerts -> Nat]]]
        /\ \A v \in Venues, t \in Alerts : \A u \in Followers[v] :
               inbox'[u][v][t] = inbox[u][v][t] + In(v = v0 /\ t = t0)
    BY <1>3, NotifyKnown
  <2>2. PICK n : n = [v \in Venues |-> [t \in Alerts |-> In(v = v0 /\ t = t0)]]
    OBVIOUS
  <2>3. ASSUME NEW v \in Venues, NEW t \in Alerts
        PROVE  /\ n[v][t] \in Nat /\ owed'[v][t] \in Int
               /\ owed'[v][t] + In(Deciding(r, t) /\ req[r].v = v)
                      = owed[v][t] + In(Deciding(r, t)' /\ req'[r].v = v) + n[v][t]
               /\ \A u \in Followers[v] : inbox'[u][v][t] = inbox[u][v][t] + n[v][t]
    <3>1. n[v][t] = In(v = v0 /\ t = t0) /\ n[v][t] \in Nat
      BY <2>2 DEF In
    <3>2. \A u \in Followers[v] : inbox'[u][v][t] = inbox[u][v][t] + n[v][t]
      BY <2>1, <3>1
    <3>3. owed'[v][t] = owed[v][t] /\ owed[v][t] \in Nat
      BY <1>1, <1>3
    <3>4. In(Deciding(r, t) /\ req[r].v = v) = In(Deciding(r, t)' /\ req'[r].v = v) + n[v][t]
      <4>1. CASE v = v0 /\ t = t0
        BY <1>2, <1>3, <3>1, <4>1 DEF In
      <4>2. CASE v # v0
        BY <1>2, <3>1, <4>2 DEF In
      <4>3. CASE t # t0
        BY <1>2, <3>1, <4>3 DEF In
      <4>. QED
        BY <4>1, <4>2, <4>3
    <3>5. PICK is \in Nat : is = In(Deciding(r, t)' /\ req'[r].v = v)
      BY DEF In
    <3>6. owed'[v][t] + In(Deciding(r, t) /\ req[r].v = v) = owed[v][t] + is + n[v][t]
      <4>1. PICK before \in Nat, new \in Nat : before = owed[v][t] /\ new = n[v][t]
        BY <3>1, <3>3
      <4>2. owed'[v][t] = before
        BY <3>3, <4>1
      <4>3. In(Deciding(r, t) /\ req[r].v = v) = is + new
        BY <3>4, <3>5, <4>1
      <4>4. before + (is + new) = before + is + new
        OBVIOUS
      <4>. QED
        BY <4>1, <4>2, <4>3, <4>4
    <3>. QED
      BY <3>1, <3>2, <3>3, <3>5, <3>6
  <2>. QED
    BY <1>0, <1>3, <2>1, <2>3 DEF Tells
<1>4. CASE ~Deciding(r, t0) /\ Deciding(r, t0)' /\ Owe(v0, t0) /\ UNCHANGED inbox
  <2>1. /\ owed' \in [Venues -> [Alerts -> Nat]]
        /\ \A v \in Venues, t \in Alerts : owed'[v][t] = owed[v][t] + In(v = v0 /\ t = t0)
    BY <1>4, OweKnown
  <2>2. PICK n : n = [v \in Venues |-> [t \in Alerts |-> 0]]
    OBVIOUS
  <2>3. ASSUME NEW v \in Venues, NEW t \in Alerts
        PROVE  /\ n[v][t] \in Nat /\ owed'[v][t] \in Int
               /\ owed'[v][t] + In(Deciding(r, t) /\ req[r].v = v)
                      = owed[v][t] + In(Deciding(r, t)' /\ req'[r].v = v) + n[v][t]
               /\ \A u \in Followers[v] : inbox'[u][v][t] = inbox[u][v][t] + n[v][t]
    <3>1. n[v][t] = 0
      BY <2>2
    <3>2. \A u \in Followers[v] : inbox'[u][v][t] = inbox[u][v][t] + n[v][t]
      BY <1>1, <1>4, <3>1
    <3>3. /\ owed'[v][t] = owed[v][t] + In(v = v0 /\ t = t0)
          /\ owed[v][t] \in Nat /\ owed'[v][t] \in Int
      BY <1>1, <2>1
    <3>4. In(v = v0 /\ t = t0) + In(Deciding(r, t) /\ req[r].v = v)
              = In(Deciding(r, t)' /\ req'[r].v = v)
      <4>1. CASE v = v0 /\ t = t0
        BY <1>2, <1>4, <4>1 DEF In
      <4>2. CASE v # v0
        BY <1>2, <4>2 DEF In
      <4>3. CASE t # t0
        BY <1>2, <4>3 DEF In
      <4>. QED
        BY <4>1, <4>2, <4>3
    <3>5. PICK more \in Nat, was \in Nat :
              more = In(v = v0 /\ t = t0) /\ was = In(Deciding(r, t) /\ req[r].v = v)
      BY DEF In
    <3>6. owed'[v][t] + was = owed[v][t] + In(Deciding(r, t)' /\ req'[r].v = v) + n[v][t]
      <4>1. owed'[v][t] = owed[v][t] + more /\ owed[v][t] \in Nat
        BY <3>3, <3>5
      <4>2. In(Deciding(r, t)' /\ req'[r].v = v) = more + was
        BY <3>4, <3>5
      <4>3. PICK before \in Nat : before = owed[v][t]
        BY <4>1
      <4>4. PICK total \in Nat : total = more + was
        OBVIOUS
      <4>5. (before + more) + was = before + total + 0
        BY <4>4
      <4>. QED
        BY <3>1, <4>1, <4>2, <4>3, <4>4, <4>5
    <3>. QED
      BY <3>1, <3>2, <3>3, <3>5, <3>6
  <2>. QED
    BY <1>0, <1>4, <2>1, <2>3 DEF Tells
<1>5. CASE (Deciding(r, t0)' <=> Deciding(r, t0)) /\ UNCHANGED <<owed, inbox>>
  <2>2. PICK n : n = [v \in Venues |-> [t \in Alerts |-> 0]]
    OBVIOUS
  <2>3. ASSUME NEW v \in Venues, NEW t \in Alerts
        PROVE  /\ n[v][t] \in Nat /\ owed'[v][t] \in Int
               /\ owed'[v][t] + In(Deciding(r, t) /\ req[r].v = v)
                      = owed[v][t] + In(Deciding(r, t)' /\ req'[r].v = v) + n[v][t]
               /\ \A u \in Followers[v] : inbox'[u][v][t] = inbox[u][v][t] + n[v][t]
    <3>1. n[v][t] = 0
      BY <2>2
    <3>2. Deciding(r, t)' <=> Deciding(r, t)
      BY <1>5
    <3>3. PICK is \in Nat : /\ is = In(Deciding(r, t) /\ req[r].v = v)
                           /\ is = In(Deciding(r, t)' /\ req'[r].v = v)
      BY <1>2, <3>2 DEF In
    <3>4. owed'[v][t] + is = owed[v][t] + is + n[v][t] /\ owed'[v][t] \in Int
      BY <1>1, <1>5, <3>1
    <3>5. \A u \in Followers[v] : inbox'[u][v][t] = inbox[u][v][t] + n[v][t]
      BY <1>1, <1>5, <3>1
    <3>. QED
      BY <3>1, <3>3, <3>4, <3>5
  <2>. QED
    BY <1>0, <1>5, <2>3 DEF Tells
<1>. QED
  BY <1>3, <1>4, <1>5 DEF Alerting

\* The rest of such a step, of an update that has been stored.
LEMMA AlertingKeeps ==
    ASSUME LiveInv, NEW r \in Requests, NEW step \in Steps, Goto(r, step),
           req[r] \in Request, req[r].kind = "owner", Stored(r),
           step \notin {"find", "save", "store", "notify", "announce"},
           step = "alertPeak" => req[r].level = "busy",
           NEW t0 \in Alerts, Alerting(r, req[r].v, t0),
           \A t \in Alerts \ {t0} : Deciding(r, t)' <=> Deciding(r, t),
           live' \in [Venues -> BOOLEAN],
           UNCHANGED <<gateway, level, items, clients, updates, failures,
                       alone, blurred, due>>
    PROVE  LiveInv'
<1>0. TypeOK /\ (\A q \in Requests : InOrder(q)) /\ req[r].v \in Venues
  BY DEF LiveInv, LiveTypes, Request
<1>1. /\ req' \in [Requests -> Request \cup {Idle}]
      /\ \A q \in Requests \ {r} : req'[q] = req[q]
      /\ req'[r] # Idle /\ req'[r].at = step
      /\ req'[r].kind = req[r].kind /\ req'[r].v = req[r].v /\ req'[r].level = req[r].level
  BY <1>0, GotoKnown, RequestIsBusy
<1>2. Writer(r) /\ Writer(r)' /\ Stored(r)'
  BY <1>1, RequestIsBusy DEF Writer, Stored, Writers
<1>3. InOrder(r)'
  BY <1>1 DEF InOrder, Writers
<1>4. SameWriters /\ \A q \in Requests : InOrder(q)'
  BY <1>0, <1>1, <1>2, <1>3, SameRequest DEF SameWriters
<1>5. /\ inbox' \in [Users -> [Venues -> [Alerts -> Nat]]]
      /\ owed' \in [Venues -> [Alerts -> Nat]]
      /\ \E n : Tells(r, n)
  BY <1>0, <1>1, AlertingTells
<1>6. AlertsInv'
  BY <1>0, <1>1, <1>5, AlertsMove DEF LiveInv
<1>7. UNCHANGED <<heard, got, stream>>
  BY DEF clients
<1>8. GatewayInv' /\ GatewayTypeOK' /\ rooms' = rooms
  BY GatewayStays DEF LiveInv
<1>9. LiveTypes'
  BY <1>0, <1>1, <1>4, <1>5, <1>7, <1>8 DEF LiveTypes, TypeOK
<1>10. UpdatesInv' /\ RoomsInv' /\ StreamsInv'
  BY <1>4, <1>7, <1>8, UpdatesStay, RoomsStay, StreamsStay DEF LiveInv
<1>. QED
  BY <1>6, <1>8, <1>9, <1>10 DEF LiveInv

LEMMA AlertLiveKeeps ==
    ASSUME LiveInv, NEW r \in Requests, AlertLive(r)
    PROVE  LiveInv'
<1>0. TypeOK /\ (\A q \in Requests : InOrder(q)) /\ "log" \in Steps
  BY DEF LiveInv, LiveTypes, Steps
<1>1. /\ req[r] \in Request /\ req[r] # Idle
      /\ req[r].at = "alertLive" /\ req[r].kind = "owner"
  BY <1>0, AtKnown DEF AlertLive, At, InOrder
<1>2. Stored(r)
  BY <1>1 DEF Stored, Writer, Writers
<1>3. Goto(r, "log") /\ Notify(req[r].v, "LIVE_PERFORMANCE")
  BY DEF AlertLive
<1>4. /\ req'[r] # Idle /\ req'[r].at = "log"
      /\ req'[r].kind = req[r].kind /\ req'[r].level = req[r].level
  BY <1>0, <1>1, <1>3, GotoKnown, RequestIsBusy
<1>5. Deciding(r, "LIVE_PERFORMANCE") /\ ~Deciding(r, "LIVE_PERFORMANCE")'
  BY <1>1, <1>4 DEF Deciding, At
<1>6. \A t \in Alerts \ {"LIVE_PERFORMANCE"} : Deciding(r, t)' <=> Deciding(r, t)
  BY <1>1, <1>4 DEF Deciding, At
<1>7. UNCHANGED <<gateway, level, live, items, clients, updates, failures,
                  alone, blurred, owed, due>>
  BY DEF AlertLive, histories
<1>8. Alerting(r, req[r].v, "LIVE_PERFORMANCE")
  BY <1>3, <1>5, <1>7 DEF Alerting
<1>9. live' \in [Venues -> BOOLEAN]
  BY <1>0, <1>7 DEF TypeOK
<1>. QED
  BY <1>0, <1>1, <1>2, <1>3, <1>6, <1>7, <1>8, <1>9, AlertsTold, AlertingKeeps

LEMMA AlertPeakKeeps ==
    ASSUME LiveInv, NEW r \in Requests, AlertPeak(r)
    PROVE  LiveInv'
<1>0. TypeOK /\ (\A q \in Requests : InOrder(q)) /\ "publish" \in Steps
  BY DEF LiveInv, LiveTypes, Steps
<1>1. /\ req[r] \in Request /\ req[r] # Idle
      /\ req[r].at = "alertPeak" /\ req[r].kind = "owner" /\ req[r].level = "busy"
  BY <1>0, AtKnown DEF AlertPeak, At, InOrder
<1>2. Stored(r)
  BY <1>1 DEF Stored, Writer, Writers
<1>3. Goto(r, "publish") /\ Notify(req[r].v, "VIBE_ALERT")
  BY DEF AlertPeak
<1>4. /\ req'[r] # Idle /\ req'[r].at = "publish"
      /\ req'[r].kind = req[r].kind /\ req'[r].level = req[r].level
  BY <1>0, <1>1, <1>3, GotoKnown, RequestIsBusy
<1>5. Deciding(r, "VIBE_ALERT") /\ ~Deciding(r, "VIBE_ALERT")'
  BY <1>1, <1>4 DEF Deciding, At
<1>6. \A t \in Alerts \ {"VIBE_ALERT"} : Deciding(r, t)' <=> Deciding(r, t)
  BY <1>1, <1>4 DEF Deciding, At
<1>7. UNCHANGED <<gateway, level, live, items, clients, updates, failures,
                  alone, blurred, owed, due>>
  BY DEF AlertPeak, histories
<1>8. Alerting(r, req[r].v, "VIBE_ALERT")
  BY <1>3, <1>5, <1>7 DEF Alerting
<1>9. live' \in [Venues -> BOOLEAN]
  BY <1>0, <1>7 DEF TypeOK
<1>. QED
  BY <1>0, <1>1, <1>2, <1>3, <1>6, <1>7, <1>8, <1>9, AlertsTold, AlertingKeeps

LEMMA SaveVibesKeeps ==
    ASSUME LiveInv, NEW r \in Requests, SaveVibes(r)
    PROVE  LiveInv'
<1>0. TypeOK /\ (\A q \in Requests : InOrder(q)) /\ {"alertLive", "log"} \subseteq Steps
  BY DEF LiveInv, LiveTypes, Steps
<1>1. /\ req[r] \in Request /\ req[r] # Idle
      /\ req[r].at = "saveVibes" /\ req[r].kind = "owner"
  BY <1>0, AtKnown DEF SaveVibes, At, InOrder
<1>2. Stored(r)
  BY <1>1 DEF Stored, Writer, Writers
<1>3. UNCHANGED <<gateway, level, items, inbox, clients, updates, failures,
                  alone, blurred, due>>
  BY DEF SaveVibes
<1>4. live' \in [Venues -> BOOLEAN]
  BY <1>0 DEF SaveVibes, TypeOK
<1>5. CASE Goto(r, "alertLive") /\ Owe(req[r].v, "LIVE_PERFORMANCE")
  <2>1. /\ req'[r] # Idle /\ req'[r].at = "alertLive"
        /\ req'[r].kind = req[r].kind /\ req'[r].level = req[r].level
    BY <1>0, <1>1, <1>5, GotoKnown, RequestIsBusy
  <2>2. ~Deciding(r, "LIVE_PERFORMANCE") /\ Deciding(r, "LIVE_PERFORMANCE")'
    BY <1>1, <2>1 DEF Deciding, At
  <2>3. \A t \in Alerts \ {"LIVE_PERFORMANCE"} : Deciding(r, t)' <=> Deciding(r, t)
    BY <1>1, <2>1 DEF Deciding, At
  <2>4. Alerting(r, req[r].v, "LIVE_PERFORMANCE")
    BY <1>3, <1>5, <2>2 DEF Alerting
  <2>. QED
    BY <1>0, <1>1, <1>2, <1>3, <1>4, <1>5, <2>3, <2>4, AlertsTold, AlertingKeeps
<1>6. CASE Goto(r, "log") /\ UNCHANGED owed
  <2>1. /\ req'[r] # Idle /\ req'[r].at = "log"
        /\ req'[r].kind = req[r].kind /\ req'[r].level = req[r].level
    BY <1>0, <1>1, <1>6, GotoKnown, RequestIsBusy
  <2>2. \A t \in Alerts : Deciding(r, t)' <=> Deciding(r, t)
    BY <1>1, <2>1 DEF Deciding, At
  <2>3. Alerting(r, req[r].v, "LIVE_PERFORMANCE")
    BY <1>3, <1>6, <2>2, AlertsTold DEF Alerting
  <2>. QED
    BY <1>0, <1>1, <1>2, <1>3, <1>4, <1>6, <2>2, <2>3, AlertsTold, AlertingKeeps
<1>. QED
  BY <1>5, <1>6 DEF SaveVibes

-------------------------------------------------------------------------------
(* A level is stored, and published. *)

\* The second of two first rows is refused.
LEMMA RefusedKeeps ==
    ASSUME LiveInv, NEW r \in Requests, req[r] \in Request,
           req[r].at \in {"find", "save"}, Finish(r), alone' = alone \ {r},
           UNCHANGED <<gateway, tables, clients, updates, failures, blurred, owed, due>>
    PROVE  LiveInv'
<1>0. TypeOK /\ \A q \in Requests : InOrder(q)
  BY DEF LiveInv, LiveTypes
<1>1. /\ req' \in [Requests -> Request \cup {Idle}] /\ req'[r] = Idle
      /\ \A q \in Requests \ {r} : req'[q] = req[q]
  BY <1>0, FinishKnown
<1>2. ~Writer(r)' /\ ~Stored(r)' /\ (\A t : ~Deciding(r, t)') /\ InOrder(r)'
  BY <1>1 DEF Writer, Stored, Deciding, InOrder, Idle
<1>3. ~Stored(r) /\ \A t : ~Deciding(r, t)
  BY DEF Stored, Deciding, At
<1>4. UNCHANGED <<level, live, items, inbox, heard, got, stream>>
  BY DEF tables, clients
<1>5. GatewayInv' /\ GatewayTypeOK' /\ rooms' = rooms
  BY GatewayStays DEF LiveInv
<1>6. LiveTypes'
  <2>1. \A q \in Requests : InOrder(q)'
    BY <1>0, <1>1, <1>2, SameRequest
  <2>. QED
    BY <1>0, <1>1, <1>4, <1>5, <2>1 DEF LiveTypes, TypeOK
<1>7. AlertsInv'
  <2>1. SameAlerts
    BY <1>1, <1>2, <1>3, SameRequest DEF SameAlerts
  <2>. QED
    BY <1>4, <2>1, AlertsStay DEF LiveInv
<1>8. UpdatesInv'
  <2>0. /\ \A w, q : q \in Writing(w) <=> q \in Requests /\ Writer(q) /\ req[q].v = w
        /\ \A w, q : q \in Writing(w)' <=>
               q \in Requests /\ IF q = r THEN Writer(r)' /\ req'[r].v = w
                                 ELSE Writer(q) /\ req[q].v = w
    BY <1>1, WritingOne
  <2>1. ASSUME NEW q \in alone'
        PROVE  q \in Requests /\ Writer(q)' /\ (Writing(req[q].v) = {q})'
    <3>1. q \in alone /\ q # r
      BY <2>1
    <3>2. q \in Requests /\ Writer(q) /\ Writing(req[q].v) = {q}
      BY <3>1 DEF LiveInv, UpdatesInv
    <3>3. req'[q] = req[q] /\ Writer(q)'
      BY <1>1, <3>1, <3>2, SameRequest
    <3>. QED
      BY <1>2, <2>0, <3>1, <3>2, <3>3
  <2>2. ASSUME NEW q \in Requests, Stored(q)', q \in alone' \/ req'[q].v \notin blurred
        PROVE  level[req'[q].v] = req'[q].level
    <3>1. q # r
      BY <1>2, <2>2
    <3>2. req'[q] = req[q] /\ Stored(q) /\ (q \in alone' => q \in alone)
      BY <1>1, <2>2, <3>1, SameRequest
    <3>. QED
      BY <2>2, <3>2 DEF LiveInv, UpdatesInv
  <2>. QED
    BY <1>4, <2>1, <2>2 DEF UpdatesInv
<1>9. RoomsInv' /\ StreamsInv'
  <2>1. \A w : Unsettled(w)' <=> Unsettled(w)
    <3>1. \A w : Unsettled(w)' <=> \E q \in Requests \ {r} : Stored(q) /\ req[q].v = w
      BY <1>1, <1>2, UnsettledOne
    <3>2. \A w : Unsettled(w) <=> \E q \in Requests \ {r} : Stored(q) /\ req[q].v = w
      BY <1>3 DEF Unsettled
    <3>. QED
      BY <3>1, <3>2
  <2>. QED
    BY <1>4, <1>5, <2>1, RoomsSettle, StreamsSettle DEF LiveInv
<1>. QED
  BY <1>5, <1>6, <1>7, <1>8, <1>9 DEF LiveInv

\* Where an update goes from its save.
LEMMA StoredKnown ==
    ASSUME TypeOK, NEW r \in Requests, req[r] \in Request, req[r].kind \in Writers,
           req[r].kind = "worker" => Goto(r, "publish") /\ UNCHANGED alone,
           req[r].kind \in Silent => Finish(r) /\ alone' = alone \ {r},
           req[r].kind = "owner" =>
               /\ Goto(r, IF req[r].tags = "kept" THEN "log" ELSE "findVibes")
               /\ UNCHANGED alone
    PROVE  /\ req' \in [Requests -> Request \cup {Idle}]
           /\ \A q \in Requests \ {r} : req'[q] = req[q]
           /\ \/ req[r].kind \in Silent /\ req'[r] = Idle /\ alone' = alone \ {r}
              \/ /\ req'[r] \in Request /\ alone' = alone /\ req[r].kind \notin Silent
                 /\ req'[r].kind = req[r].kind /\ req'[r].v = req[r].v
                 /\ req'[r].level = req[r].level
                 /\ \/ req[r].kind = "worker" /\ req'[r].at = "publish"
                    \/ req[r].kind = "owner" /\ req'[r].at \in {"log", "findVibes"}
<1>1. {"publish", "log", "findVibes"} \subseteq Steps
  BY DEF Steps
<1>2. CASE req[r].kind \in Silent
  <2>1. Finish(r) /\ alone' = alone \ {r}
    BY <1>2
  <2>2. req[r].kind \notin {"worker", "owner"}
    BY <1>2 DEF Silent
  <2>. QED
    BY <1>2, <2>1, FinishKnown
<1>3. CASE req[r].kind = "worker"
  <2>1. Goto(r, "publish") /\ alone' = alone
    BY <1>3
  <2>. QED
    BY <1>1, <1>3, <2>1, GotoKnown DEF Silent
<1>4. CASE req[r].kind = "owner"
  <2>1. PICK step \in {"log", "findVibes"} : Goto(r, step) /\ alone' = alone
    BY <1>4
  <2>2. step \in Steps
    BY <1>1
  <2>. QED
    BY <1>4, <2>1, <2>2, GotoKnown DEF Silent
<1>. QED
  BY <1>2, <1>3, <1>4 DEF Writers, Silent

\* The level replaces what was stored: from here until it is published the rooms may
\* lag, and if the update is not alone the venue is blurred.
LEMMA StoreKeeps ==
    ASSUME LiveInv, NEW r \in Requests, SaveBusyness(r),
           ~(req[r].seen = "absent" /\ level[req[r].v] # "absent")
    PROVE  LiveInv'
<1>0. TypeOK /\ \A q \in Requests : InOrder(q)
  BY DEF LiveInv, LiveTypes
<1>1. /\ req[r] \in Request /\ req[r] # Idle /\ req[r].at = "save" /\ req[r].kind \in Writers
  BY <1>0, AtKnown DEF SaveBusyness, At, InOrder
<1>2. PICK v \in Venues, l \in Levels : v = req[r].v /\ l = req[r].level
  BY <1>1 DEF Request
<1>3. /\ level' = [level EXCEPT ![v] = l]
      /\ IF req[r].kind = "owner" /\ l = "busy" THEN Owe(v, "VIBE_ALERT") ELSE UNCHANGED owed
      /\ heard' = [s \in Sockets |-> [k \in FeedKinds |->
             [heard[s][k] EXCEPT ![v] =
                 IF @ = "none" /\ InRoom(s, FeedRoom(k, v)) THEN "due" ELSE @]]]
      /\ blurred' = IF r \notin alone \/ req[r].kind \in Silent THEN blurred \cup {v} ELSE blurred
      /\ req[r].kind = "worker" => Goto(r, "publish") /\ UNCHANGED alone
      /\ req[r].kind \in Silent => Finish(r) /\ alone' = alone \ {r}
      /\ req[r].kind = "owner" =>
             /\ Goto(r, IF req[r].tags = "kept" THEN "log" ELSE "findVibes")
             /\ UNCHANGED alone
      /\ UNCHANGED <<gateway, live, items, inbox, got, stream, updates, failures, due>>
  BY <1>1, <1>2 DEF SaveBusyness, Silent
<1>4. /\ req' \in [Requests -> Request \cup {Idle}]
      /\ \A q \in Requests \ {r} : req'[q] = req[q]
      /\ \/ req[r].kind \in Silent /\ req'[r] = Idle /\ alone' = alone \ {r}
         \/ /\ req'[r] # Idle /\ alone' = alone /\ req[r].kind \notin Silent
            /\ req'[r].kind = req[r].kind /\ req'[r].v = v /\ req'[r].level = l
            /\ \/ req[r].kind = "worker" /\ req'[r].at = "publish"
               \/ req[r].kind = "owner" /\ req'[r].at \in {"log", "findVibes"}
  BY <1>0, <1>1, <1>2, <1>3, StoredKnown, RequestIsBusy
<1>5. /\ Writer(r) /\ ~Stored(r)
      /\ req[r].kind \in Silent => ~Writer(r)' /\ ~Stored(r)' /\ req[r].kind # "owner"
      /\ req[r].kind \notin Silent => Writer(r)' /\ Stored(r)' /\ req'[r].v = v
      /\ Stored(r)' => req'[r].v = v /\ req'[r].level = l
      /\ Writer(r)' => req'[r].v = v
      /\ InOrder(r)'
  BY <1>1, <1>4 DEF Writer, Stored, InOrder, Idle, Writers, Silent
<1>6. /\ level'[v] = l /\ level' \in [Venues -> Levels \cup {"absent"}]
      /\ \A w \in Venues \ {v} : level'[w] = level[w]
  BY <1>0, <1>3 DEF TypeOK
<1>7. GatewayInv' /\ GatewayTypeOK' /\ rooms' = rooms
  BY <1>3, GatewayStays DEF LiveInv
<1>8. /\ inbox' \in [Users -> [Venues -> [Alerts -> Nat]]]
      /\ owed' \in [Venues -> [Alerts -> Nat]]
      /\ AlertsInv'
  <2>1. \A t \in Alerts : ~Deciding(r, t)
    BY <1>1 DEF Deciding, At
  <2>2. \A t \in Alerts : Deciding(r, t)' <=>
            t = "VIBE_ALERT" /\ req[r].kind = "owner" /\ l = "busy"
    <3>1. CASE req[r].kind \in Silent
      BY <1>4, <1>5, <3>1, AlertsTold DEF Deciding, At
    <3>2. CASE req[r].kind \notin Silent
      BY <1>4, <3>2, AlertsTold DEF Deciding, At
    <3>. QED
      BY <3>1, <3>2
  <2>3. \A t \in Alerts : Deciding(r, t)' => req'[r].v = v
    BY <1>4, <1>5, <2>2
  <2>4. Alerting(r, v, "VIBE_ALERT")
    BY <1>3, <2>1, <2>2, AlertsTold DEF Alerting
  <2>5. \A t \in Alerts \ {"VIBE_ALERT"} : Deciding(r, t)' <=> Deciding(r, t)
    BY <2>1, <2>2
  <2>6. /\ inbox' \in [Users -> [Venues -> [Alerts -> Nat]]]
        /\ owed' \in [Venues -> [Alerts -> Nat]]
        /\ \E n : Tells(r, n)
    BY <1>0, <2>1, <2>3, <2>4, <2>5, AlertsTold, AlertingTells
  <2>. QED
    BY <1>0, <1>4, <2>6, AlertsMove DEF LiveInv
<1>9. /\ heard' \in [Sockets -> [FeedKinds -> [Venues -> Levels \cup {"none", "due"}]]]
      /\ \A s \in Sockets, k \in FeedKinds, w \in Venues :
             \/ heard'[s][k][w] = heard[s][k][w]
             \/ w = v /\ FeedRoom(k, w) \in rooms[s]
  <2>1. ASSUME NEW s \in Sockets, NEW k \in FeedKinds
        PROVE  /\ heard'[s][k] \in [Venues -> Levels \cup {"none", "due"}]
               /\ \A w \in Venues : \/ heard'[s][k][w] = heard[s][k][w]
                                    \/ w = v /\ FeedRoom(k, w) \in rooms[s]
    <3>1. heard[s][k] \in [Venues -> Levels \cup {"none", "due"}]
      BY <1>0 DEF TypeOK
    <3>2. PICK h : h = IF heard[s][k][v] = "none" /\ InRoom(s, FeedRoom(k, v))
                       THEN "due" ELSE heard[s][k][v]
      OBVIOUS
    <3>3. heard'[s][k] = [heard[s][k] EXCEPT ![v] = h]
      BY <1>3, <3>2
    <3>4. h \in Levels \cup {"none", "due"}
      BY <3>1, <3>2
    <3>5. h = heard[s][k][v] \/ FeedRoom(k, v) \in rooms[s]
      BY <3>2 DEF InRoom
    <3>. QED
      BY <3>1, <3>3, <3>4, <3>5
  <2>2. heard' = [s \in Sockets |-> [k \in FeedKinds |-> heard'[s][k]]]
    BY <1>3
  <2>. QED
    BY <2>1, <2>2
<1>10. LiveTypes'
  <2>1. \A q \in Requests : InOrder(q)'
    BY <1>0, <1>4, <1>5, SameRequest
  <2>2. alone' \subseteq Requests /\ blurred' \subseteq Venues
    BY <1>0, <1>3, <1>4 DEF TypeOK
  <2>. QED
    BY <1>0, <1>3, <1>4, <1>6, <1>7, <1>8, <1>9, <2>1, <2>2 DEF LiveTypes, TypeOK
<1>11. UpdatesInv'
  <2>0. /\ \A w, q : q \in Writing(w) <=> q \in Requests /\ Writer(q) /\ req[q].v = w
        /\ \A w, q : q \in Writing(w)' <=>
               q \in Requests /\ IF q = r THEN Writer(r)' /\ req'[r].v = w
                                 ELSE Writer(q) /\ req[q].v = w
    BY <1>4, WritingOne
  <2>1. ASSUME NEW q \in alone'
        PROVE  q \in Requests /\ Writer(q)' /\ (Writing(req[q].v) = {q})'
    <3>1. q \in alone /\ (q = r => req[r].kind \notin Silent)
      BY <1>4
    <3>2. q \in Requests /\ Writer(q) /\ Writing(req[q].v) = {q}
      BY <3>1 DEF LiveInv, UpdatesInv
    <3>3. CASE q = r
      BY <1>2, <1>5, <2>0, <3>1, <3>2, <3>3
    <3>4. CASE q # r
      <4>1. req'[q] = req[q] /\ Writer(q)' /\ req[q].v # v
        BY <1>2, <1>4, <1>5, <2>0, <3>2, <3>4, SameRequest
      <4>. QED
        BY <1>5, <2>0, <3>2, <3>4, <4>1
    <3>. QED
      BY <3>3, <3>4
  <2>2. ASSUME NEW q \in Requests, Stored(q)', q \in alone' \/ req'[q].v \notin blurred'
        PROVE  level'[req'[q].v] = req'[q].level
    <3>1. CASE q = r
      BY <1>5, <1>6, <2>2, <3>1
    <3>2. CASE q # r
      <4>1. /\ req'[q] = req[q] /\ Stored(q) /\ Writer(q) /\ req[q].v \in Venues
            /\ (q \in alone' => q \in alone)
        <5>1. req'[q] = req[q] /\ Stored(q) /\ Writer(q) /\ (q \in alone' => q \in alone)
          BY <1>4, <2>2, <3>2, SameRequest DEF Stored
        <5>2. req[q] \in Request
          BY <1>0, <5>1, AtKnown DEF Writer
        <5>. QED
          BY <5>1, <5>2 DEF Request
      <4>2. req[q].v # v
        <5>1. SUFFICES ASSUME req[q].v = v PROVE FALSE
          OBVIOUS
        <5>2. q \in Writing(v) /\ r \in Writing(v)
          BY <1>2, <1>5, <2>0, <4>1, <5>1
        <5>3. q \notin alone /\ r \notin alone
          BY <1>2, <3>2, <5>1, <5>2 DEF LiveInv, UpdatesInv
        <5>. QED
          BY <1>3, <2>2, <4>1, <5>1, <5>3
      <4>3. q \in alone \/ req[q].v \notin blurred
        BY <1>3, <2>2, <4>1
      <4>. QED
        BY <1>6, <4>1, <4>2, <4>3 DEF LiveInv, UpdatesInv
    <3>. QED
      BY <3>1, <3>2
  <2>. QED
    BY <2>1, <2>2 DEF UpdatesInv
<1>12. \A w \in Venues : w \notin blurred' /\ ~Unsettled(w)' =>
           w # v /\ w \notin blurred /\ ~Unsettled(w) /\ level'[w] = level[w]
  <2>1. ASSUME NEW w \in Venues, w \notin blurred', ~Unsettled(w)'
        PROVE  w # v /\ w \notin blurred /\ ~Unsettled(w) /\ level'[w] = level[w]
    <3>1. /\ ~Unsettled(w)' => ~\E q \in Requests \ {r} : Stored(q) /\ req[q].v = w
          /\ ~Unsettled(w)' => ~(Stored(r)' /\ req'[r].v = w)
      BY <1>4, UnsettledOne
    <3>2. w # v /\ w \notin blurred
      BY <1>3, <1>5, <2>1, <3>1
    <3>3. ~Unsettled(w)
      BY <1>5, <2>1, <3>1 DEF Unsettled
    <3>. QED
      BY <1>6, <3>2, <3>3
  <2>. QED
    BY <2>1
<1>13. RoomsInv'
  BY <1>7, <1>9, <1>12, RoomsSettle DEF LiveInv
<1>14. StreamsInv'
  BY <1>3, <1>12, StreamsSettle DEF LiveInv
<1>. QED
  BY <1>7, <1>8, <1>10, <1>11, <1>13, <1>14 DEF LiveInv

LEMMA FindBusynessKeeps ==
    ASSUME LiveInv, NEW r \in Requests, FindBusyness(r)
    PROVE  LiveInv'
<1>1. CASE ReadsBusyness(r)
  BY <1>1, ReadKeeps
<1>2. CASE /\ At(r, "find") /\ Finish(r) /\ alone' = alone \ {r}
           /\ UNCHANGED <<gateway, tables, clients, updates, failures, blurred, owed, due>>
  <2>1. req[r] \in Request /\ req[r].at = "find"
    BY <1>2, AtKnown DEF LiveInv, LiveTypes, At
  <2>. QED
    BY <1>2, <2>1, RefusedKeeps
<1>. QED
  BY <1>1, <1>2 DEF FindBusyness, ReadsBusyness, histories

LEMMA SaveBusynessKeeps ==
    ASSUME LiveInv, NEW r \in Requests, SaveBusyness(r)
    PROVE  LiveInv'
<1>1. CASE req[r].seen = "absent" /\ level[req[r].v] # "absent"
  <2>1. req[r] \in Request /\ req[r].at = "save"
    BY AtKnown DEF LiveInv, LiveTypes, SaveBusyness, At
  <2>2. Finish(r) /\ alone' = alone \ {r}
    BY <1>1 DEF SaveBusyness
  <2>3. UNCHANGED <<gateway, tables, clients, updates, failures, blurred, owed, due>>
    BY <1>1 DEF SaveBusyness, tables, clients
  <2>. QED
    BY <2>1, <2>2, <2>3, RefusedKeeps
<1>2. CASE ~(req[r].seen = "absent" /\ level[req[r].v] # "absent")
  BY <1>2, StoreKeeps
<1>. QED
  BY <1>1, <1>2

\* What a stream of the city gets of a publication.
LEMMA PublishEventKnown ==
    ASSUME TypeOK, NEW v \in Venues, NEW l \in Levels, PublishEvent(v, l)
    PROVE  /\ stream' \in [Streams -> Stream]
           /\ \A f \in Streams :
                  /\ stream'[f].at = stream[f].at /\ stream'[f].place = stream[f].place
                  /\ \A w \in Venues \ {v} :
                         /\ stream'[f].shows[w] = stream[f].shows[w]
                         /\ w \in stream'[f].gap <=> w \in stream[f].gap
                  /\ stream[f].place = NameKey[v] =>
                         \/ stream[f].at = "open" /\ stream'[f].shows[v] = l
                         \/ stream[f].at = "snapshot" /\ v \in stream'[f].gap
                         \/ stream[f].at = "closed"
<1>1. ASSUME NEW f \in Streams
      PROVE  /\ stream'[f] \in Stream
             /\ stream'[f].at = stream[f].at /\ stream'[f].place = stream[f].place
             /\ \A w \in Venues \ {v} :
                    /\ stream'[f].shows[w] = stream[f].shows[w]
                    /\ w \in stream'[f].gap <=> w \in stream[f].gap
             /\ stream[f].place = NameKey[v] =>
                    \/ stream[f].at = "open" /\ stream'[f].shows[v] = l
                    \/ stream[f].at = "snapshot" /\ v \in stream'[f].gap
                    \/ stream[f].at = "closed"
  <2>1. stream[f] \in Stream
    BY DEF TypeOK
  <2>2. /\ stream[f].at \in {"closed", "snapshot", "open"} /\ stream[f].gap \subseteq Venues
        /\ stream[f].shows \in [Venues -> Levels \cup {"absent", "none"}]
    BY <2>1 DEF Stream
  <2>3. stream'[f] = IF stream[f].place # NameKey[v] THEN stream[f]
                     ELSE CASE stream[f].at = "open" ->
                                 [stream[f] EXCEPT !.shows[v] = l, !.gap = @ \ {v}]
                            [] stream[f].at = "snapshot" ->
                                 [stream[f] EXCEPT !.gap = @ \cup {v}]
                            [] OTHER -> stream[f]
    BY DEF PublishEvent
  <2>4. CASE stream[f].place # NameKey[v]
    BY <2>1, <2>3, <2>4
  <2>5. CASE stream[f].place = NameKey[v] /\ stream[f].at = "open"
    <3>1. PICK shows : shows = [stream[f].shows EXCEPT ![v] = l]
      OBVIOUS
    <3>2. /\ shows \in [Venues -> Levels \cup {"absent", "none"}] /\ shows[v] = l
          /\ \A w \in Venues \ {v} : shows[w] = stream[f].shows[w]
      BY <2>2, <3>1
    <3>3. stream'[f] = [stream[f] EXCEPT !.shows = shows, !.gap = stream[f].gap \ {v}]
      BY <2>1, <2>3, <2>5, <3>1 DEF Stream
    <3>4. /\ stream'[f].shows = shows /\ stream'[f].gap = stream[f].gap \ {v}
          /\ stream'[f].at = stream[f].at /\ stream'[f].place = stream[f].place
          /\ stream'[f] \in Stream
      BY <2>1, <2>2, <3>2, <3>3 DEF Stream
    <3>. QED
      BY <2>5, <3>2, <3>4
  <2>6. CASE stream[f].place = NameKey[v] /\ stream[f].at = "snapshot"
    <3>1. stream'[f] = [stream[f] EXCEPT !.gap = stream[f].gap \cup {v}]
      BY <2>3, <2>6
    <3>2. /\ stream'[f].shows = stream[f].shows /\ stream'[f].gap = stream[f].gap \cup {v}
          /\ stream'[f].at = stream[f].at /\ stream'[f].place = stream[f].place
          /\ stream'[f] \in Stream
      BY <2>1, <2>2, <3>1 DEF Stream
    <3>. QED
      BY <2>6, <3>2
  <2>7. CASE stream[f].place = NameKey[v] /\ stream[f].at = "closed"
    <3>1. stream'[f] = stream[f]
      BY <2>3, <2>7
    <3>. QED
      BY <2>1, <2>7, <3>1
  <2>. QED
    BY <2>2, <2>4, <2>5, <2>6, <2>7
<1>2. stream' = [f \in Streams |-> stream'[f]]
  BY DEF PublishEvent
<1>. QED
  BY <1>1, <1>2

\* What is published is what is stored, if the update was alone or the venue not
\* blurred; and an update that was alone leaves no other to be published.
LEMMA PublishKeeps ==
    ASSUME LiveInv, NEW r \in Requests, Publish(r)
    PROVE  LiveInv'
<1>0. TypeOK /\ \A q \in Requests : InOrder(q)
  BY DEF LiveInv, LiveTypes
<1>1. /\ req[r] \in Request /\ req[r] # Idle /\ req[r].at = "publish"
      /\ req[r].kind \in Writers
  BY <1>0, AtKnown DEF Publish, At, InOrder
<1>2. PICK v \in Venues, l \in Levels : v = req[r].v /\ l = req[r].level
  BY <1>1 DEF Request
<1>3. /\ heard' = [s \in Sockets |-> [k \in FeedKinds |-> [w \in Venues |->
             IF w = v /\ InRoom(s, FeedRoom(k, w)) THEN l ELSE heard[s][k][w]]]]
      /\ PublishEvent(v, l)
      /\ blurred' = IF r \in alone THEN blurred \ {v} ELSE blurred
      /\ alone' = alone \ {r}
      /\ Finish(r)
      /\ UNCHANGED <<gateway, level, live, items, inbox, got, updates, failures, owed, due>>
  BY <1>2 DEF Publish, tables
<1>4. /\ req' \in [Requests -> Request \cup {Idle}] /\ req'[r] = Idle
      /\ \A q \in Requests \ {r} : req'[q] = req[q]
  BY <1>0, <1>3, FinishKnown
<1>5. /\ ~Writer(r)' /\ ~Stored(r)' /\ (\A t : ~Deciding(r, t)') /\ InOrder(r)'
      /\ Writer(r) /\ Stored(r) /\ \A t : ~Deciding(r, t)
  BY <1>1, <1>4 DEF Writer, Stored, Deciding, InOrder, Idle, At
<1>6. /\ v \in blurred' => v \in blurred /\ r \notin alone
      /\ r \in alone \/ v \notin blurred => level[v] = l
      /\ r \in alone => Writing(v) = {r}
  BY <1>2, <1>3, <1>5 DEF LiveInv, UpdatesInv
<1>7. GatewayInv' /\ GatewayTypeOK' /\ rooms' = rooms
  BY <1>3, GatewayStays DEF LiveInv
<1>8. /\ stream' \in [Streams -> Stream]
      /\ \A f \in Streams :
             /\ stream'[f].at = stream[f].at /\ stream'[f].place = stream[f].place
             /\ \A w \in Venues \ {v} :
                    /\ stream'[f].shows[w] = stream[f].shows[w]
                    /\ w \in stream'[f].gap <=> w \in stream[f].gap
             /\ stream[f].place = NameKey[v] =>
                    \/ stream[f].at = "open" /\ stream'[f].shows[v] = l
                    \/ stream[f].at = "snapshot" /\ v \in stream'[f].gap
                    \/ stream[f].at = "closed"
  BY <1>0, <1>3, PublishEventKnown
<1>9. /\ heard' \in [Sockets -> [FeedKinds -> [Venues -> Levels \cup {"none", "due"}]]]
      /\ \A s \in Sockets, k \in FeedKinds, w \in Venues :
             heard'[s][k][w] = IF w = v /\ FeedRoom(k, w) \in rooms[s]
                               THEN l ELSE heard[s][k][w]
  BY <1>0, <1>3 DEF TypeOK, InRoom
<1>10. LiveTypes'
  <2>1. \A q \in Requests : InOrder(q)'
    BY <1>0, <1>4, <1>5, SameRequest
  <2>2. alone' \subseteq Requests /\ blurred' \subseteq Venues
    BY <1>0, <1>3 DEF TypeOK
  <2>. QED
    BY <1>0, <1>3, <1>4, <1>7, <1>8, <1>9, <2>1, <2>2 DEF LiveTypes, TypeOK
<1>11. AlertsInv'
  <2>1. SameAlerts
    BY <1>4, <1>5, SameRequest DEF SameAlerts
  <2>. QED
    BY <1>3, <2>1, AlertsStay DEF LiveInv
<1>12. /\ \A w, q : q \in Writing(w) <=> q \in Requests /\ Writer(q) /\ req[q].v = w
       /\ \A w, q : q \in Writing(w)' <=>
              q \in Requests /\ IF q = r THEN Writer(r)' /\ req'[r].v = w
                                ELSE Writer(q) /\ req[q].v = w
  BY <1>4, WritingOne
<1>13. UpdatesInv'
  <2>1. ASSUME NEW q \in alone'
        PROVE  q \in Requests /\ Writer(q)' /\ (Writing(req[q].v) = {q})'
    <3>1. q \in alone /\ q # r
      BY <1>3, <2>1
    <3>2. q \in Requests /\ Writer(q) /\ Writing(req[q].v) = {q}
      BY <3>1 DEF LiveInv, UpdatesInv
    <3>3. req'[q] = req[q] /\ Writer(q)'
      BY <1>4, <3>1, <3>2, SameRequest
    <3>. QED
      BY <1>5, <1>12, <3>1, <3>2, <3>3
  <2>2. ASSUME NEW q \in Requests, Stored(q)', q \in alone' \/ req'[q].v \notin blurred'
        PROVE  level[req'[q].v] = req'[q].level
    <3>1. q # r
      BY <1>5, <2>2
    <3>2. req'[q] = req[q] /\ Stored(q) /\ Writer(q) /\ (q \in alone' => q \in alone)
      BY <1>3, <1>4, <2>2, <3>1, SameRequest DEF Stored
    <3>3. q \in alone \/ req[q].v \notin blurred
      BY <1>3, <1>6, <1>12, <2>2, <3>1, <3>2
    <3>. QED
      BY <3>2, <3>3 DEF LiveInv, UpdatesInv
  <2>. QED
    BY <1>3, <2>1, <2>2 DEF UpdatesInv
<1>14. \A w \in Venues : w \notin blurred' /\ ~Unsettled(w)' =>
           \/ w = v /\ level[w] = l
           \/ w # v /\ w \notin blurred /\ ~Unsettled(w)
  <2>1. ASSUME NEW w \in Venues, w \notin blurred', ~Unsettled(w)'
        PROVE  \/ w = v /\ level[w] = l
               \/ w # v /\ w \notin blurred /\ ~Unsettled(w)
    <3>1. CASE w = v
      BY <1>3, <1>6, <2>1, <3>1
    <3>2. CASE w # v
      <4>1. ~\E q \in Requests \ {r} : Stored(q) /\ req[q].v = w
        BY <1>4, <2>1, UnsettledOne
      <4>2. ~Unsettled(w)
        BY <1>2, <3>2, <4>1 DEF Unsettled
      <4>. QED
        BY <1>3, <2>1, <3>2, <4>2
    <3>. QED
      BY <3>1, <3>2
  <2>. QED
    BY <2>1
<1>15. RoomsInv'
  <2>1. ASSUME NEW s \in Sockets, NEW k \in FeedKinds, NEW w \in Venues,
               FeedRoom(k, w) \notin rooms[s]
        PROVE  heard'[s][k][w] = "none"
    BY <1>9, <2>1 DEF LiveInv, RoomsInv
  <2>2. ASSUME NEW w \in Venues, w \notin blurred', ~Unsettled(w)',
               NEW s \in Sockets, NEW k \in FeedKinds
        PROVE  heard'[s][k][w] \in {"none", level[w]}
    <3>1. CASE w = v /\ level[w] = l
      <4>1. CASE FeedRoom(k, w) \in rooms[s]
        BY <1>9, <3>1, <4>1
      <4>2. CASE FeedRoom(k, w) \notin rooms[s]
        BY <2>1, <4>2
      <4>. QED
        BY <4>1, <4>2
    <3>2. CASE w # v /\ w \notin blurred /\ ~Unsettled(w)
      BY <1>9, <3>2 DEF LiveInv, RoomsInv
    <3>. QED
      BY <1>14, <2>2, <3>1, <3>2
  <2>3. \A k \in FeedKinds, w \in Venues : FeedRoom(k, w)' = FeedRoom(k, w)
    BY DEF FeedRoom
  <2>. QED
    BY <1>3, <1>7, <2>1, <2>2, <2>3 DEF RoomsInv
<1>16. StreamsInv'
  <2>1. SUFFICES ASSUME NEW f \in Streams, NEW w \in Venues,
                        stream'[f].at # "closed", w \notin blurred', w \notin stream'[f].gap,
                        NameKey[w] = stream'[f].place, SlugKey[w] = stream'[f].place,
                        ~Unsettled(w)'
                 PROVE  stream'[f].shows[w] = level[w]
    BY <1>3 DEF StreamsInv
  <2>2. CASE w = v /\ level[w] = l
    BY <1>8, <2>1, <2>2
  <2>3. CASE w # v /\ w \notin blurred /\ ~Unsettled(w)
    <3>1. /\ stream[f].at # "closed" /\ w \notin stream[f].gap
          /\ NameKey[w] = stream[f].place /\ SlugKey[w] = stream[f].place
      BY <1>8, <2>1, <2>3
    <3>2. stream[f].shows[w] = level[w]
      BY <2>3, <3>1 DEF LiveInv, StreamsInv
    <3>. QED
      BY <1>8, <2>3, <3>2
  <2>. QED
    BY <1>14, <2>1, <2>2, <2>3
<1>. QED
  BY <1>7, <1>10, <1>11, <1>13, <1>15, <1>16 DEF LiveInv

-------------------------------------------------------------------------------
(* Failures and restarts. *)

LEMMA DroppedKnown ==
    ASSUME TypeOK, NEW R \in SUBSET Requests, Dropped(R)
    PROVE  /\ alone' = alone \ R
           /\ blurred \subseteq blurred' /\ blurred' \subseteq Venues
           /\ \A q \in R : Stored(q) => req[q].v \in blurred'
           /\ due' \in [Items -> SUBSET Sockets]
           /\ \A v \in Venues, t \in Alerts :
                  owed'[v][t] = owed[v][t]
                      - Cardinality({q \in R : Deciding(q, t) /\ req[q].v = v})
<1>1. /\ owed' = [v \in Venues |-> [t \in Alerts |->
             owed[v][t] - Cardinality({q \in R : Deciding(q, t) /\ req[q].v = v})]]
      /\ blurred' = blurred \cup {req[q].v : q \in {p \in R : req[p] # Idle /\
                        req[p].kind \in Writers /\ req[p].at \notin {"find", "save"}}}
      /\ alone' = alone \ R
      /\ due' = [i \in Items |->
             IF \E q \in R : req[q] # Idle /\ req[q].item = i THEN {} ELSE due[i]]
  BY DEF Dropped
<1>2. blurred' = blurred \cup {req[q].v : q \in {p \in R : Stored(p)}}
  BY <1>1 DEF Stored, Writer
<1>3. \A q \in R : Stored(q) => req[q].v \in Venues
  BY AtKnown DEF Stored, Writer, Request
<1>4. blurred' \subseteq Venues
  BY <1>2, <1>3 DEF TypeOK
<1>5. due' \in [Items -> SUBSET Sockets]
  BY <1>1 DEF TypeOK
<1>6. \A v \in Venues, t \in Alerts :
          owed'[v][t] = owed[v][t] - Cardinality({q \in R : Deciding(q, t) /\ req[q].v = v})
  BY <1>1
<1>. QED
  BY <1>1, <1>2, <1>4, <1>5, <1>6

\* The types that the alerts still owed have.
LEMMA OwedTyped ==
    ASSUME NEW R, Dropped(R), \A v \in Venues, t \in Alerts : owed'[v][t] \in Nat
    PROVE  owed' \in [Venues -> [Alerts -> Nat]]
<1>1. owed' = [v \in Venues |-> [t \in Alerts |-> owed'[v][t]]]
  BY DEF Dropped
<1>. QED
  BY <1>1

\* A request that fails leaves the venue blurred if its update was stored, and the alert
\* it was about to send is not owed any more.
LEMMA FailKeeps ==
    ASSUME LiveInv, NEW r \in Requests, Fail(r)
    PROVE  LiveInv'
<1>0. TypeOK /\ \A q \in Requests : InOrder(q)
  BY DEF LiveInv, LiveTypes
<1>1. /\ req[r] \in Request /\ req[r] # Idle
      /\ failures < MaxFailures /\ failures' = failures + 1
      /\ Finish(r) /\ Dropped({r}) /\ UNCHANGED <<gateway, tables, clients, updates>>
  BY <1>0, AtKnown DEF Fail, Spend
<1>2. UNCHANGED <<level, live, items, inbox, heard, got, stream>>
  BY <1>1 DEF tables, clients
<1>3. /\ req' \in [Requests -> Request \cup {Idle}] /\ req'[r] = Idle
      /\ \A q \in Requests \ {r} : req'[q] = req[q]
  BY <1>0, <1>1, FinishKnown
<1>4. ~Writer(r)' /\ ~Stored(r)' /\ (\A t : ~Deciding(r, t)') /\ InOrder(r)'
  BY <1>3 DEF Writer, Stored, Deciding, InOrder, Idle
<1>5. /\ alone' = alone \ {r}
      /\ blurred \subseteq blurred' /\ blurred' \subseteq Venues
      /\ Stored(r) => req[r].v \in blurred'
      /\ due' \in [Items -> SUBSET Sockets]
      /\ \A v \in Venues, t \in Alerts :
             owed'[v][t] = owed[v][t]
                 - Cardinality({q \in {r} : Deciding(q, t) /\ req[q].v = v})
  BY <1>0, <1>1, DroppedKnown
<1>6. GatewayInv' /\ GatewayTypeOK' /\ rooms' = rooms
  BY <1>1, GatewayStays DEF LiveInv
<1>7. PICK n : n = [v \in Venues |-> [t \in Alerts |-> 0]]
  OBVIOUS
<1>8. Tells(r, n)
  <2>1. ASSUME NEW v \in Venues, NEW t \in Alerts
        PROVE  /\ n[v][t] \in Nat /\ owed'[v][t] \in Int
               /\ owed'[v][t] + In(Deciding(r, t) /\ req[r].v = v)
                      = owed[v][t] + In(Deciding(r, t)' /\ req'[r].v = v) + n[v][t]
               /\ \A u \in Followers[v] : inbox'[u][v][t] = inbox[u][v][t] + n[v][t]
    <3>1. n[v][t] = 0 /\ In(Deciding(r, t)' /\ req'[r].v = v) = 0
      BY <1>4, <1>7 DEF In
    <3>2. Cardinality({q \in {r} : Deciding(q, t) /\ req[q].v = v})
              = In(Deciding(r, t) /\ req[r].v = v)
      <4>1. CASE Deciding(r, t) /\ req[r].v = v
        <5>1. {q \in {r} : Deciding(q, t) /\ req[q].v = v} = {r}
          BY <4>1
        <5>. QED
          BY <4>1, <5>1, FS_Singleton DEF In
      <4>2. CASE ~(Deciding(r, t) /\ req[r].v = v)
        <5>1. {q \in {r} : Deciding(q, t) /\ req[q].v = v} = {}
          BY <4>2
        <5>. QED
          BY <4>2, <5>1, FS_EmptySet DEF In
      <4>. QED
        BY <4>1, <4>2
    <3>3. owed[v][t] \in Nat /\ \A u \in Followers[v] : inbox[u][v][t] \in Nat
      BY <1>0, VenueLiveAssumption DEF TypeOK
    <3>4. PICK m \in Nat : m = In(Deciding(r, t) /\ req[r].v = v)
      BY DEF In
    <3>5. owed'[v][t] = owed[v][t] - m
      BY <1>5, <3>2, <3>4
    <3>6. owed'[v][t] + m = owed[v][t] + 0 + 0 /\ owed'[v][t] \in Int
      BY <3>3, <3>4, <3>5
    <3>7. \A u \in Followers[v] : inbox'[u][v][t] = inbox[u][v][t] + 0
      BY <1>2, <3>3
    <3>. QED
      BY <3>1, <3>4, <3>6, <3>7
  <2>. QED
    BY <2>1 DEF Tells
<1>9. AlertsInv' /\ \A v \in Venues, t \in Alerts : owed'[v][t] \in Nat
  BY <1>0, <1>3, <1>8, AlertsMove DEF LiveInv
<1>10. LiveTypes'
  <2>1. owed' \in [Venues -> [Alerts -> Nat]]
    BY <1>1, <1>9, OwedTyped
  <2>2. failures' \in 0 .. MaxFailures
    BY <1>0, <1>1, VenueLiveAssumption DEF TypeOK
  <2>3. \A q \in Requests : InOrder(q)'
    BY <1>0, <1>3, <1>4, SameRequest
  <2>4. alone' \subseteq Requests
    BY <1>0, <1>5 DEF TypeOK
  <2>. QED
    BY <1>0, <1>1, <1>2, <1>3, <1>5, <1>6, <2>1, <2>2, <2>3, <2>4 DEF LiveTypes, TypeOK
<1>11. UpdatesInv'
  <2>0. /\ \A w, q : q \in Writing(w) <=> q \in Requests /\ Writer(q) /\ req[q].v = w
        /\ \A w, q : q \in Writing(w)' <=>
               q \in Requests /\ IF q = r THEN Writer(r)' /\ req'[r].v = w
                                 ELSE Writer(q) /\ req[q].v = w
    BY <1>3, WritingOne
  <2>1. ASSUME NEW q \in alone'
        PROVE  q \in Requests /\ Writer(q)' /\ (Writing(req[q].v) = {q})'
    <3>1. q \in alone /\ q # r
      BY <1>5, <2>1
    <3>2. q \in Requests /\ Writer(q) /\ Writing(req[q].v) = {q}
      BY <3>1 DEF LiveInv, UpdatesInv
    <3>3. req'[q] = req[q] /\ Writer(q)'
      BY <1>3, <3>1, <3>2, SameRequest
    <3>. QED
      BY <1>4, <2>0, <3>1, <3>2, <3>3
  <2>2. ASSUME NEW q \in Requests, Stored(q)', q \in alone' \/ req'[q].v \notin blurred'
        PROVE  level[req'[q].v] = req'[q].level
    <3>1. q # r
      BY <1>4, <2>2
    <3>2. /\ req'[q] = req[q] /\ Stored(q)
          /\ q \in alone \/ req[q].v \notin blurred
      BY <1>3, <1>5, <2>2, <3>1, SameRequest
    <3>. QED
      BY <3>2 DEF LiveInv, UpdatesInv
  <2>. QED
    BY <1>2, <2>1, <2>2 DEF UpdatesInv
<1>12. \A w \in Venues : w \notin blurred' /\ ~Unsettled(w)' =>
           w \notin blurred /\ ~Unsettled(w)
  <2>1. ASSUME NEW w \in Venues, w \notin blurred', ~Unsettled(w)'
        PROVE  w \notin blurred /\ ~Unsettled(w)
    <3>1. ~\E q \in Requests \ {r} : Stored(q) /\ req[q].v = w
      BY <1>3, <2>1, UnsettledOne
    <3>. QED
      BY <1>5, <2>1, <3>1 DEF Unsettled
  <2>. QED
    BY <2>1
<1>13. RoomsInv' /\ StreamsInv'
  BY <1>2, <1>6, <1>12, RoomsSettle, StreamsSettle DEF LiveInv
<1>. QED
  BY <1>6, <1>9, <1>10, <1>11, <1>13 DEF LiveInv

LEMMA RestartKeeps ==
    ASSUME LiveInv, Restart
    PROVE  LiveInv'
<1>0. TypeOK /\ \A q \in Requests : InOrder(q)
  BY DEF LiveInv, LiveTypes
<1>1. /\ failures < MaxFailures /\ failures' = failures + 1
      /\ GatewayRestart /\ Dropped(Requests)
      /\ req' = [r \in Requests |-> Idle]
      /\ heard' = [s \in Sockets |-> [k \in FeedKinds |-> [v \in Venues |-> "none"]]]
      /\ stream' = [f \in Streams |-> [stream[f] EXCEPT !.at = "closed", !.gap = {},
                                          !.shows = [v \in Venues |-> "none"]]]
      /\ UNCHANGED <<tables, got, updates>>
  BY DEF Restart, Spend
<1>2. UNCHANGED <<level, live, items, inbox, got, updates>>
  BY <1>1 DEF tables
<1>3. \A q \in Requests : ~Writer(q)' /\ ~Stored(q)' /\ InOrder(q)' /\ \A t : ~Deciding(q, t)'
  BY <1>1 DEF Writer, Stored, Deciding, InOrder, Idle
<1>4. /\ alone' = alone \ Requests
      /\ blurred \subseteq blurred' /\ blurred' \subseteq Venues
      /\ \A q \in Requests : Stored(q) => req[q].v \in blurred'
      /\ due' \in [Items -> SUBSET Sockets]
      /\ \A v \in Venues, t \in Alerts : owed'[v][t] = owed[v][t] - Cardinality(Pending(v, t))
  BY <1>0, <1>1, DroppedKnown DEF Pending
<1>5. alone' = {}
  BY <1>0, <1>4 DEF TypeOK
<1>6. GatewayInv' /\ GatewayTypeOK'
  <2>1. [GatewayNext]_gateway
    BY <1>1 DEF GatewayNext
  <2>. QED
    BY <2>1, GatewayKeeps DEF LiveInv, GatewayInv, RegistryInv
<1>7. AlertsInv' /\ \A v \in Venues, t \in Alerts : owed'[v][t] \in Nat
  <2>1. ASSUME NEW v \in Venues, NEW t \in Alerts
        PROVE  Sent(v, t)' = Sent(v, t) /\ owed'[v][t] = Sent(v, t) /\ Sent(v, t) \in Nat
    <3>1. owed'[v][t] = Sent(v, t) /\ Sent(v, t) \in Nat
      BY <1>4 DEF Sent, LiveInv, AlertsInv
    <3>2. Pending(v, t)' = {}
      BY <1>3 DEF Pending
    <3>3. Cardinality(Pending(v, t)') = 0
      BY <3>2, FS_EmptySet
    <3>4. Sent(v, t)' = owed'[v][t] - Cardinality(Pending(v, t)')
      BY DEF Sent
    <3>. QED
      BY <3>1, <3>3, <3>4
  <2>. QED
    BY <1>2, <2>1 DEF LiveInv, AlertsInv
<1>8. /\ stream' \in [Streams -> Stream]
      /\ \A f \in Streams : stream'[f].at = "closed"
  <2>1. PICK shows : shows = [v \in Venues |-> "none"]
    OBVIOUS
  <2>2. shows \in [Venues -> Levels \cup {"absent", "none"}]
    BY <2>1
  <2>3. ASSUME NEW f \in Streams
        PROVE  stream'[f] \in Stream /\ stream'[f].at = "closed"
    <3>1. stream[f] \in Stream
      BY <1>0 DEF TypeOK
    <3>2. stream'[f] = [stream[f] EXCEPT !.at = "closed", !.gap = {}, !.shows = shows]
      BY <1>1, <2>1
    <3>. QED
      BY <2>2, <3>1, <3>2 DEF Stream
  <2>. QED
    BY <1>1, <2>3
<1>9. heard' \in [Sockets -> [FeedKinds -> [Venues -> Levels \cup {"none", "due"}]]]
  BY <1>1
<1>10. LiveTypes'
  <2>1. owed' \in [Venues -> [Alerts -> Nat]]
    BY <1>1, <1>7, OwedTyped
  <2>2. failures' \in 0 .. MaxFailures
    <3>1. failures \in 0 .. MaxFailures /\ MaxFailures \in Nat
      BY <1>0, VenueLiveAssumption DEF TypeOK
    <3>2. failures < MaxFailures /\ failures' = failures + 1
      BY <1>1
    <3>. QED
      BY <3>1, <3>2
  <2>3. req' \in [Requests -> Request \cup {Idle}]
    BY <1>1
  <2>. QED
    BY <1>0, <1>2, <1>3, <1>4, <1>5, <1>6, <1>8, <1>9, <2>1, <2>2, <2>3 DEF LiveTypes, TypeOK
<1>11. UpdatesInv'
  BY <1>3, <1>5 DEF UpdatesInv
<1>12. RoomsInv' /\ StreamsInv'
  BY <1>1, <1>8 DEF RoomsInv, StreamsInv
<1>. QED
  BY <1>6, <1>7, <1>10, <1>11, <1>12 DEF LiveInv

-------------------------------------------------------------------------------
(* The specification. *)

LEMMA LiveStart == Init => LiveInv
<1> SUFFICES ASSUME Init PROVE LiveInv
  OBVIOUS
<1>1. GatewayInv /\ GatewayTypeOK
  BY GatewayStart DEF Init, GatewayInv, RegistryInv
<1>2. /\ level = [v \in Venues |-> "absent"] /\ live = [v \in Venues |-> FALSE]
      /\ items = {}
      /\ inbox = [u \in Users |-> [v \in Venues |-> [t \in Alerts |-> 0]]]
      /\ req = [r \in Requests |-> Idle]
      /\ heard = [s \in Sockets |-> [k \in FeedKinds |-> [v \in Venues |-> "none"]]]
      /\ got = [s \in Sockets |-> {}]
      /\ stream \in [Streams -> [at : {"closed"}, place : Places, gap : {{}},
                                 shows : {[v \in Venues |-> "none"]}]]
      /\ updates = 0 /\ failures = 0 /\ alone = {} /\ blurred = {}
      /\ owed = [v \in Venues |-> [t \in Alerts |-> 0]]
      /\ due = [i \in Items |-> {}]
  BY DEF Init
<1>3. \A q \in Requests : ~Writer(q) /\ ~Stored(q) /\ InOrder(q) /\ \A t : ~Deciding(q, t)
  BY <1>2, IdleKnown
<1>4. /\ stream \in [Streams -> Stream]
      /\ \A f \in Streams : stream[f].at = "closed"
  <2>1. [v \in Venues |-> "none"] \in [Venues -> Levels \cup {"absent", "none"}]
    OBVIOUS
  <2>2. ASSUME NEW f \in Streams
        PROVE  stream[f] \in Stream /\ stream[f].at = "closed"
    <3>1. stream[f] \in [at : {"closed"}, place : Places, gap : {{}},
                         shows : {[v \in Venues |-> "none"]}]
      BY <1>2
    <3>2. stream[f] \in [at : {"closed", "snapshot", "open"}, place : Places,
                         gap : SUBSET Venues,
                         shows : [Venues -> Levels \cup {"absent", "none"}]]
      BY <2>1, <3>1
    <3>. QED
      BY <3>1, <3>2 DEF Stream
  <2>. QED
    BY <1>2, <2>2
<1>5. LiveTypes
  <2>1. updates \in 0 .. MaxUpdates /\ failures \in 0 .. MaxFailures
    BY <1>2, VenueLiveAssumption
  <2>2. /\ inbox \in [Users -> [Venues -> [Alerts -> Nat]]]
        /\ owed \in [Venues -> [Alerts -> Nat]]
        /\ heard \in [Sockets -> [FeedKinds -> [Venues -> Levels \cup {"none", "due"}]]]
    BY <1>2
  <2>3. /\ level \in [Venues -> Levels \cup {"absent"}] /\ live \in [Venues -> BOOLEAN]
        /\ items \subseteq [id : Items, v : Venues, kind : Posters]
        /\ req \in [Requests -> Request \cup {Idle}]
        /\ got \in [Sockets -> SUBSET Items] /\ due \in [Items -> SUBSET Sockets]
        /\ alone \subseteq Requests /\ blurred \subseteq Venues
    BY <1>2
  <2>. QED
    BY <1>1, <1>3, <1>4, <2>1, <2>2, <2>3 DEF LiveTypes, TypeOK
<1>6. AlertsInv
  <2>1. ASSUME NEW v \in Venues, NEW t \in Alerts
        PROVE  Sent(v, t) = 0 /\ \A u \in Followers[v] : inbox[u][v][t] = 0
    <3>1. Pending(v, t) = {}
      BY <1>3 DEF Pending
    <3>2. Cardinality(Pending(v, t)) = 0 /\ owed[v][t] = 0
      BY <1>2, <3>1, FS_EmptySet
    <3>3. \A u \in Followers[v] : u \in Users
      BY VenueLiveAssumption
    <3>. QED
      BY <1>2, <3>2, <3>3 DEF Sent
  <2>. QED
    BY <2>1 DEF AlertsInv
<1>7. UpdatesInv
  BY <1>2, <1>3 DEF UpdatesInv
<1>8. RoomsInv /\ StreamsInv
  BY <1>2, <1>4 DEF RoomsInv, StreamsInv
<1>. QED
  BY <1>1, <1>5, <1>6, <1>7, <1>8 DEF LiveInv

LEMMA ServeKeeps ==
    ASSUME LiveInv, NEW r \in Requests, Serve(r)
    PROVE  LiveInv'
BY FindBusynessKeeps, ReadKeeps, SaveBusynessKeeps, SaveVibesKeeps, AlertLiveKeeps, LogStatusKeeps,
   AlertPeakKeeps, PublishKeeps, NewsKeeps, NotifySaversKeeps DEF Serve

LEMMA LiveStep == LiveInv /\ [Next]_vars => LiveInv'
<1> SUFFICES ASSUME LiveInv, [Next]_vars PROVE LiveInv'
  OBVIOUS
<1>1. ASSUME NEW r \in Requests, NEW v \in Venues,
             OwnerStart(r, v) \/ WorkerStart(r, v) \/ SyncStart(r, v) \/ DemoStart(r, v)
      PROVE  LiveInv'
  <2>1. PICK kind \in Writers, l \in Levels, tags \in {"kept", "live", "plain"} :
            Begin(r, kind, v, l, tags)
    BY <1>1 DEF OwnerStart, WorkerStart, SyncStart, DemoStart, Writers
  <2>. QED
    BY <2>1, BeginKeeps
<1>2. ASSUME NEW r \in Requests, NEW v \in Venues, NEW i \in Items,
             OfferStart(r, v, i) \/ InfoStart(r, v, i) \/ WhatsOnStart(r, v, i)
      PROVE  LiveInv'
  <2>1. PICK kind \in Posters : Post(r, kind, v, i)
    BY <1>2 DEF OfferStart, InfoStart, WhatsOnStart, Posters
  <2>. QED
    BY <2>1, PostKeeps
<1>3. ASSUME NEW r \in Requests, Serve(r) PROVE LiveInv'
  BY <1>3, ServeKeeps
<1>4. ASSUME NEW r \in Requests, Fail(r) PROVE LiveInv'
  BY <1>4, FailKeeps
<1>5. ASSUME NEW f \in Streams, StreamOpen(f) \/ StreamSubscribe(f) \/ StreamClose(f)
      PROVE  LiveInv'
  BY <1>5, StreamStepKeeps
<1>6. CASE ClientStep
  BY <1>6, ClientStepKeeps
<1>7. CASE Restart
  BY <1>7, RestartKeeps
<1>8. CASE UNCHANGED vars
  <2>1. UNCHANGED <<gateway, tables, req, clients, updates, failures, histories>>
    BY <1>8 DEF vars, server
  <2>2. SameWriters /\ SameAlerts /\ \A q \in Requests : InOrder(q)'
    BY <2>1, RequestsStay DEF LiveInv, LiveTypes
  <2>3. updates' \in 0 .. MaxUpdates /\ req' \in [Requests -> Request \cup {Idle}]
    BY <2>1 DEF LiveInv, LiveTypes, TypeOK
  <2>. QED
    BY <2>1, <2>2, <2>3, QuietKeeps
<1>. QED
  BY <1>1, <1>2, <1>3, <1>4, <1>5, <1>6, <1>7, <1>8 DEF Next

\* What a venue's updates leave behind is what the inductive invariant says, in every
\* state of every run, for any number of requests, sockets, streams and venues.
THEOREM LiveInvariant == Spec => []LiveInv
BY LiveStart, LiveStep, PTL DEF Spec

\* Every variable of the venue's feeds keeps its type: no inbox count and no count of
\* alerts owed goes below zero when requests are cut off.
THEOREM LiveTypesHold == Spec => []TypeOK
<1>1. LiveInv => TypeOK
  BY DEF LiveInv, LiveTypes
<1>. QED
  BY <1>1, LiveInvariant, PTL

\* The venue's feeds use the gateway only as it may be used: every step of theirs is one
\* of the gateway's or none.
THEOREM LiveUsesTheGateway == Spec => GatewaySpec
<1>1. Init => GatewayInit
  BY DEF Init
<1>2. [Next]_vars => [GatewayNext]_gateway
  <2> SUFFICES ASSUME [Next]_vars PROVE [GatewayNext]_gateway
    OBVIOUS
  <2>1. ASSUME NEW r \in Requests, NEW v \in Venues,
               OwnerStart(r, v) \/ WorkerStart(r, v) \/ SyncStart(r, v) \/ DemoStart(r, v)
        PROVE  UNCHANGED gateway
    BY <2>1 DEF OwnerStart, WorkerStart, SyncStart, DemoStart, Begin
  <2>2. ASSUME NEW r \in Requests, NEW v \in Venues, NEW i \in Items,
               OfferStart(r, v, i) \/ InfoStart(r, v, i) \/ WhatsOnStart(r, v, i)
        PROVE  UNCHANGED gateway
    BY <2>2 DEF OfferStart, InfoStart, WhatsOnStart, Post
  <2>3. ASSUME NEW r \in Requests, Serve(r) PROVE UNCHANGED gateway
    BY <2>3 DEF Serve, FindBusyness, SaveBusyness, FindVibes, SaveVibes, AlertLive,
                LogStatus, AlertPeak, Publish, StoreItem, NotifySavers, Announce
  <2>4. ASSUME NEW r \in Requests, Fail(r) PROVE UNCHANGED gateway
    BY <2>4 DEF Fail
  <2>5. ASSUME NEW f \in Streams, StreamOpen(f) \/ StreamSubscribe(f) \/ StreamClose(f)
        PROVE  UNCHANGED gateway
    BY <2>5 DEF StreamOpen, StreamSubscribe, StreamClose
  <2>6. CASE ClientStep
    BY <2>6 DEF ClientStep, GatewayNext
  <2>7. CASE Restart
    BY <2>7 DEF Restart, GatewayNext
  <2>8. CASE UNCHANGED vars
    BY <2>8 DEF vars
  <2>. QED
    BY <2>1, <2>2, <2>3, <2>4, <2>5, <2>6, <2>7, <2>8 DEF Next
<1>. QED
  BY <1>1, <1>2, PTL DEF Spec, GatewaySpec

\* What a room last heard of a venue's busyness is what is stored, unless an update
\* overlapped with another, was cut off after its save, or was an offline device's.
THEOREM StaleRoomsHaveACause == Spec => []StaleRoomHasACause
<1>1. LiveInv => StaleRoomHasACause
  <2> SUFFICES ASSUME LiveInv, NEW v \in Venues, Writing(v) = {}, v \notin blurred,
                      NEW s \in Sockets, NEW k \in FeedKinds
               PROVE  heard[s][k][v] \in {"none", level[v]}
    BY DEF StaleRoomHasACause
  <2>1. ~Unsettled(v)
    BY DEF Unsettled, Stored, Writer, Writing
  <2>. QED
    BY <2>1 DEF LiveInv, RoomsInv
<1>. QED
  BY <1>1, LiveInvariant, PTL

\* The same of a stream's client, but for what was published while its snapshot was on
\* its way.
THEOREM StaleStreamsHaveACause == Spec => []StaleStreamHasACause
<1>1. LiveInv => StaleStreamHasACause
  <2> SUFFICES ASSUME LiveInv, NEW f \in Streams, NEW v \in Venues,
                      stream[f].at = "open", Writing(v) = {},
                      v \notin blurred \cup stream[f].gap,
                      NameKey[v] = stream[f].place, SlugKey[v] = stream[f].place
               PROVE  stream[f].shows[v] = level[v]
    BY DEF StaleStreamHasACause
  <2>1. ~Unsettled(v)
    BY DEF Unsettled, Stored, Writer, Writing
  <2>. QED
    BY <2>1 DEF LiveInv, StreamsInv
<1>. QED
  BY <1>1, LiveInvariant, PTL

\* Every alert an owner's update decided on is in the inbox of everyone who saved the
\* venue, once, unless the request was cut off before it was sent.
THEOREM AlertsAlwaysArrive == Spec => []AlertsArrive
<1>1. LiveInv => AlertsArrive
  <2> SUFFICES ASSUME LiveInv, NEW v \in Venues, NEW t \in Alerts, NEW u \in Followers[v],
                      \A r \in Requests : ~(Deciding(r, t) /\ req[r].v = v)
               PROVE  inbox[u][v][t] = owed[v][t]
    BY DEF AlertsArrive
  <2>1. Pending(v, t) = {}
    BY DEF Pending
  <2>2. Cardinality(Pending(v, t)) = 0
    BY <2>1, FS_EmptySet
  <2>3. inbox[u][v][t] = owed[v][t] - Cardinality(Pending(v, t))
    BY DEF LiveInv, AlertsInv, Sent
  <2>4. owed[v][t] \in Nat
    BY DEF LiveInv, LiveTypes, TypeOK
  <2>. QED
    BY <2>2, <2>3, <2>4
<1>. QED
  BY <1>1, LiveInvariant, PTL
================================================================================
