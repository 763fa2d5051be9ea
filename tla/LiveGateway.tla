----------------------------- MODULE LiveGateway -----------------------------
(***************************************************************************)
(* The socket gateway on /live: which sockets are connected for which      *)
(* user, which rooms they are in, and who is viewing which venue.  The     *)
(* gateway keeps its own maps beside the rooms Socket.IO keeps, and emits  *)
(* a venue's number of viewers whenever it changes.  Handlers run without  *)
(* an await, so each is one action; Socket.IO takes a socket out of its    *)
(* rooms before handleDisconnect is called, and runs no handler of a       *)
(* socket that is closed.                                                  *)
(***************************************************************************)
EXTENDS Integers, FiniteSets

CONSTANTS
    Sockets,   \* socket ids; Socket.IO gives an id to one connection only
    Users,
    NoUser,
    Venues,
    Places,    \* names of cities as trim().toLowerCase() leaves them
    Asks       \* the kinds of room each client asks for

ASSUME GatewayAssumption ==
    /\ IsFiniteSet(Sockets)
    /\ NoUser \notin Users
    /\ Asks \in [Sockets -> SUBSET {"city", "map", "venue", "business"}]

VARIABLES
    conn,            \* what has become of each socket
    rooms,           \* Socket.IO: the rooms of each socket
    socketToUser,    \* the gateway's map, NoUser = no entry
    connectedUsers,  \* the gateway's map from users to sets of sockets
    venueViewers,    \* the gateway's map from venues to sets of sockets
    told             \* the last VIEWING_COUNT each socket got of each venue

gateway == <<conn, rooms, socketToUser, connectedUsers, venueViewers, told>>

Personal(u) == <<"user", u>>
City(p) == <<"city", p>>
Map(p) == <<"map", p>>
Venue(v) == <<"venue", v>>
Business(v) == <<"business", v>>

Rooms == {Personal(u) : u \in Users} \cup {City(p) : p \in Places}
         \cup {Map(p) : p \in Places} \cup {Venue(v) : v \in Venues}
         \cup {Business(v) : v \in Venues}

\* A map from a part of D to sets of sockets.
IsMap(map, D) == DOMAIN map \subseteq D /\ map \in [DOMAIN map -> SUBSET Sockets]

GatewayTypeOK ==
    /\ conn \in [Sockets -> {"new", "open", "closed"}]
    /\ rooms \in [Sockets -> SUBSET Rooms]
    /\ socketToUser \in [Sockets -> Users \cup {NoUser}]
    /\ IsMap(connectedUsers, Users)
    /\ IsMap(venueViewers, Venues)
    /\ told \in [Sockets -> [Venues -> Nat]]

GatewayInit ==
    /\ conn = [s \in Sockets |-> "new"]
    /\ rooms = [s \in Sockets |-> {}]
    /\ socketToUser = [s \in Sockets |-> NoUser]
    /\ connectedUsers = [u \in {} |-> {}]
    /\ venueViewers = [v \in {} |-> {}]
    /\ told = [s \in Sockets |-> [v \in Venues |-> 0]]
-------------------------------------------------------------------------------
(* Helpers. *)

\* What such a map holds for k.
Members(map, k) == IF k \in DOMAIN map THEN map[k] ELSE {}

\* The map with s added under k, with a new set when k has none.
Enlist(map, k, s) ==
    [j \in (DOMAIN map) \cup {k} |->
        IF j = k THEN Members(map, k) \cup {s} ELSE map[j]]

\* The map with s taken out of the sets under K; a set that is empty then
\* loses its entry.
Strike(map, K, s) ==
    [j \in {i \in DOMAIN map : i \in K => map[i] \ {s} # {}} |->
        IF j \in K THEN map[j] \ {s} ELSE map[j]]

\* The venues in whose sets s is.
Viewing(s) == {v \in DOMAIN venueViewers : s \in venueViewers[v]}

\* getVenueViewerCount
ViewerCount(map, v) == Cardinality(Members(map, v))

\* VIEWING_COUNT of the venues V is emitted to the sockets that are in their
\* rooms once the handler has changed the rooms.
Tell(V) ==
    told' = [s \in Sockets |-> [v \in Venues |->
                IF v \in V /\ Venue(v) \in rooms'[s]
                THEN ViewerCount(venueViewers', v) ELSE told[s][v]]]

Enter(s, room) ==
    /\ conn[s] = "open"
    /\ room[1] \in Asks[s]
    /\ rooms' = [rooms EXCEPT ![s] = @ \cup {room}]

Exit(s, room) ==
    /\ conn[s] = "open"
    /\ rooms' = [rooms EXCEPT ![s] = @ \ {room}]

registry == <<conn, socketToUser, connectedUsers>>
-------------------------------------------------------------------------------
(* Slips of the code below, each refused by a property: see PROJECT.json. *)

\* The socket is dropped from the venues, and nobody is told.
DisconnectSilently(s) ==
    /\ conn[s] = "open"
    /\ conn' = [conn EXCEPT ![s] = "closed"]
    /\ rooms' = [rooms EXCEPT ![s] = {}]
    /\ socketToUser' = [socketToUser EXCEPT ![s] = NoUser]
    /\ connectedUsers' = Strike(connectedUsers, {socketToUser[s]}, s)
    /\ venueViewers' = Strike(venueViewers, Viewing(s), s)
    /\ UNCHANGED told

-------------------------------------------------------------------------------
(* Connections. *)

\* A token the secret verifies, with a subject.
Connect(s, u) ==
    /\ conn[s] = "new"
    /\ conn' = [conn EXCEPT ![s] = "open"]
    /\ socketToUser' = [socketToUser EXCEPT ![s] = u]
    /\ connectedUsers' = Enlist(connectedUsers, u, s)
    /\ rooms' = [rooms EXCEPT ![s] = @ \cup {Personal(u)}]
    /\ UNCHANGED <<venueViewers, told>>

\* No token, a token that does not verify, or one without a subject.
Refuse(s) ==
    /\ conn[s] = "new"
    /\ conn' = [conn EXCEPT ![s] = "closed"]
    /\ UNCHANGED <<rooms, socketToUser, connectedUsers, venueViewers, told>>

Disconnect(s) ==
    /\ conn[s] = "open"
    /\ conn' = [conn EXCEPT ![s] = "closed"]
    /\ rooms' = [rooms EXCEPT ![s] = {}]
    /\ socketToUser' = [socketToUser EXCEPT ![s] = NoUser]
    /\ connectedUsers' = Strike(connectedUsers, {socketToUser[s]}, s)
    /\ venueViewers' = Strike(venueViewers, Viewing(s), s)
    /\ Tell(Viewing(s))

\* The process ends: every socket is dropped and the maps are gone.
GatewayRestart ==
    /\ conn' = [s \in Sockets |-> IF conn[s] = "open" THEN "closed" ELSE conn[s]]
    /\ rooms' = [s \in Sockets |-> {}]
    /\ socketToUser' = [s \in Sockets |-> NoUser]
    /\ connectedUsers' = [u \in {} |-> {}]
    /\ venueViewers' = [v \in {} |-> {}]
    /\ UNCHANGED told
-------------------------------------------------------------------------------
(* Rooms. *)

JoinCity(s, p) == Enter(s, City(p)) /\ UNCHANGED <<registry, venueViewers, told>>
LeaveCity(s, p) == Exit(s, City(p)) /\ UNCHANGED <<registry, venueViewers, told>>
JoinMap(s, p) == Enter(s, Map(p)) /\ UNCHANGED <<registry, venueViewers, told>>
LeaveMap(s, p) == Exit(s, Map(p)) /\ UNCHANGED <<registry, venueViewers, told>>

JoinBusiness(s, v) ==
    Enter(s, Business(v)) /\ UNCHANGED <<registry, venueViewers, told>>

LeaveBusiness(s, v) ==
    Exit(s, Business(v)) /\ UNCHANGED <<registry, venueViewers, told>>

JoinVenue(s, v) ==
    /\ Enter(s, Venue(v))
    /\ venueViewers' = Enlist(venueViewers, v, s)
    /\ Tell({v})
    /\ UNCHANGED registry

\* A venue without a set has no viewers to tell; otherwise all are told, even
\* when s was not among them.
LeaveVenue(s, v) ==
    /\ Exit(s, Venue(v))
    /\ venueViewers' = Strike(venueViewers, {v}, s)
    /\ Tell(DOMAIN venueViewers \cap {v})
    /\ UNCHANGED registry

GatewayNext ==
    \/ \E s \in Sockets :
           \/ \E u \in Users : Connect(s, u)
           \/ Refuse(s)
           \/ Disconnect(s)
           \/ \E p \in Places : \/ JoinCity(s, p) \/ LeaveCity(s, p)
                                \/ JoinMap(s, p) \/ LeaveMap(s, p)
           \/ \E v \in Venues : \/ JoinVenue(s, v) \/ LeaveVenue(s, v)
                                \/ JoinBusiness(s, v) \/ LeaveBusiness(s, v)
    \/ GatewayRestart

GatewaySpec == GatewayInit /\ [][GatewayNext]_gateway
-------------------------------------------------------------------------------
(* Properties. *)

\* The two maps of handleConnection and handleDisconnect are each other's
\* inverse, a user is listed exactly while one of its sockets is open, and its
\* open sockets are the members of its personal room: what getConnectionStats
\* counts and what sendToUser reaches are the open connections.
RegistriesAgree ==
    /\ \A s \in Sockets : conn[s] = "open" <=> socketToUser[s] # NoUser
    /\ \A u \in Users :
           {s \in Sockets : socketToUser[s] = u} = Members(connectedUsers, u)
    /\ \A u \in DOMAIN connectedUsers : connectedUsers[u] # {}
    /\ \A s \in Sockets, u \in Users :
           Personal(u) \in rooms[s] <=> socketToUser[s] = u

\* The gateway's set of a venue's viewers is the membership of Socket.IO's room,
\* and no entry is left behind for a venue that nobody views.
ViewersAreInTheRoom ==
    /\ \A v \in Venues :
           {s \in Sockets : Venue(v) \in rooms[s]} = Members(venueViewers, v)
    /\ \A v \in DOMAIN venueViewers : venueViewers[v] # {}

\* Whoever views a venue was last told the number of those who view it now,
\* whatever joins, leaves and broken connections came in between.
ViewersKnowTheCount ==
    \A s \in Sockets, v \in Venues :
        Venue(v) \in rooms[s] => told[s][v] = ViewerCount(venueViewers, v)

\* The gateway's books: after any sequence of connects, joins, leaves, broken
\* connections and restarts the registries, the viewer sets and the rooms name the
\* same sockets, and every viewer has been told how many they are.
GatewayAgrees ==
    /\ RegistriesAgree
    /\ ViewersAreInTheRoom
    /\ ViewersKnowTheCount
================================================================================
