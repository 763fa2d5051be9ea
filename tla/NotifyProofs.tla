------------------------------ MODULE NotifyProofs ------------------------------
(***************************************************************************)
(* Proofs about Notify, for any users, devices, venues, requests, windows  *)
(* and preferences, and whatever rows the server starts from: types, and   *)
(* that every repeated, unwanted or stray push and every repeated notice   *)
(* has one of the causes the properties name.                              *)
(***************************************************************************)
EXTENDS Notify, TLAPS

-------------------------------------------------------------------------------
(* The inductive invariant. *)

\* Which fields a request of each kind uses at each of its steps.
Shape(q) ==
    /\ q.kind = "none" => q = Idle
    /\ q.kind # "none" => q.user \in Users /\ q.at # "idle"
    /\ q.kind = "update" => q.at \in {"find", "save"} /\ q.dto \in Dto
    /\ q.kind = "read" => q.at \in {"check", "insert"}
    /\ q.kind = "register" => q.at \in {"find", "save"} /\ q.token \in Tokens
    /\ q.kind = "announce" =>
           /\ q.at \in {"check", "insert", "list", "send", "drop"}
           /\ q.topic \in Topics /\ q.rest \subseteq Users
           /\ q.at \in {"check", "insert", "list"} => ~q.got /\ q.left = {}
           /\ q.at = "drop" => q.token \in q.left
    /\ q.kind = "geofence" =>
           /\ q.at \in {"limit", "cooldown", "notice", "log"}
           /\ q.rest \subseteq Venues
           /\ q.at \in {"notice", "log"} => q.token \in q.rest
    /\ q.kind # "announce" => q.left = {}
    /\ q.at \notin {"list", "send", "drop"} => ~q.forbade

\* The push to a user about a topic that a request is in the middle of.
Sending(r) == req[r].at \in {"list", "send", "drop"}
Noticing(r) == req[r].at \in {"notice", "log"}
NoticeOf(r) == <<req[r].user, req[r].token>>

\* Two requests in the middle of the same thing both know that they are.
RivalsKnow ==
    \A p, q \in Requests : p # q =>
        /\ Sending(p) /\ Sending(q) /\ Key(p) = Key(q) => req[p].rival
        /\ Noticing(p) /\ Noticing(q) /\ NoticeOf(p) = NoticeOf(q) => req[p].rival

\* A push that went out is remembered, is being remembered, or the memory of it is lost.
Remembered(k) ==
    last[k].at >= 0 =>
        \/ last[k].boot # boot \/ last[k].broken
        \/ expires[k] >= last[k].at + DedupeWindow
        \/ \E r \in Requests : req[r].at \in {"send", "drop"} /\ req[r].got /\ Key(r) = k

\* Who found no earlier push still finds none, unless another is under way.
StillNew(r) == Sending(r) /\ ~req[r].got /\ ~req[r].rival => expires[Key(r)] < clock

PushInv ==
    /\ \A k \in Keys : /\ last[k].at <= clock /\ last[k].boot <= boot
                       /\ Remembered(k)
    /\ \A r \in Requests : StillNew(r)
    /\ RepeatPushHasACause

\* A device that is still to be sent to is as it was listed, or is known to have changed.
DeviceInv ==
    /\ \A r \in Requests : \A t \in req[r].left :
           t \in moved[r] \/ device[t] = [user |-> req[r].user, active |-> TRUE]
    /\ StrayPushHasACause

\* The row is what its user was answered, unless writes crossed or failed; so what
\* passes it was not forbidden then.
Spoilt == crossed \cup swallowed
Answered(u) == promised[u] = NoRow \/ promised[u] = prefs[u]
PrefsInv ==
    /\ \A u \in Users \ Spoilt : Answered(u)
    /\ \A r \in Requests :
           /\ req[r].kind = "update" /\ req[r].at = "save" /\ req[r].copy = NoRow =>
                  prefs[req[r].user] = NoRow \/ req[r].user \in crossed
           /\ req[r].at = "insert" /\ req[r].user \notin Spoilt =>
                  promised[req[r].user] = NoRow
           /\ req[r].forbade => req[r].user \in Spoilt
    /\ UnwantedPushHasACause

\* A notice that was logged is found in the log by the next check.
NoticeInv ==
    /\ \A i \in DOMAIN logs : logs[i].at <= clock
    /\ \A u \in Users, v \in Venues :
           /\ told[u][v].at <= clock
           /\ told[u][v].at >= 0 /\ told[u][v].logged =>
                  \E i \in DOMAIN logs : /\ logs[i].user = u /\ logs[i].venue = v
                                         /\ logs[i].at >= told[u][v].at
    /\ \A r \in Requests : req[r].at = "notice" /\ ~req[r].rival =>
           \A i \in DOMAIN logs :
               logs[i].user = req[r].user /\ logs[i].venue = req[r].token
                   => logs[i].at <= clock - Cooldown
    /\ RepeatNoticeHasACause

BaseInv == TypeOK /\ (\A r \in Requests : Shape(req[r])) /\ RivalsKnow

NotifyInv == BaseInv /\ PushInv /\ DeviceInv /\ PrefsInv /\ NoticeInv

\* A request that is not in the middle of a push or a notice.
Outside(q) == q.at \notin {"list", "send", "drop", "notice", "log"}

-------------------------------------------------------------------------------
(* Requests. *)

LEMMA IdleTyped == Idle \in Request /\ Shape(Idle) /\ Outside(Idle) /\ Idle.left = {}
  BY DEF Idle, Request, Steps, Someone, Shape, Outside

LEMMA OutsideHoldsNothing == ASSUME NEW q, Shape(q), Outside(q) PROVE q.left = {}
  BY DEF Shape, Outside

\* What r becomes is written over what it was.
LEMMA Becoming ==
    ASSUME TypeOK, NEW r \in Requests, NEW new \in Request, req' = [req EXCEPT ![r] = new]
    PROVE  /\ req' \in [Requests -> Request] /\ req'[r] = new
           /\ \A q \in Requests \ {r} : req'[q] = req[q]
  BY DEF TypeOK

\* r goes from one step outside to another.
Elsewhere(r) ==
    \E new \in Request : /\ req' = [req EXCEPT ![r] = new]
                         /\ Shape(new) /\ Outside(new) /\ Outside(req[r])

LEMMA ElsewhereKnown ==
    ASSUME TypeOK, NEW r \in Requests, Elsewhere(r)
    PROVE  /\ req' \in [Requests -> Request] /\ Shape(req'[r])
           /\ Outside(req[r]) /\ Outside(req'[r])
           /\ \A q \in Requests \ {r} : req'[q] = req[q]
  BY Becoming DEF Elsewhere

\* A step to another place with some fields of the record changed.
LEMMA Stepping ==
    ASSUME TypeOK, NEW r \in Requests, Shape(req[r])
    PROVE  /\ FindToUpdate(r) => Elsewhere(r)
           /\ FindToRead(r) => Elsewhere(r)
           /\ FindToken(r) => Elsewhere(r)
           /\ CheckLimit(r) => Elsewhere(r)
           /\ SaveUpdate(r) => Elsewhere(r)
           /\ InsertToRead(r) => Elsewhere(r)
           /\ SaveDevice(r) => Elsewhere(r)
           /\ UpdateStart(r) => Elsewhere(r)
           /\ ReadStart(r) => Elsewhere(r)
           /\ RegisterStart(r) => Elsewhere(r)
           /\ AnnounceStart(r) => Elsewhere(r)
           /\ GeofenceStart(r) => Elsewhere(r)
<1>0. req[r] \in Request
  BY DEF TypeOK
<1>1. ASSUME FindToUpdate(r) PROVE Elsewhere(r)
  <2>1. prefs[req[r].user] \in Row \cup {NoRow}
    BY <1>0, <1>1 DEF FindToUpdate, At, Shape, TypeOK
  <2>2. PICK new : new = [req[r] EXCEPT !.at = "save", !.copy = prefs[req[r].user]]
    OBVIOUS
  <2>3. new \in Request
    BY <1>0, <2>1, <2>2 DEF Request, Steps
  <2>4. Shape(new) /\ Outside(new) /\ Outside(req[r])
    BY <1>0, <1>1, <2>2 DEF FindToUpdate, At, Shape, Outside, Request
  <2>. QED
    BY <1>1, <2>2, <2>3, <2>4 DEF FindToUpdate, Elsewhere
<1>2. ASSUME FindToRead(r) \/ CheckLimit(r) PROVE Elsewhere(r)
  <2>1. CASE Finish(r)
    BY <1>2, <2>1, IdleTyped DEF FindToRead, CheckLimit, At, Finish, Elsewhere, Outside
  <2>2. CASE FindToRead(r) /\ Goto(r, "insert")
    <3>1. PICK new : new = [req[r] EXCEPT !.at = "insert"]
      OBVIOUS
    <3>2. new \in Request
      BY <1>0, <3>1 DEF Request, Steps
    <3>3. Shape(new) /\ Outside(new) /\ Outside(req[r])
      BY <1>0, <2>2, <3>1 DEF FindToRead, At, Shape, Outside, Request
    <3>4. req' = [req EXCEPT ![r] = new]
      BY <2>2, <3>1 DEF Goto
    <3>. QED
      BY <3>2, <3>3, <3>4 DEF Elsewhere
  <2>3. CASE CheckLimit(r) /\ Goto(r, "cooldown")
    <3>1. PICK new : new = [req[r] EXCEPT !.at = "cooldown"]
      OBVIOUS
    <3>2. new \in Request
      BY <1>0, <3>1 DEF Request, Steps
    <3>3. Shape(new) /\ Outside(new) /\ Outside(req[r])
      BY <1>0, <2>3, <3>1 DEF CheckLimit, At, Shape, Outside, Request
    <3>4. req' = [req EXCEPT ![r] = new]
      BY <2>3, <3>1 DEF Goto
    <3>. QED
      BY <3>2, <3>3, <3>4 DEF Elsewhere
  <2>. QED
    BY <1>2, <2>1, <2>2, <2>3 DEF FindToRead, CheckLimit
<1>3. ASSUME FindToken(r) PROVE Elsewhere(r)
  <2>1. PICK found \in BOOLEAN : found = (device[req[r].token].user # NoOne)
    OBVIOUS
  <2>2. PICK new : new = [req[r] EXCEPT !.at = "save", !.got = found]
    OBVIOUS
  <2>3. new \in Request
    BY <1>0, <2>2 DEF Request, Steps
  <2>4. Shape(new) /\ Outside(new) /\ Outside(req[r])
    BY <1>0, <1>3, <2>2 DEF FindToken, At, Shape, Outside, Request
  <2>5. req' = [req EXCEPT ![r] = new]
    BY <1>3, <2>1, <2>2 DEF FindToken
  <2>. QED
    BY <2>3, <2>4, <2>5 DEF Elsewhere
<1>4. ASSUME SaveUpdate(r) \/ InsertToRead(r) \/ SaveDevice(r) PROVE Elsewhere(r)
  BY <1>4, IdleTyped DEF SaveUpdate, InsertToRead, SaveDevice, At, Finish, Elsewhere, Outside
<1>5. ASSUME NEW new, Start(r, new), new \in Request, Shape(new), Outside(new)
      PROVE  Elsewhere(r)
  BY <1>5, IdleTyped DEF Start, Elsewhere
<1>6. ASSUME UpdateStart(r) PROVE Elsewhere(r)
  <2>1. PICK u \in Users, d \in Dto :
            Start(r, [Idle EXCEPT !.kind = "update", !.at = "find", !.user = u, !.dto = d])
    BY <1>6 DEF UpdateStart
  <2>2. PICK new : new = [Idle EXCEPT !.kind = "update", !.at = "find", !.user = u, !.dto = d]
    OBVIOUS
  <2>3. new \in Request /\ Shape(new) /\ Outside(new)
    BY <2>2 DEF Idle, Request, Steps, Someone, Shape, Outside
  <2>. QED
    BY <1>5, <2>1, <2>2, <2>3
<1>7. ASSUME ReadStart(r) PROVE Elsewhere(r)
  <2>1. PICK u \in Users :
            Start(r, [Idle EXCEPT !.kind = "read", !.at = "check", !.user = u])
    BY <1>7 DEF ReadStart
  <2>2. PICK new : new = [Idle EXCEPT !.kind = "read", !.at = "check", !.user = u]
    OBVIOUS
  <2>3. new \in Request /\ Shape(new) /\ Outside(new)
    BY <2>2 DEF Idle, Request, Steps, Someone, Shape, Outside
  <2>. QED
    BY <1>5, <2>1, <2>2, <2>3
<1>8. ASSUME RegisterStart(r) PROVE Elsewhere(r)
  <2>1. PICK u \in Users, t \in Tokens :
            Start(r, [Idle EXCEPT !.kind = "register", !.at = "find", !.user = u, !.token = t])
    BY <1>8 DEF RegisterStart
  <2>2. PICK new :
            new = [Idle EXCEPT !.kind = "register", !.at = "find", !.user = u, !.token = t]
    OBVIOUS
  <2>3. new \in Request /\ Shape(new) /\ Outside(new)
    BY <2>2 DEF Idle, Request, Steps, Someone, Shape, Outside
  <2>. QED
    BY <1>5, <2>1, <2>2, <2>3
<1>9. ASSUME AnnounceStart(r) PROVE Elsewhere(r)
  <2>1. PICK k \in Topics, u \in Users, S \in SUBSET Users :
            Start(r, [Idle EXCEPT !.kind = "announce", !.at = "check", !.user = u, !.topic = k,
                                  !.rest = S])
    BY <1>9 DEF AnnounceStart
  <2>2. PICK new :
            new = [Idle EXCEPT !.kind = "announce", !.at = "check", !.user = u, !.topic = k,
                               !.rest = S]
    OBVIOUS
  <2>3. new \in Request /\ Shape(new) /\ Outside(new)
    BY <2>2 DEF Idle, Request, Steps, Someone, Shape, Outside
  <2>. QED
    BY <1>5, <2>1, <2>2, <2>3
<1>10. ASSUME GeofenceStart(r) PROVE Elsewhere(r)
  <2>1. PICK u \in Users, N \in SUBSET Venues :
            Start(r, [Idle EXCEPT !.kind = "geofence", !.at = "limit", !.user = u, !.rest = N])
    BY <1>10 DEF GeofenceStart
  <2>2. PICK new :
            new = [Idle EXCEPT !.kind = "geofence", !.at = "limit", !.user = u, !.rest = N]
    OBVIOUS
  <2>3. Shape(new) /\ Outside(new)
    BY <2>2 DEF Idle, Shape, Outside
  <2>4. PICK near \in (SUBSET Users) \cup (SUBSET Venues) : near = N
    OBVIOUS
  <2>5. new \in Request
    BY <2>2, <2>4 DEF Idle, Request, Steps, Someone
  <2>. QED
    BY <1>5, <2>1, <2>2, <2>3, <2>5
<1>. QED
  BY <1>1, <1>2, <1>3, <1>4, <1>6, <1>7, <1>8, <1>9, <1>10

\* Another request of a step: it may learn that it has a rival.
Apart(q) ==
    /\ req'[q].kind = req[q].kind /\ req'[q].at = req[q].at /\ req'[q].user = req[q].user
    /\ req'[q].topic = req[q].topic /\ req'[q].token = req[q].token
    /\ req'[q].left = req[q].left /\ req'[q].got = req[q].got
    /\ req'[q].copy = req[q].copy
    /\ req'[q].forbade = req[q].forbade
    /\ req[q].rival => req'[q].rival

\* r is done with a user.
Ends(r) ==
    \E new \in Request : /\ req' = [req EXCEPT ![r] = new]
                         /\ Shape(new) /\ new.at \in {"idle", "check"}

\* The loops of sendToUsers and sendToUser.
LEMMA NextUserKnown ==
    ASSUME TypeOK, NEW r \in Requests, Shape(req[r]), req[r].kind = "announce", NextUser(r)
    PROVE  Ends(r)
<1>0. req[r] \in Request
  BY DEF TypeOK
<1>1. CASE req[r].rest = {}
  BY <1>1, IdleTyped DEF NextUser, Finish, Ends, Idle
<1>2. CASE req[r].rest # {}
  <2>1. PICK u \in req[r].rest :
            req' = [req EXCEPT ![r] = [Idle EXCEPT
                       !.kind = "announce", !.at = "check", !.user = u,
                       !.topic = req[r].topic, !.rest = req[r].rest \ {u}]]
    BY <1>2 DEF NextUser
  <2>2. PICK S \in SUBSET Users, k \in Topics :
            S = req[r].rest \ {u} /\ k = req[r].topic /\ u \in Users
    BY <2>1 DEF Shape
  <2>3. PICK new : new = [Idle EXCEPT !.kind = "announce", !.at = "check", !.user = u,
                                      !.topic = k, !.rest = S]
    OBVIOUS
  <2>4. new = [kind |-> "announce", at |-> "check", user |-> u, topic |-> k, token |-> NoOne,
               rest |-> S, left |-> {}, got |-> FALSE, rival |-> FALSE, forbade |-> FALSE,
               copy |-> NoRow, dto |-> NoRow]
    BY <2>3 DEF Idle
  <2>5. new \in Request
    <3>1. S \in (SUBSET Users) \cup (SUBSET Venues)
      OBVIOUS
    <3>2. "check" \in Steps /\ u \in Someone
      BY <2>2 DEF Steps, Someone
    <3>. QED
      BY <2>4, <3>1, <3>2 DEF Request
  <2>6. Shape(new) /\ new.at = "check"
    BY <2>2, <2>4 DEF Shape
  <2>. QED
    BY <2>1, <2>2, <2>3, <2>5, <2>6 DEF Ends
<1>. QED
  BY <1>1, <1>2

\* r is at another device of the same push.
SendsOn(r, T, got) ==
    \E new \in Request :
        /\ req' = [req EXCEPT ![r] = new] /\ Shape(new)
        /\ new.at = "send" /\ new.left = T /\ new.got = got
        /\ new.user = req[r].user /\ new.topic = req[r].topic /\ new.rival = req[r].rival
        /\ new.forbade = req[r].forbade

LEMMA AfterDeviceKnown ==
    ASSUME TypeOK, NEW r \in Requests, Shape(req[r]), req[r].kind = "announce",
           req[r].at \in {"send", "drop"}, NEW t \in req[r].left, NEW got \in BOOLEAN,
           AfterDevice(r, t, got)
    PROVE  \/ Ends(r) /\ expires' = [expires EXCEPT ![Key(r)] = clock + DedupeWindow]
           \/ SendsOn(r, req[r].left \ {t}, got) /\ expires' = expires
<1>0. req[r] \in Request
  BY DEF TypeOK
<1>1. CASE req[r].left = {t}
  BY <1>1, NextUserKnown DEF AfterDevice
<1>2. CASE req[r].left # {t}
  <2>1. PICK new : new = [req[r] EXCEPT !.at = "send", !.left = @ \ {t}, !.got = got]
    OBVIOUS
  <2>2. new \in Request
    BY <1>0, <2>1 DEF Request, Steps
  <2>3. /\ Shape(new) /\ new.at = "send" /\ new.left = req[r].left \ {t} /\ new.got = got
        /\ new.user = req[r].user /\ new.topic = req[r].topic /\ new.rival = req[r].rival
        /\ new.forbade = req[r].forbade
    BY <1>0, <2>1 DEF Shape, Request
  <2>4. req' = [req EXCEPT ![r] = new] /\ expires' = expires
    BY <1>2, <2>1 DEF AfterDevice
  <2>. QED
    BY <2>2, <2>3, <2>4 DEF SendsOn
<1>. QED
  BY <1>1, <1>2

\* What r becomes, at the steps of a push.
LEMMA EndsKnown ==
    ASSUME TypeOK, NEW r \in Requests, Ends(r)
    PROVE  /\ req' \in [Requests -> Request] /\ Shape(req'[r]) /\ Outside(req'[r])
           /\ req'[r].at \in {"idle", "check"} /\ req'[r].left = {} /\ ~req'[r].forbade
           /\ \A q \in Requests \ {r} : req'[q] = req[q] /\ Apart(q)
<1>1. /\ req' \in [Requests -> Request] /\ Shape(req'[r]) /\ req'[r].at \in {"idle", "check"}
      /\ \A q \in Requests \ {r} : req'[q] = req[q]
  BY Becoming DEF Ends
<1>2. ~req'[r].forbade
  BY <1>1 DEF Shape
<1>. QED
  BY <1>1, <1>2, OutsideHoldsNothing DEF Outside, Apart

LEMMA SendsOnKnown ==
    ASSUME TypeOK, NEW r \in Requests, NEW T, NEW got, SendsOn(r, T, got)
    PROVE  /\ req' \in [Requests -> Request] /\ Shape(req'[r])
           /\ req'[r].at = "send" /\ req'[r].left = T /\ req'[r].got = got
           /\ req'[r].user = req[r].user /\ req'[r].rival = req[r].rival
           /\ req'[r].forbade = req[r].forbade /\ Key(r)' = Key(r)
           /\ \A q \in Requests \ {r} : req'[q] = req[q] /\ Apart(q)
  BY Becoming DEF SendsOn, Key, Apart

LEMMA KeyTyped ==
    ASSUME TypeOK, NEW r \in Requests, Shape(req[r]), req[r].kind = "announce" \/ Sending(r)
    PROVE  req[r].kind = "announce" /\ Key(r) \in Keys /\ req[r].user \in Users
           /\ req[r].topic \in Topics
<1>1. req[r].kind = "announce"
  BY DEF TypeOK, Request, Shape, Sending, Idle
<1>2. req[r].user \in Users /\ req[r].topic \in Topics
  BY <1>1 DEF Shape
<1>. QED
  BY <1>1, <1>2 DEF Key, Keys

LEMMA RivalsKept ==
    ASSUME RivalsKnow, NEW r \in Requests, \A q \in Requests \ {r} : req'[q] = req[q],
           Sending(r)' => Sending(r) /\ Key(r)' = Key(r) /\ req'[r].rival = req[r].rival,
           Noticing(r)' => /\ Noticing(r) /\ NoticeOf(r)' = NoticeOf(r)
                           /\ req'[r].rival = req[r].rival
    PROVE  RivalsKnow'
  BY DEF RivalsKnow, Sending, Noticing, Key, NoticeOf

\* What a step in the middle of a push to k does to the memory of pushes.
LEMMA PushKept ==
    ASSUME NotifyAssumption, BaseInv, PushInv, NEW r \in Requests, Sending(r), UNCHANGED <<clock, boot>>,
           \A q \in Requests \ {r} : req'[q] = req[q],
           \/ last' = last
           \/ last' = [last EXCEPT ![Key(r)] = [at |-> clock, boot |-> boot, broken |-> FALSE]]
           \/ last' = [last EXCEPT ![Key(r)] = [@ EXCEPT !.broken = TRUE]],
           \/ expires' = expires
           \/ /\ expires' = [expires EXCEPT ![Key(r)] = clock + DedupeWindow]
              /\ ~Sending(r)',
           (last' # last \/ (req[r].at \in {"send", "drop"} /\ req[r].got)) =>
               \/ expires' = [expires EXCEPT ![Key(r)] = clock + DedupeWindow]
               \/ last' = [last EXCEPT ![Key(r)] = [@ EXCEPT !.broken = TRUE]]
               \/ req'[r].at \in {"send", "drop"} /\ req'[r].got,
           Sending(r)' => /\ Key(r)' = Key(r) /\ (req[r].got => req'[r].got)
                          /\ req'[r].rival = req[r].rival,
           RepeatPushHasACause'
    PROVE  PushInv'
<1>. TypeOK /\ RivalsKnow /\ \A q \in Requests : Shape(req[q])
  BY DEF BaseInv
<1>. PICK k \in Keys : k = Key(r)
  BY KeyTyped
<1>0. /\ clock \in Nat /\ boot \in Nat /\ DedupeWindow \in Nat
      /\ \A j \in Keys : /\ expires[j] \in Int
                         /\ last[j] \in [at : -1 .. Horizon, boot : 0 .. MaxBoots, broken : BOOLEAN]
      /\ expires \in [Keys -> -1 .. Horizon + DedupeWindow]
      /\ last \in [Keys -> [at : -1 .. Horizon, boot : 0 .. MaxBoots, broken : BOOLEAN]]
  <2>1. DedupeWindow \in Nat /\ Horizon \in Nat
    BY DEF NotifyAssumption
  <2>2. clock \in Nat /\ boot \in Nat
    BY DEF TypeOK
  <2>3. /\ expires \in [Keys -> -1 .. Horizon + DedupeWindow]
        /\ last \in [Keys -> [at : -1 .. Horizon, boot : 0 .. MaxBoots, broken : BOOLEAN]]
    BY DEF TypeOK
  <2>4. \A j \in Keys :
            last[j] \in [at : -1 .. Horizon, boot : 0 .. MaxBoots, broken : BOOLEAN]
    BY <2>3
  <2>5. \A j \in Keys : expires[j] \in Int
    BY <2>1, <2>3
  <2>. QED
    BY <2>1, <2>2, <2>3, <2>4, <2>5
<1>1. \A j \in Keys \ {k} : last'[j] = last[j] /\ expires'[j] = expires[j]
  BY <1>0
<1>2. /\ expires'[k] = expires[k] \/ expires'[k] = clock + DedupeWindow
      /\ \/ last'[k] = last[k]
         \/ last'[k] = [at |-> clock, boot |-> boot, broken |-> FALSE]
         \/ last'[k] = [last[k] EXCEPT !.broken = TRUE]
      /\ last' # last => last'[k] # last[k]
  <2>1. expires' = expires \/ expires' = [expires EXCEPT ![k] = clock + DedupeWindow]
    OBVIOUS
  <2>2. \/ last' = last
        \/ last' = [last EXCEPT ![k] = [at |-> clock, boot |-> boot, broken |-> FALSE]]
        \/ last' = [last EXCEPT ![k] = [last[k] EXCEPT !.broken = TRUE]]
    BY <1>0
  <2>3. expires'[k] = expires[k] \/ expires'[k] = clock + DedupeWindow
    BY <1>0, <2>1
  <2>4. \/ last' = last
        \/ \E x : /\ last' = [last EXCEPT ![k] = x]
                  /\ \/ x = [at |-> clock, boot |-> boot, broken |-> FALSE]
                     \/ x = [last[k] EXCEPT !.broken = TRUE]
    BY <2>2
  <2>5. CASE last' = last
    BY <2>3, <2>5
  <2>6. ASSUME NEW x, last' = [last EXCEPT ![k] = x],
               \/ x = [at |-> clock, boot |-> boot, broken |-> FALSE]
               \/ x = [last[k] EXCEPT !.broken = TRUE]
        PROVE  /\ last'[k] = x
               /\ last' # last => x # last[k]
    BY <1>0, <2>6
  <2>. QED
    BY <2>3, <2>4, <2>5, <2>6
<1>3. ASSUME NEW j \in Keys PROVE last'[j].at <= clock /\ last'[j].boot <= boot
  <2>1. last[j].at <= clock /\ last[j].boot <= boot
    BY DEF PushInv
  <2>2. [last[k] EXCEPT !.broken = TRUE].at = last[k].at
        /\ [last[k] EXCEPT !.broken = TRUE].boot = last[k].boot
    BY <1>0
  <2>3. CASE j # k
    BY <1>1, <2>1, <2>3
  <2>4. CASE j = k
    BY <1>0, <1>2, <2>1, <2>2, <2>4
  <2>. QED
    BY <2>3, <2>4
<1>4. ASSUME NEW j \in Keys PROVE Remembered(j)'
  <2>1. CASE j # k
    <3>1. \A q \in Requests : Key(q) = j /\ req[q].at \in {"send", "drop"} => q # r
      BY <2>1
    <3>2. \A q \in Requests \ {r} : Key(q)' = Key(q)
      BY DEF Key
    <3>. QED
      BY <1>1, <2>1, <3>1, <3>2 DEF PushInv, Remembered
  <2>2. CASE j = k
    <3>1. CASE expires' = [expires EXCEPT ![k] = clock + DedupeWindow]
      <4>1. expires'[k] = clock + DedupeWindow
        BY <1>0, <3>1
      <4>2. last'[k].at <= clock /\ last'[k].at \in Int
        BY <1>0, <1>2, <1>3
      <4>. QED
        BY <1>0, <2>2, <4>1, <4>2 DEF Remembered
    <3>2. CASE last' = [last EXCEPT ![k] = [@ EXCEPT !.broken = TRUE]]
      <4>1. last'[k].broken
        BY <1>0, <3>2
      <4>. QED
        BY <2>2, <4>1 DEF Remembered
    <3>3. CASE req'[r].at \in {"send", "drop"} /\ req'[r].got
      <4>1. Key(r)' = k
        BY <3>3 DEF Sending
      <4>. QED
        BY <2>2, <3>3, <4>1 DEF Remembered
    <3>4. CASE ~(last' # last \/ (req[r].at \in {"send", "drop"} /\ req[r].got))
               /\ expires' = expires
      <4>1. Remembered(k) /\ last' = last
        BY <3>4 DEF PushInv
      <4>2. \A q \in Requests \ {r} : Key(q)' = Key(q)
        BY DEF Key
      <4>. QED
        BY <2>2, <3>4, <4>1, <4>2 DEF Remembered
    <3>. QED
      BY <3>1, <3>2, <3>3, <3>4
  <2>. QED
    BY <2>1, <2>2
<1>5. ASSUME NEW q \in Requests PROVE StillNew(q)'
  <2>1. CASE q = r
    BY <2>1 DEF PushInv, StillNew, Sending
  <2>2. CASE q # r
    <3>1. req'[q] = req[q] /\ Key(q)' = Key(q)
      BY <2>2 DEF Key
    <3>. SUFFICES ASSUME Sending(q), ~req[q].got, ~req[q].rival
                  PROVE  expires'[Key(q)] < clock
      BY <3>1 DEF StillNew, Sending
    <3>2. expires[Key(q)] < clock
      BY DEF PushInv, StillNew
    <3>3. Key(q) # k
      BY <2>2 DEF RivalsKnow
    <3>4. expires'[Key(q)] = expires[Key(q)]
      BY <1>1, <3>3, KeyTyped
    <3>. QED
      BY <3>2, <3>4
  <2>. QED
    BY <2>1, <2>2
<1>. QED
  BY <1>3, <1>4, <1>5 DEF PushInv

-------------------------------------------------------------------------------
(* What keeps each part. *)

LEMMA DevicesKept ==
    ASSUME DeviceInv, NEW r \in Requests, \A q \in Requests \ {r} : Apart(q),
           device' = device, strays' = strays \/ StrayPushHasACause',
           \A q \in Requests \ {r} : moved'[q] = moved[q],
           \/ req'[r].left = {}
           \/ /\ req'[r].user = req[r].user
              /\ \A t \in req'[r].left : t \in req[r].left /\ (t \in moved[r] => t \in moved'[r])
    PROVE  DeviceInv'
<1>1. ASSUME NEW q \in Requests, NEW t \in req'[q].left
      PROVE  t \in moved'[q] \/ device'[t] = [user |-> req'[q].user, active |-> TRUE]
  <2>1. CASE q # r
    BY <1>1, <2>1 DEF DeviceInv, Apart
  <2>2. CASE q = r
    BY <1>1, <2>2 DEF DeviceInv
  <2>. QED
    BY <2>1, <2>2
<1>. QED
  BY <1>1 DEF DeviceInv, StrayPushHasACause

LEMMA PrefsKept ==
    ASSUME PrefsInv, NEW r \in Requests, \A q \in Requests \ {r} : Apart(q),
           UNCHANGED <<prefs, prefHistory>>, unwanted' = unwanted \/ UnwantedPushHasACause',
           req'[r].kind = "update" /\ req'[r].at = "save" /\ req'[r].copy = NoRow =>
               prefs[req'[r].user] = NoRow,
           req'[r].at = "insert" /\ req'[r].user \notin Spoilt =>
               promised[req'[r].user] = NoRow,
           req'[r].forbade => req'[r].user \in Spoilt
    PROVE  PrefsInv'
<1>1. UNCHANGED <<prefs, promised, crossed, swallowed>> /\ Spoilt' = Spoilt
  BY DEF prefHistory, Spoilt
<1>2. \A u \in Users \ Spoilt : Answered(u)'
  BY <1>1 DEF PrefsInv, Answered
<1>3. ASSUME NEW q \in Requests
      PROVE  /\ req'[q].kind = "update" /\ req'[q].at = "save" /\ req'[q].copy = NoRow =>
                    prefs[req'[q].user] = NoRow \/ req'[q].user \in crossed
             /\ req'[q].at = "insert" /\ req'[q].user \notin Spoilt =>
                    promised[req'[q].user] = NoRow
             /\ req'[q].forbade => req'[q].user \in Spoilt
  <2>1. CASE q # r
    BY <2>1 DEF PrefsInv, Apart
  <2>2. CASE q = r
    BY <2>2
  <2>. QED
    BY <2>1, <2>2
<1>4. UnwantedPushHasACause'
  BY <1>1 DEF PrefsInv, UnwantedPushHasACause
<1>. QED
  BY <1>1, <1>2, <1>3, <1>4 DEF PrefsInv

LEMMA NoticesKept ==
    ASSUME NoticeInv, NEW r \in Requests, \A q \in Requests \ {r} : Apart(q),
           UNCHANGED <<clock, logs, told, retold>>,
           req'[r].at # "notice" \/ req'[r].rival
    PROVE  NoticeInv'
<1>1. ASSUME NEW q \in Requests, req'[q].at = "notice", ~req'[q].rival
      PROVE  \A i \in DOMAIN logs : logs[i].user = req'[q].user /\ logs[i].venue = req'[q].token
                                        => logs[i].at <= clock - Cooldown
  <2>1. q # r
    BY <1>1
  <2>. QED
    BY <1>1, <2>1 DEF NoticeInv, Apart
<1>. QED
  BY <1>1 DEF NoticeInv, RepeatNoticeHasACause

LEMMA PushAside ==
    ASSUME PushInv, NEW r \in Requests, ~Sending(r), ~Sending(r)',
           \A q \in Requests \ {r} : Apart(q),
           UNCHANGED <<clock, boot, expires, last, repeats>>
    PROVE  PushInv'
<1>1. ASSUME NEW k \in Keys PROVE Remembered(k)'
  <2>1. \A q \in Requests : req[q].at \in {"send", "drop"} /\ Key(q) = k =>
            req'[q].at = req[q].at /\ req'[q].got = req[q].got /\ Key(q)' = k
    BY DEF Sending, Apart, Key
  <2>. QED
    BY <2>1 DEF PushInv, Remembered
<1>2. ASSUME NEW q \in Requests PROVE StillNew(q)'
  <2>1. CASE q = r
    BY <2>1 DEF StillNew
  <2>2. CASE q # r
    BY <2>2 DEF PushInv, StillNew, Sending, Apart, Key
  <2>. QED
    BY <2>1, <2>2
<1>. QED
  BY <1>1, <1>2 DEF PushInv, RepeatPushHasACause

\* A step of a request outside leaves pushes and notices alone.
LEMMA ElsewhereKeeps ==
    ASSUME NotifyInv, NEW r \in Requests, Elsewhere(r),
           UNCHANGED <<clock, boot, expires, last, repeats, logs, told, retold>>
    PROVE  /\ req' \in [Requests -> Request] /\ (\A q \in Requests : Shape(req[q]))'
           /\ \A q \in Requests \ {r} : req'[q] = req[q] /\ Apart(q)
           /\ RivalsKnow' /\ PushInv' /\ NoticeInv' /\ req'[r].left = {}
<1>0. TypeOK /\ RivalsKnow /\ PushInv /\ NoticeInv /\ \A q \in Requests : Shape(req[q])
  BY DEF NotifyInv, BaseInv
<1>1. /\ req' \in [Requests -> Request] /\ Shape(req'[r])
      /\ Outside(req[r]) /\ Outside(req'[r])
      /\ \A q \in Requests \ {r} : req'[q] = req[q]
  BY <1>0, ElsewhereKnown
<1>2. (\A q \in Requests : Shape(req[q]))'
  BY <1>0, <1>1
<1>3. \A q \in Requests \ {r} : Apart(q)
  BY <1>1 DEF Apart
<1>4. RivalsKnow'
  BY <1>0, <1>1, RivalsKept DEF Outside, Sending, Noticing
<1>5. NoticeInv'
  BY <1>0, <1>1, <1>3, NoticesKept DEF Outside
<1>6. PushInv'
  BY <1>0, <1>1, <1>3, PushAside DEF Outside, Sending
<1>. QED
  BY <1>1, <1>2, <1>3, <1>4, <1>5, <1>6, OutsideHoldsNothing

\* The tables and histories keep their types when they stay.
LEMMA TypeKept ==
    ASSUME TypeOK, req' \in [Requests -> Request],
           UNCHANGED <<clock, boot, tables, expires, pushHistory, prefHistory, geoHistory>>
    PROVE  TypeOK'
  BY DEF TypeOK, tables, pushHistory, prefHistory, geoHistory

-------------------------------------------------------------------------------
(* One lemma per group of steps. *)

LEMMA StartKnown ==
    ASSUME TypeOK, NEW r \in Requests, NEW new, Start(r, new)
    PROVE  req'[r] = new
  BY DEF Start, TypeOK

\* Steps that read, or begin.
LEMMA ReadingKeeps ==
    ASSUME NotifyInv, NEW r \in Requests,
           \/ FindToUpdate(r) \/ FindToRead(r) \/ FindToken(r) \/ CheckLimit(r)
           \/ UpdateStart(r) \/ ReadStart(r) \/ RegisterStart(r) \/ AnnounceStart(r)
           \/ GeofenceStart(r)
    PROVE  NotifyInv'
<1>. DEFINE Begun == \/ UpdateStart(r) \/ ReadStart(r) \/ RegisterStart(r)
                     \/ AnnounceStart(r) \/ GeofenceStart(r)
<1>0. TypeOK /\ RivalsKnow /\ Shape(req[r]) /\ PushInv /\ DeviceInv /\ PrefsInv /\ NoticeInv
  BY DEF NotifyInv, BaseInv
<1>1. UNCHANGED <<clock, boot, tables, expires, pushHistory, prefHistory, geoHistory>>
  BY DEF FindToUpdate, FindToRead, FindToken, CheckLimit, UpdateStart, ReadStart,
         RegisterStart, AnnounceStart, GeofenceStart, Start
<1>2. /\ UNCHANGED <<clock, boot, expires, last, repeats, logs, told, retold>>
      /\ UNCHANGED <<prefs, device, strays, moved, unwanted>>
  BY <1>1 DEF tables, pushHistory, geoHistory
<1>3. Elsewhere(r)
  BY <1>0, Stepping
<1>4. /\ req' \in [Requests -> Request] /\ (\A q \in Requests : Shape(req[q]))'
      /\ \A q \in Requests \ {r} : req'[q] = req[q] /\ Apart(q)
      /\ RivalsKnow' /\ PushInv' /\ NoticeInv' /\ req'[r].left = {}
  BY <1>2, <1>3, ElsewhereKeeps
<1>5. TypeOK'
  BY <1>0, <1>1, <1>4, TypeKept
<1>6. DeviceInv'
  BY <1>0, <1>2, <1>4, DevicesKept
<1>7. /\ req'[r].kind = "update" /\ req'[r].at = "save" /\ req'[r].copy = NoRow =>
             prefs[req'[r].user] = NoRow
      /\ req'[r].at = "insert" /\ req'[r].user \notin Spoilt =>
             promised[req'[r].user] = NoRow
  <2>. req \in [Requests -> Request] /\ req[r] \in Request
    BY <1>0 DEF TypeOK
  <2>1. CASE FindToUpdate(r)
    BY <2>1 DEF FindToUpdate, At, Request
  <2>2. CASE FindToRead(r)
    <3>1. CASE Finish(r)
      BY <3>1 DEF Finish, Idle
    <3>2. CASE prefs[req[r].user] = NoRow /\ Goto(r, "insert")
      <4>1. req[r].user \in Users
        BY <1>0, <2>2 DEF FindToRead, At, Shape
      <4>2. req'[r].user = req[r].user /\ req'[r].at = "insert"
        BY <3>2 DEF Goto, Request
      <4>. QED
        BY <1>0, <3>2, <4>1, <4>2 DEF PrefsInv, Answered
    <3>. QED
      BY <2>2, <3>1, <3>2 DEF FindToRead
  <2>3. CASE FindToken(r)
    BY <2>3 DEF FindToken, At, Request
  <2>4. CASE CheckLimit(r)
    BY <2>4 DEF CheckLimit, At, Finish, Goto, Idle, Request
  <2>5. CASE Begun
    <3>1. ASSUME UpdateStart(r) PROVE req'[r].at = "find"
      <4>1. PICK u \in Users, d \in Dto :
                Start(r, [Idle EXCEPT !.kind = "update", !.at = "find", !.user = u, !.dto = d])
        BY <3>1 DEF UpdateStart
      <4>2. PICK new : new = [Idle EXCEPT !.kind = "update", !.at = "find", !.user = u, !.dto = d]
        OBVIOUS
      <4>3. req'[r] = new
        BY <1>0, <4>1, <4>2, StartKnown
      <4>4. new.at = "find"
        BY <4>2 DEF Idle
      <4>. QED
        BY <4>3, <4>4
    <3>2. ASSUME ReadStart(r) PROVE req'[r].at = "check"
      <4>1. PICK u \in Users :
                Start(r, [Idle EXCEPT !.kind = "read", !.at = "check", !.user = u])
        BY <3>2 DEF ReadStart
      <4>2. PICK new : new = [Idle EXCEPT !.kind = "read", !.at = "check", !.user = u]
        OBVIOUS
      <4>3. req'[r] = new
        BY <1>0, <4>1, <4>2, StartKnown
      <4>4. new.at = "check"
        BY <4>2 DEF Idle
      <4>. QED
        BY <4>3, <4>4
    <3>3. ASSUME RegisterStart(r) PROVE req'[r].at = "find"
      <4>1. PICK u \in Users, t \in Tokens :
                Start(r, [Idle EXCEPT !.kind = "register", !.at = "find", !.user = u, !.token = t])
        BY <3>3 DEF RegisterStart
      <4>2. PICK new : new = [Idle EXCEPT !.kind = "register", !.at = "find", !.user = u,
                                        !.token = t]
        OBVIOUS
      <4>3. req'[r] = new
        BY <1>0, <4>1, <4>2, StartKnown
      <4>4. new.at = "find"
        BY <4>2 DEF Idle
      <4>. QED
        BY <4>3, <4>4
    <3>4. ASSUME AnnounceStart(r) PROVE req'[r].at = "check"
      <4>1. PICK k \in Topics, u \in Users, S \in SUBSET Users :
                Start(r, [Idle EXCEPT !.kind = "announce", !.at = "check", !.user = u,
                                      !.topic = k, !.rest = S])
        BY <3>4 DEF AnnounceStart
      <4>2. PICK new : new = [Idle EXCEPT !.kind = "announce", !.at = "check", !.user = u,
                                        !.topic = k, !.rest = S]
        OBVIOUS
      <4>3. req'[r] = new
        BY <1>0, <4>1, <4>2, StartKnown
      <4>4. new.at = "check"
        BY <4>2 DEF Idle
      <4>. QED
        BY <4>3, <4>4
    <3>5. ASSUME GeofenceStart(r) PROVE req'[r].at = "limit"
      <4>1. PICK u \in Users, N \in SUBSET Venues :
                Start(r, [Idle EXCEPT !.kind = "geofence", !.at = "limit", !.user = u, !.rest = N])
        BY <3>5 DEF GeofenceStart
      <4>2. PICK new : new = [Idle EXCEPT !.kind = "geofence", !.at = "limit", !.user = u,
                                        !.rest = N]
        OBVIOUS
      <4>3. req'[r] = new
        BY <1>0, <4>1, <4>2, StartKnown
      <4>4. new.at = "limit"
        BY <4>2 DEF Idle
      <4>. QED
        BY <4>3, <4>4
    <3>. QED
      BY <2>5, <3>1, <3>2, <3>3, <3>4, <3>5
  <2>. QED
    BY <2>1, <2>2, <2>3, <2>4, <2>5
<1>8. ~req'[r].forbade
  BY <1>3, <1>4, ElsewhereKnown, <1>0 DEF Shape, Outside
<1>9. PrefsInv'
  BY <1>0, <1>1, <1>2, <1>4, <1>7, <1>8, PrefsKept
<1>. QED
  BY <1>4, <1>5, <1>6, <1>9 DEF NotifyInv, BaseInv

\* The row a body makes of the row that was read.
LEMMA MergedTyped ==
    ASSUME TypeOK, NEW r \in Requests, req[r].dto \in Dto
    PROVE  Merged(r) \in Row
<1>. PICK old \in Row : old = IF req[r].copy = NoRow THEN Defaults ELSE req[r].copy
  <2>1. Defaults \in Row
    BY DEF Defaults, Row
  <2>2. req[r].copy \in Row \cup {NoRow}
    BY DEF TypeOK, Request
  <2>. QED
    BY <2>1, <2>2
<1>1. CASE req[r].dto.field = "muted"
  BY <1>1 DEF Merged, Row, Dto
<1>2. CASE req[r].dto.field # "muted"
  BY <1>2 DEF Merged, Row, Dto
<1>. QED
  BY <1>1, <1>2

LEMMA InsertsFor ==
    ASSUME NotifyInv, NEW r \in Requests, req[r].at = "insert"
    PROVE  req[r].kind \in {"read", "announce"} /\ req[r].user \in Users
<1>1. Shape(req[r])
  BY DEF NotifyInv, BaseInv
<1>2. req[r].kind \in {"none", "update", "read", "register", "announce", "geofence"}
  BY DEF NotifyInv, BaseInv, TypeOK, Request
<1>3. req[r].kind # "none"
  BY <1>1 DEF Shape, Idle
<1>. QED
  BY <1>1, <1>2, <1>3 DEF Shape

\* getPreferences' insert: no preference that was answered is lost unnoticed.
LEMMA InsertKnown ==
    ASSUME NotifyInv, NEW r \in Requests, req[r].user \in Users, req[r].at = "insert",
           InsertDefaults(r)
    PROVE  /\ prefs' \in [Users -> Row \cup {NoRow}] /\ UNCHANGED <<promised, swallowed>>
           /\ crossed \subseteq crossed' /\ crossed' \subseteq Users
           /\ \A u \in Users \ Spoilt' : Answered(u)'
           /\ \A q \in Requests \ {r} :
                  req[q].kind = "update" /\ req[q].at = "save" /\ req[q].copy = NoRow =>
                      prefs'[req[q].user] = NoRow \/ req[q].user \in crossed'
           /\ \A q \in Requests \ {r} :
                  req[q].at = "insert" /\ req[q].user \notin Spoilt' =>
                      promised'[req[q].user] = NoRow
<1>. PICK u \in Users : u = req[r].user
  OBVIOUS
<1>0. PrefsInv /\ prefs \in [Users -> Row \cup {NoRow}] /\ crossed \subseteq Users
      /\ Defaults \in Row
  BY DEF NotifyInv, BaseInv, TypeOK, Defaults, Row
<1>1. /\ \/ /\ prefs[u] = NoRow /\ prefs' = [prefs EXCEPT ![u] = Defaults]
            /\ crossed' = crossed \cup Crossing(r)
         \/ UNCHANGED <<prefs, crossed>>
      /\ UNCHANGED <<promised, swallowed>>
  BY DEF InsertDefaults
<1>2. /\ prefs' \in [Users -> Row \cup {NoRow}]
      /\ \A v \in Users \ {u} : prefs'[v] = prefs[v]
      /\ prefs'[u] # prefs[u] => prefs[u] = NoRow
  BY <1>0, <1>1
<1>3. crossed \subseteq crossed' /\ crossed' \subseteq Users /\ Spoilt \subseteq Spoilt'
  BY <1>0, <1>1 DEF Crossing, Spoilt
<1>4. ASSUME NEW v \in Users \ Spoilt' PROVE Answered(v)'
  <2>1. v \notin Spoilt
    BY <1>3
  <2>2. CASE v # u
    BY <1>0, <1>1, <1>2, <2>1, <2>2 DEF PrefsInv, Answered
  <2>3. CASE v = u
    <3>1. promised[u] = NoRow
      BY <1>0, <2>1, <2>3 DEF PrefsInv
    <3>. QED
      BY <1>1, <2>3, <3>1 DEF Answered
  <2>. QED
    BY <2>2, <2>3
<1>5. ASSUME NEW q \in Requests \ {r}, req[q].kind = "update", req[q].at = "save",
             req[q].copy = NoRow
      PROVE  prefs'[req[q].user] = NoRow \/ req[q].user \in crossed'
  <2>1. CASE req[q].user = u /\ crossed' = crossed \cup Crossing(r)
    <3>1. u \in Crossing(r)
      BY <1>5, <2>1 DEF Crossing
    <3>. QED
      BY <2>1, <3>1
  <2>3. CASE UNCHANGED <<prefs, crossed>>
    BY <1>0, <1>5, <2>3 DEF PrefsInv
  <2>2. CASE req[q].user # u
    <3>1. prefs[req[q].user] = NoRow \/ req[q].user \in crossed
      BY <1>0, <1>5 DEF PrefsInv
    <3>2. req[q].user \in Users
      BY <1>5 DEF NotifyInv, BaseInv, Shape
    <3>. QED
      BY <1>2, <1>3, <2>2, <3>1, <3>2
  <2>. QED
    BY <1>1, <2>1, <2>2, <2>3
<1>. QED
  BY <1>0, <1>1, <1>2, <1>3, <1>4, <1>5 DEF PrefsInv

\* Writes of preferences.
LEMMA WritingKeeps ==
    ASSUME NotifyInv, NEW r \in Requests, SaveUpdate(r) \/ InsertToRead(r)
    PROVE  NotifyInv'
<1>0. TypeOK /\ RivalsKnow /\ Shape(req[r]) /\ PushInv /\ DeviceInv /\ PrefsInv /\ NoticeInv
      /\ prefs \in [Users -> Row \cup {NoRow}] /\ promised \in [Users -> Row \cup {NoRow}]
      /\ crossed \subseteq Users /\ swallowed \subseteq Users
  BY DEF NotifyInv, BaseInv, TypeOK
<1>1. UNCHANGED <<clock, boot, device, logs, expires, pushHistory, geoHistory>>
  BY DEF SaveUpdate, InsertToRead
<1>2. /\ UNCHANGED <<clock, boot, expires, last, repeats, logs, told, retold>>
      /\ UNCHANGED <<device, strays, moved, unwanted>>
  BY <1>1 DEF pushHistory, geoHistory
<1>3. Elsewhere(r)
  BY <1>0, Stepping
<1>4. /\ req' \in [Requests -> Request] /\ (\A q \in Requests : Shape(req[q]))'
      /\ \A q \in Requests \ {r} : req'[q] = req[q] /\ Apart(q)
      /\ RivalsKnow' /\ PushInv' /\ NoticeInv' /\ req'[r].left = {}
  BY <1>2, <1>3, ElsewhereKeeps
<1>5. DeviceInv'
  BY <1>0, <1>2, <1>4, DevicesKept
<1>6. req'[r].at = "idle"
  BY <1>0 DEF SaveUpdate, InsertToRead, Finish, Idle, TypeOK
<1>7. PICK u \in Users : u = req[r].user
  BY <1>0 DEF SaveUpdate, InsertToRead, At, Shape
<1>8. /\ prefs' \in [Users -> Row \cup {NoRow}] /\ promised' \in [Users -> Row \cup {NoRow}]
      /\ crossed \subseteq crossed' /\ crossed' \subseteq Users
      /\ swallowed \subseteq swallowed' /\ swallowed' \subseteq Users
      /\ \A v \in Users \ Spoilt' : Answered(v)'
      /\ \A q \in Requests \ {r} :
             /\ req[q].kind = "update" /\ req[q].at = "save" /\ req[q].copy = NoRow =>
                    prefs'[req[q].user] = NoRow \/ req[q].user \in crossed'
             /\ req[q].at = "insert" /\ req[q].user \notin Spoilt' =>
                    promised'[req[q].user] = NoRow
  <2>1. CASE InsertToRead(r)
    BY <1>0, <1>7, <2>1, InsertKnown DEF InsertToRead, At
  <2>2. CASE SaveUpdate(r)
    <3>1. PICK row \in Row : row = Merged(r)
      <4>1. req[r].dto \in Dto
        BY <1>0, <2>2 DEF SaveUpdate, At, Shape
      <4>. QED
        BY <1>0, <4>1, MergedTyped
    <3>2. promised' = [promised EXCEPT ![u] = row]
      BY <1>7, <2>2, <3>1 DEF SaveUpdate
    <3>3. /\ promised' \in [Users -> Row \cup {NoRow}] /\ promised'[u] = row
          /\ \A v \in Users \ {u} : promised'[v] = promised[v]
      BY <1>0, <3>2
    <3>. DEFINE Rest == /\ \A v \in Users \ Spoilt' : Answered(v)'
                        /\ \A q \in Requests \ {r} :
                            /\ req[q].kind = "update" /\ req[q].at = "save"
                               /\ req[q].copy = NoRow =>
                                  prefs'[req[q].user] = NoRow \/ req[q].user \in crossed'
                            /\ req[q].at = "insert" /\ req[q].user \notin Spoilt' =>
                                  promised'[req[q].user] = NoRow
    <3>4. CASE /\ prefs' = [prefs EXCEPT ![u] = row]
               /\ crossed' = crossed \cup Crossing(r) /\ UNCHANGED swallowed
      <4>1. /\ prefs' \in [Users -> Row \cup {NoRow}] /\ prefs'[u] = row
            /\ \A v \in Users \ {u} : prefs'[v] = prefs[v]
        BY <1>0, <3>4
      <4>2. crossed \subseteq crossed' /\ crossed' \subseteq Users /\ Spoilt \subseteq Spoilt'
        BY <1>0, <1>7, <3>4 DEF Crossing, Spoilt
      <4>3. ASSUME NEW v \in Users \ Spoilt' PROVE Answered(v)'
        BY <1>0, <3>3, <4>1, <4>2, <4>3 DEF Answered, PrefsInv
      <4>4. ASSUME NEW q \in Requests \ {r}, req[q].at \in {"save", "insert"},
                   req[q].kind # "register", req[q].user = u
            PROVE  u \in crossed' /\ u \in Spoilt'
        <5>1. u \in Crossing(r)
          BY <1>7, <4>4 DEF Crossing
        <5>. QED
          BY <3>4, <5>1 DEF Spoilt
      <4>5. ASSUME NEW q \in Requests \ {r}, req[q].kind = "update", req[q].at = "save",
                   req[q].copy = NoRow
            PROVE  prefs'[req[q].user] = NoRow \/ req[q].user \in crossed'
        <5>1. CASE req[q].user = u
          BY <4>4, <4>5, <5>1
        <5>2. CASE req[q].user # u
          <6>1. req[q].user \in Users
            BY <4>5 DEF NotifyInv, BaseInv, Shape
          <6>. QED
            BY <1>0, <4>1, <4>2, <4>5, <5>2, <6>1 DEF PrefsInv
        <5>. QED
          BY <5>1, <5>2
      <4>6. ASSUME NEW q \in Requests \ {r}, req[q].at = "insert", req[q].user \notin Spoilt'
            PROVE  promised'[req[q].user] = NoRow
        <5>1. req[q].kind \in {"read", "announce"} /\ req[q].user \in Users
          BY <4>6, InsertsFor
        <5>2. req[q].user # u
          BY <4>4, <4>6, <5>1
        <5>. QED
          BY <1>0, <3>3, <4>2, <4>6, <5>1, <5>2 DEF PrefsInv
      <4>. QED
        BY <1>0, <3>3, <3>4, <4>1, <4>2, <4>3, <4>5, <4>6
    <3>5. CASE /\ UNCHANGED <<prefs, crossed>> /\ swallowed \subseteq swallowed'
               /\ swallowed' \subseteq Users /\ u \in crossed \cup swallowed'
      <4>1. u \in Spoilt' /\ Spoilt \subseteq Spoilt'
        BY <3>5 DEF Spoilt
      <4>2. ASSUME NEW v \in Users \ Spoilt' PROVE Answered(v)'
        BY <1>0, <3>3, <3>5, <4>1, <4>2 DEF Answered, PrefsInv
      <4>3. ASSUME NEW q \in Requests \ {r}, req[q].at = "insert", req[q].user \notin Spoilt'
            PROVE  promised'[req[q].user] = NoRow
        <5>1. req[q].user \in Users
          BY <4>3, InsertsFor
        <5>2. req[q].user # u
          BY <4>1, <4>3
        <5>. QED
          BY <1>0, <3>3, <4>1, <4>3, <5>1, <5>2 DEF PrefsInv
      <4>. QED
        BY <1>0, <3>3, <3>5, <4>2, <4>3 DEF PrefsInv
    <3>6. CASE req[r].copy = NoRow /\ prefs[u] # NoRow /\ UNCHANGED <<prefs, crossed, swallowed>>
      <4>1. u \in crossed
        BY <1>0, <1>7, <2>2, <3>6 DEF SaveUpdate, At, PrefsInv
      <4>. QED
        BY <1>0, <3>5, <3>6, <4>1
    <3>7. CASE swallowed' = swallowed \cup {u} /\ UNCHANGED <<prefs, crossed>>
      BY <1>0, <3>5, <3>7
    <3>. QED
      BY <1>7, <2>2, <3>1, <3>4, <3>6, <3>7 DEF SaveUpdate
  <2>. QED
    BY <2>1, <2>2
<1>9. TypeOK'
  BY <1>0, <1>1, <1>4, <1>8 DEF TypeOK, pushHistory, geoHistory
<1>10. PrefsInv'
  <2>1. ASSUME NEW q \in Requests
        PROVE  /\ req'[q].kind = "update" /\ req'[q].at = "save" /\ req'[q].copy = NoRow =>
                      prefs'[req'[q].user] = NoRow \/ req'[q].user \in crossed'
               /\ req'[q].at = "insert" /\ req'[q].user \notin Spoilt' =>
                      promised'[req'[q].user] = NoRow
               /\ req'[q].forbade => req'[q].user \in Spoilt'
    <3>1. CASE q = r
      BY <1>4, <1>6, <3>1 DEF Shape
    <3>2. CASE q # r
      BY <1>0, <1>4, <1>8, <3>2 DEF PrefsInv, Spoilt
    <3>. QED
      BY <3>1, <3>2
  <2>2. UnwantedPushHasACause'
    BY <1>0, <1>2, <1>8 DEF PrefsInv, UnwantedPushHasACause
  <2>. QED
    BY <1>8, <2>1, <2>2 DEF PrefsInv
<1>. QED
  BY <1>4, <1>5, <1>9, <1>10 DEF NotifyInv, BaseInv

\* A row of devices changes: who has listed it and not sent to it yet is not told so.
LEMMA ChangingKeeps ==
    ASSUME DeviceInv, NEW t \in Tokens,
           \A x \in Tokens \ {t} : device'[x] = device[x],
           \A q \in Requests : \/ req'[q].left = {}
                               \/ /\ req'[q].user = req[q].user
                                  /\ req'[q].left \subseteq req[q].left \cap Tokens
                                  /\ moved[q] \ {t} \subseteq moved'[q]
                                  /\ t \in req'[q].left => t \in moved'[q],
           UNCHANGED strays
    PROVE  DeviceInv'
<1>1. ASSUME NEW q \in Requests, NEW x \in req'[q].left
      PROVE  x \in moved'[q] \/ device'[x] = [user |-> req'[q].user, active |-> TRUE]
  <2>1. CASE x = t
    BY <1>1, <2>1
  <2>2. CASE x # t
    BY <1>1, <2>2 DEF DeviceInv
  <2>. QED
    BY <2>1, <2>2
<1>. QED
  BY <1>1 DEF DeviceInv, StrayPushHasACause

LEMMA ChangedKnown ==
    ASSUME TypeOK, NEW t \in Tokens, Changed(t)
    PROVE  /\ moved' \in [Requests -> SUBSET Tokens]
           /\ \A q \in Requests : /\ moved[q] \subseteq moved'[q]
                                  /\ t \in req[q].left => t \in moved'[q]
  BY DEF TypeOK, Changed

LEMMA RegisteringKeeps ==
    ASSUME NotifyInv, NEW r \in Requests, SaveDevice(r)
    PROVE  NotifyInv'
<1>0. TypeOK /\ RivalsKnow /\ Shape(req[r]) /\ PushInv /\ DeviceInv /\ PrefsInv /\ NoticeInv
  BY DEF NotifyInv, BaseInv
<1>1. UNCHANGED <<clock, boot, prefs, logs, expires, unwanted, last, repeats, strays,
                  prefHistory, geoHistory>>
  BY DEF SaveDevice
<1>2. UNCHANGED <<clock, boot, expires, last, repeats, logs, told, retold>>
  BY <1>1 DEF geoHistory
<1>3. Elsewhere(r)
  BY <1>0, Stepping
<1>4. /\ req' \in [Requests -> Request] /\ (\A q \in Requests : Shape(req[q]))'
      /\ \A q \in Requests \ {r} : req'[q] = req[q] /\ Apart(q)
      /\ RivalsKnow' /\ PushInv' /\ NoticeInv' /\ req'[r].left = {}
  BY <1>2, <1>3, ElsewhereKeeps
<1>5. req'[r].at = "idle"
  BY <1>0 DEF SaveDevice, Finish, Idle, TypeOK
<1>6. PICK t \in Tokens, u \in Users : t = req[r].token /\ u = req[r].user
  BY <1>0 DEF SaveDevice, At, Shape
<1>7. /\ device' \in [Tokens -> [user : Someone, active : BOOLEAN]]
      /\ moved' \in [Requests -> SUBSET Tokens] /\ DeviceInv'
  <2>1. CASE UNCHANGED <<device, moved>>
    BY <1>0, <1>1, <1>4, <2>1, DevicesKept DEF TypeOK
  <2>2. CASE device' = [device EXCEPT ![t] = [user |-> u, active |-> TRUE]] /\ Changed(t)
    <3>1. /\ device' \in [Tokens -> [user : Someone, active : BOOLEAN]]
          /\ \A x \in Tokens \ {t} : device'[x] = device[x]
      BY <1>0, <2>2 DEF TypeOK, Someone
    <3>2. \A q \in Requests : req[q].left \subseteq Tokens
      BY <1>0 DEF TypeOK, Request
    <3>. QED
      BY <1>0, <1>1, <1>4, <2>2, <3>1, <3>2, ChangedKnown, ChangingKeeps
  <2>. QED
    BY <1>6, <2>1, <2>2 DEF SaveDevice
<1>8. TypeOK'
  BY <1>0, <1>1, <1>4, <1>7 DEF TypeOK, prefHistory, geoHistory
<1>9. PrefsInv'
  <2>1. ~req'[r].forbade
    BY <1>4, <1>5 DEF Shape
  <2>. QED
    BY <1>0, <1>1, <1>4, <1>5, <2>1, PrefsKept
<1>. QED
  BY <1>4, <1>7, <1>8, <1>9 DEF NotifyInv, BaseInv

LEMMA DeactivatingKeeps ==
    ASSUME NotifyInv, NEW t \in Tokens, DeactivateDevice(t)
    PROVE  NotifyInv'
<1>0. TypeOK /\ PushInv /\ DeviceInv /\ PrefsInv /\ NoticeInv
  BY DEF NotifyInv, BaseInv
<1>1. UNCHANGED <<clock, boot, prefs, logs, expires, req, unwanted, last, repeats, strays,
                  prefHistory, geoHistory>> /\ Changed(t)
  BY DEF DeactivateDevice
<1>2. /\ device' \in [Tokens -> [user : Someone, active : BOOLEAN]]
      /\ \A x \in Tokens \ {t} : device'[x] = device[x]
  BY <1>0 DEF TypeOK, DeactivateDevice
<1>3. moved' \in [Requests -> SUBSET Tokens] /\ DeviceInv'
  <2>1. \A q \in Requests : req[q].left \subseteq Tokens
    BY <1>0 DEF TypeOK, Request
  <2>. QED
    BY <1>0, <1>1, <1>2, <2>1, ChangedKnown, ChangingKeeps
<1>4. TypeOK'
  BY <1>0, <1>1, <1>2, <1>3 DEF TypeOK, prefHistory, geoHistory
<1>5. (\A q \in Requests : Shape(req[q]))' /\ RivalsKnow'
  BY <1>1 DEF NotifyInv, BaseInv, RivalsKnow, Sending, Noticing, Key, NoticeOf
<1>6. PushInv'
  BY <1>0, <1>1 DEF PushInv, Remembered, StillNew, Sending, Key, RepeatPushHasACause
<1>7. PrefsInv'
  BY <1>0, <1>1 DEF PrefsInv, Answered, Spoilt, UnwantedPushHasACause, prefHistory
<1>8. NoticeInv'
  BY <1>0, <1>1 DEF NoticeInv, RepeatNoticeHasACause, geoHistory
<1>. QED
  BY <1>3, <1>4, <1>5, <1>6, <1>7, <1>8 DEF NotifyInv, BaseInv

\* The clock and the server.
LEMMA TickKeeps ==
    ASSUME NotifyAssumption, NotifyInv, Tick
    PROVE  NotifyInv'
<1>0. TypeOK /\ PushInv /\ DeviceInv /\ PrefsInv /\ NoticeInv
  BY DEF NotifyInv, BaseInv
<1>1. /\ UNCHANGED <<boot, tables, expires, req, pushHistory, prefHistory, geoHistory>>
      /\ clock' = clock + 1 /\ clock \in Nat /\ clock' \in 0 .. Horizon
      /\ Cooldown \in Nat /\ Horizon \in Nat /\ DedupeWindow \in Nat
  BY <1>0 DEF Tick, TypeOK, NotifyAssumption
<1>2. UNCHANGED <<boot, prefs, device, logs, expires, req, promised, crossed, swallowed,
                  unwanted, last, repeats, moved, strays, told, retold>>
  BY <1>1 DEF tables, pushHistory, prefHistory, geoHistory
<1>3. TypeOK'
  BY <1>0, <1>1, <1>2 DEF TypeOK
<1>4. (\A q \in Requests : Shape(req[q]))' /\ RivalsKnow'
  BY <1>2 DEF NotifyInv, BaseInv, RivalsKnow, Sending, Noticing, Key, NoticeOf
<1>5. PushInv'
  <2>1. ASSUME NEW k \in Keys
        PROVE  last'[k].at <= clock' /\ last'[k].boot <= boot' /\ Remembered(k)'
    <3>1. last[k].at <= clock /\ last[k].boot <= boot /\ Remembered(k) /\ last[k].at \in Int
      BY <1>0 DEF PushInv, TypeOK
    <3>2. \A q \in Requests : Key(q)' = Key(q)
      BY <1>2 DEF Key
    <3>. QED
      BY <1>1, <1>2, <3>1, <3>2 DEF Remembered
  <2>2. ASSUME NEW q \in Requests PROVE StillNew(q)'
    <3>. SUFFICES ASSUME Sending(q), ~req[q].got, ~req[q].rival
                  PROVE  expires[Key(q)] < clock + 1
      BY <1>1, <1>2 DEF StillNew, Sending, Key
    <3>1. expires[Key(q)] < clock
      BY <1>0 DEF PushInv, StillNew
    <3>2. Key(q) \in Keys
      BY <1>0, KeyTyped DEF NotifyInv, BaseInv
    <3>3. expires[Key(q)] \in Int
      BY <1>0, <1>1, <3>2 DEF TypeOK
    <3>. QED
      BY <1>1, <3>1, <3>3
  <2>. QED
    BY <1>0, <1>2, <2>1, <2>2 DEF PushInv, RepeatPushHasACause
<1>6. DeviceInv'
  BY <1>0, <1>2 DEF DeviceInv, StrayPushHasACause
<1>7. PrefsInv'
  BY <1>0, <1>2 DEF PrefsInv, Answered, Spoilt, UnwantedPushHasACause
<1>8. NoticeInv'
  <2>1. \A i \in DOMAIN logs : logs[i].at \in Nat
    <3>. DEFINE L == [user : Users, venue : Venues, at : 0 .. Horizon]
    <3>1. logs \in Seq(L)
      BY <1>0 DEF TypeOK
    <3>2. \A x \in L : x.at \in Nat
      BY <1>1
    <3>. HIDE DEF L
    <3>3. \A i \in DOMAIN logs : logs[i] \in L
      BY <3>1
    <3>. QED
      BY <3>2, <3>3
  <2>2. \A u \in Users, v \in Venues : told[u][v].at \in Int
    BY <1>0, <1>1 DEF TypeOK
  <2>. QED
    BY <1>0, <1>1, <1>2, <2>1, <2>2 DEF NoticeInv, RepeatNoticeHasACause
<1>. QED
  BY <1>3, <1>4, <1>5, <1>6, <1>7, <1>8 DEF NotifyInv, BaseInv

LEMMA RestartKeeps ==
    ASSUME NotifyAssumption, NotifyInv, Restart
    PROVE  NotifyInv'
<1>0. TypeOK /\ PushInv /\ DeviceInv /\ PrefsInv /\ NoticeInv
  BY DEF NotifyInv, BaseInv
<1>1. /\ UNCHANGED <<clock, tables, unwanted, last, repeats, strays, prefHistory, geoHistory>>
      /\ boot' = boot + 1 /\ boot' \in 1 .. MaxBoots /\ boot \in Nat
      /\ expires' = [k \in Keys |-> -1] /\ req' = [r \in Requests |-> Idle]
      /\ moved' = [r \in Requests |-> {}]
  BY <1>0 DEF Restart, TypeOK, NotifyAssumption
<1>2. /\ req' \in [Requests -> Request] /\ (\A q \in Requests : Shape(req[q]))'
      /\ \A q \in Requests : Outside(req'[q]) /\ req'[q].left = {} /\ req'[q].at = "idle"
  BY <1>1, IdleTyped DEF Idle
<1>3. UNCHANGED <<clock, prefs, device, logs, promised, crossed, swallowed,
                  unwanted, last, repeats, strays, told, retold>>
  BY <1>1 DEF tables, prefHistory, geoHistory
<1>4. TypeOK'
  <2>1. -1 \in -1 .. Horizon + DedupeWindow
    BY DEF NotifyAssumption
  <2>. QED
    BY <1>0, <1>1, <1>2, <1>3, <2>1 DEF TypeOK
<1>5. RivalsKnow'
  BY <1>2 DEF RivalsKnow, Sending, Noticing, Outside
<1>6. PushInv'
  <2>1. ASSUME NEW k \in Keys
        PROVE  last'[k].at <= clock' /\ last'[k].boot <= boot' /\ last'[k].boot # boot'
    <3>1. last[k].boot <= boot /\ last[k].boot \in Nat /\ last[k].at <= clock
      BY <1>0 DEF PushInv, TypeOK
    <3>. QED
      BY <1>1, <1>3, <3>1
  <2>2. \A q \in Requests : StillNew(q)'
    BY <1>2 DEF StillNew, Sending, Outside
  <2>. QED
    BY <1>0, <1>3, <2>1, <2>2 DEF PushInv, Remembered, RepeatPushHasACause
<1>7. DeviceInv'
  BY <1>0, <1>2, <1>3 DEF DeviceInv, StrayPushHasACause
<1>8. PrefsInv'
  <2>1. \A q \in Requests : ~req'[q].forbade
    BY <1>2 DEF Shape, Outside
  <2>. QED
    BY <1>0, <1>2, <1>3, <2>1 DEF PrefsInv, Answered, Spoilt, UnwantedPushHasACause
<1>9. NoticeInv'
  BY <1>0, <1>2, <1>3 DEF NoticeInv, RepeatNoticeHasACause
<1>. QED
  BY <1>2, <1>4, <1>5, <1>6, <1>7, <1>8, <1>9 DEF NotifyInv, BaseInv

\* A request that ends early.
LEMMA FailKeeps ==
    ASSUME NotifyAssumption, NotifyInv, NEW r \in Requests, Fail(r)
    PROVE  NotifyInv'
<1>0. BaseInv /\ TypeOK /\ RivalsKnow /\ PushInv /\ DeviceInv /\ PrefsInv /\ NoticeInv
      /\ Shape(req[r])
  BY DEF NotifyInv, BaseInv
<1>1. /\ UNCHANGED <<clock, boot, tables, expires, unwanted, repeats, strays, prefHistory,
                     geoHistory>>
      /\ moved' = [moved EXCEPT ![r] = {}]
  BY DEF Fail
<1>2. UNCHANGED <<clock, boot, expires, prefs, device, logs, unwanted, repeats, strays, told,
                  retold>>
  BY <1>1 DEF tables, geoHistory
<1>3. /\ req' \in [Requests -> Request] /\ Shape(req'[r]) /\ Outside(req'[r])
      /\ req'[r].left = {} /\ req'[r].at = "idle"
      /\ \A q \in Requests \ {r} : req'[q] = req[q] /\ Apart(q)
  <2>1. req' = [req EXCEPT ![r] = Idle]
    BY DEF Fail, Finish
  <2>2. /\ req' \in [Requests -> Request] /\ req'[r] = Idle
        /\ \A q \in Requests \ {r} : req'[q] = req[q]
    BY <1>0, <2>1, IdleTyped, Becoming
  <2>3. Idle.at = "idle"
    BY DEF Idle
  <2>4. \A q \in Requests \ {r} : Apart(q)
    BY <2>2 DEF Apart
  <2>. QED
    BY <2>2, <2>3, <2>4, IdleTyped
<1>4. (\A q \in Requests : Shape(req[q]))'
  BY <1>0, <1>3 DEF BaseInv
<1>5. RivalsKnow'
  BY <1>0, <1>3, RivalsKept DEF Outside, Sending, Noticing
<1>6. /\ moved' \in [Requests -> SUBSET Tokens]
      /\ \A q \in Requests \ {r} : moved'[q] = moved[q]
  BY <1>0, <1>1 DEF TypeOK
<1>7. DeviceInv'
  BY <1>0, <1>2, <1>3, <1>6, DevicesKept
<1>8. PrefsInv'
  <2>1. ~req'[r].forbade
    BY <1>3 DEF Shape
  <2>. QED
    BY <1>0, <1>1, <1>2, <1>3, <2>1, PrefsKept
<1>9. NoticeInv'
  BY <1>0, <1>2, <1>3, NoticesKept
<1>10. /\ PushInv'
       /\ last' \in [Keys -> [at : -1 .. Horizon, boot : 0 .. MaxBoots, broken : BOOLEAN]]
  <2>0. RepeatPushHasACause' /\ ~Sending(r)'
    BY <1>0, <1>2, <1>3 DEF PushInv, RepeatPushHasACause, Outside, Sending
  <2>1. CASE Sending(r)
    <3>1. req[r].kind = "announce" /\ Key(r) \in Keys
      BY <1>0, <2>1, KeyTyped
    <3>2. req[r].at \in {"list", "drop"} /\ (req[r].at = "list" => ~req[r].got)
      BY <1>0, <2>1, <3>1 DEF Fail, Sending, Shape
    <3>3. IF req[r].at = "drop" /\ req[r].got
          THEN last' = [last EXCEPT ![Key(r)] = [@ EXCEPT !.broken = TRUE]] ELSE last' = last
      BY <3>1 DEF Fail, At
    <3>4. last' \in [Keys -> [at : -1 .. Horizon, boot : 0 .. MaxBoots, broken : BOOLEAN]]
      <4>. DEFINE P == [at : -1 .. Horizon, boot : 0 .. MaxBoots, broken : BOOLEAN]
      <4>1. last \in [Keys -> P]
        BY <1>0 DEF TypeOK
      <4>2. PICK k \in Keys : k = Key(r)
        BY <3>1
      <4>3. [last[k] EXCEPT !.broken = TRUE] \in P
        BY <4>1
      <4>. HIDE DEF P
      <4>4. last' = last \/ last' = [last EXCEPT ![k] = [last[k] EXCEPT !.broken = TRUE]]
        BY <3>3, <4>2
      <4>5. last' \in [Keys -> P]
        BY <4>1, <4>3, <4>4
      <4>. QED
        BY <4>5 DEF P
    <3>5. \/ last' = last
          \/ last' = [last EXCEPT ![Key(r)] = [@ EXCEPT !.broken = TRUE]]
      BY <3>3
    <3>6. (last' # last \/ (req[r].at \in {"send", "drop"} /\ req[r].got)) =>
              last' = [last EXCEPT ![Key(r)] = [@ EXCEPT !.broken = TRUE]]
      BY <3>2, <3>3
    <3>. QED
      BY <1>0, <1>2, <1>3, <2>0, <2>1, <3>4, <3>5, <3>6, PushKept
  <2>2. CASE ~Sending(r)
    <3>1. last' = last
      BY <2>2 DEF Fail, At, Sending
    <3>. QED
      BY <1>0, <1>2, <1>3, <2>0, <2>2, <3>1, PushAside DEF TypeOK
  <2>. QED
    BY <2>1, <2>2
<1>11. TypeOK'
  BY <1>0, <1>1, <1>2, <1>3, <1>6, <1>10 DEF TypeOK, prefHistory
<1>. QED
  BY <1>3, <1>4, <1>5, <1>7, <1>8, <1>9, <1>10, <1>11 DEF NotifyInv, BaseInv

-------------------------------------------------------------------------------
(* The steps of a push. *)

\* The window as the code tests it is the hours the user asked to be left alone.
LEMMA WindowIsTheHours ==
    ASSUME NotifyAssumption, NEW q \in QuietHours \cup {<<0, 0>>}, NEW now \in 0 .. Day - 1
    PROVE  InQuietHours(q, now) <=> now \in HoursOf(q)
<1>. PICK a \in 0 .. Day - 1, b \in 0 .. Day - 1 : q = <<a, b>>
  <2>1. <<0, 0>> \in (0 .. Day - 1) \X (0 .. Day - 1)
    BY DEF NotifyAssumption
  <2>. QED
    BY <2>1 DEF NotifyAssumption
<1>1. Day \in Nat \ {0}
  BY DEF NotifyAssumption
<1>2. \A x \in 0 .. Day - 1 : x % Day = x
  BY <1>1
<1>3. \A x \in Day .. Day + Day - 1 : x % Day = x - Day
  <2>. SUFFICES ASSUME NEW x \in Day .. Day + Day - 1 PROVE x % Day = x - Day
    OBVIOUS
  <2>1. x = Day * 1 + (x - Day) /\ x - Day \in 0 .. Day - 1
    BY <1>1
  <2>. QED
    BY <1>1, <2>1
<1>4. \A x \in -Day .. -1 : x % Day = x + Day
  <2>. SUFFICES ASSUME NEW x \in -Day .. -1 PROVE x % Day = x + Day
    OBVIOUS
  <2>1. x + Day \in 0 .. Day - 1
    BY <1>1
  <2>. QED
    BY <1>1, <2>1
<1>5. CASE a <= b
  <2>1. (b - a) % Day = b - a
    BY <1>1, <1>2, <1>5
  <2>2. \A i \in 0 .. b - a - 1 : (a + i) % Day = a + i
    BY <1>1, <1>2, <1>5
  <2>3. HoursOf(q) = {a + i : i \in 0 .. b - a - 1}
    BY <2>1, <2>2 DEF HoursOf
  <2>4. InQuietHours(q, now) <=> a <= now /\ now < b
    BY <1>5 DEF InQuietHours
  <2>5. a <= now /\ now < b => now - a \in 0 .. b - a - 1 /\ now = a + (now - a)
    BY <1>1
  <2>. QED
    BY <1>1, <2>3, <2>4, <2>5
<1>6. CASE a > b
  <2>1. (b - a) % Day = b - a + Day
    BY <1>1, <1>4, <1>6
  <2>. DEFINE I == 0 .. b - a + Day - 1
  <2>2. \A i \in I : (a + i) % Day = IF a + i < Day THEN a + i ELSE a + i - Day
    BY <1>1, <1>2, <1>3, <1>6
  <2>3. HoursOf(q) = {(a + i) % Day : i \in I}
    <3>1. 0 .. ((b - a) % Day) - 1 = I
      BY <2>1
    <3>2. HoursOf(q) = {(a + i) % Day : i \in 0 .. ((b - a) % Day) - 1}
      BY DEF HoursOf
    <3>. QED
      BY <3>1, <3>2
  <2>4. InQuietHours(q, now) <=> a <= now \/ now < b
    BY <1>6 DEF InQuietHours
  <2>5. ASSUME a <= now PROVE now \in HoursOf(q)
    <3>1. now - a \in I /\ (a + (now - a)) % Day = now
      BY <1>1, <1>2, <1>6, <2>5
    <3>. QED
      BY <2>3, <3>1
  <2>6. ASSUME now < b PROVE now \in HoursOf(q)
    <3>1. now - a + Day \in I /\ (a + (now - a + Day)) % Day = now
      BY <1>1, <1>6, <2>2, <2>6
    <3>. QED
      BY <2>3, <3>1
  <2>7. ASSUME now \in HoursOf(q) PROVE a <= now \/ now < b
    <3>1. PICK i \in I : now = (a + i) % Day
      BY <2>3, <2>7
    <3>. QED
      BY <1>1, <1>6, <2>2, <3>1
  <2>. QED
    BY <2>4, <2>5, <2>6, <2>7
<1>. QED
  BY <1>1, <1>5, <1>6

\* Who is not refused by the row that was answered last is not disturbed either.
LEMMA NotRefused ==
    ASSUME NotifyAssumption, TypeOK, NEW u \in Users, NEW kind,
           \/ promised[u] = NoRow
           \/ promised[u] = prefs[u] /\ ~Refuses(prefs[u], kind)
    PROVE  ~AskedNot(u, kind)
<1>1. CASE promised[u] = NoRow
  BY <1>1 DEF AskedNot
<1>2. CASE promised[u] # NoRow
  <2>1. promised[u].quiet \in QuietHours \cup {<<0, 0>>}
    BY <1>2 DEF TypeOK, Row
  <2>2. clock % Day \in 0 .. Day - 1
    BY DEF TypeOK, NotifyAssumption
  <2>. QED
    BY <1>2, <2>1, <2>2, WindowIsTheHours DEF AskedNot, Refuses
<1>. QED
  BY <1>1, <1>2

\* r begins a push, and whoever is in the middle of the same one learns of it.
Begins(r) ==
    /\ ~IsDuplicate(Key(r))
    /\ req' = [q \in Requests |->
                  IF q = r
                  THEN [req[r] EXCEPT !.at = "list", !.rival = Rivals(r) # {},
                           !.forbade = AskedNot(req[r].user, req[r].topic[1])]
                  ELSE [req[q] EXCEPT !.rival = @ \/ q \in Rivals(r)]]

LEMMA BeginsKnown ==
    ASSUME BaseInv, NEW r \in Requests, req[r].kind = "announce",
           req[r].at \in {"check", "insert"}, Begins(r)
    PROVE  /\ req' \in [Requests -> Request] /\ (\A q \in Requests : Shape(req[q]))'
           /\ req'[r].at = "list" /\ req'[r].left = {} /\ ~req'[r].got
           /\ Key(r)' = Key(r) /\ (req'[r].rival <=> Rivals(r) # {})
           /\ req'[r].user = req[r].user
           /\ req'[r].forbade => AskedNot(req[r].user, req[r].topic[1])
           /\ \A q \in Requests \ {r} : Apart(q) /\ (q \in Rivals(r) => req'[q].rival)
<1>0. TypeOK /\ (\A q \in Requests : Shape(req[q])) /\ \A q \in Requests : req[q] \in Request
  BY DEF BaseInv, TypeOK
<1>1. PICK some \in BOOLEAN, not \in BOOLEAN :
          some = (Rivals(r) # {}) /\ not = AskedNot(req[r].user, req[r].topic[1])
  BY DEF AskedNot
<1>2. PICK new : new = [req[r] EXCEPT !.at = "list", !.rival = some, !.forbade = not]
  OBVIOUS
<1>3. new \in Request
  <2>1. PICK old \in Request : old = req[r]
    BY <1>0
  <2>2. "list" \in Steps
    BY DEF Steps
  <2>3. new = [old EXCEPT !.at = "list", !.rival = some, !.forbade = not]
    BY <1>2, <2>1
  <2>. QED
    BY <2>2, <2>3 DEF Request
<1>4. /\ Shape(new) /\ new.at = "list" /\ new.left = {} /\ ~new.got /\ new.rival = some
      /\ new.forbade = not
      /\ new.user = req[r].user /\ new.topic = req[r].topic
  BY <1>0, <1>2 DEF Shape, Request
<1>5. req'[r] = new
  BY <1>1, <1>2 DEF Begins
<1>6. ASSUME NEW q \in Requests \ {r}
      PROVE  /\ req'[q] \in Request /\ Shape(req'[q]) /\ Apart(q)
             /\ q \in Rivals(r) => req'[q].rival
  <2>1. PICK knows \in BOOLEAN : knows = (req[q].rival \/ q \in Rivals(r))
    OBVIOUS
  <2>2. req'[q] = [req[q] EXCEPT !.rival = knows]
    BY <2>1 DEF Begins
  <2>3. req'[q] \in Request /\ req'[q].rival = knows
    BY <1>0, <2>2 DEF Request
  <2>4. /\ req'[q].kind = req[q].kind /\ req'[q].at = req[q].at /\ req'[q].user = req[q].user
        /\ req'[q].topic = req[q].topic /\ req'[q].token = req[q].token
        /\ req'[q].left = req[q].left /\ req'[q].got = req[q].got
        /\ req'[q].copy = req[q].copy /\ req'[q].rest = req[q].rest
        /\ req'[q].dto = req[q].dto /\ req'[q].forbade = req[q].forbade
    BY <1>0, <2>2 DEF Request
  <2>5. req[q] # Idle => Shape(req'[q])
    BY <1>0, <2>4 DEF Shape
  <2>6. req[q] = Idle => req'[q] = Idle
    <3>. SUFFICES ASSUME req[q] = Idle PROVE req'[q] = Idle
      OBVIOUS
    <3>1. ~req[q].rival /\ req[q].at = "idle"
      BY DEF Idle
    <3>2. ~knows
      BY <2>1, <3>1 DEF Rivals
    <3>3. req'[q] = [Idle EXCEPT !.rival = FALSE]
      BY <2>2, <3>2
    <3>. QED
      BY <3>3 DEF Idle
  <2>. QED
    BY <2>1, <2>3, <2>4, <2>5, <2>6, IdleTyped DEF Apart
<1>7. req' \in [Requests -> Request]
  <2>1. req' = [q \in Requests |-> req'[q]]
    BY DEF Begins
  <2>. QED
    BY <1>3, <1>5, <1>6, <2>1
<1>. QED
  BY <1>1, <1>4, <1>5, <1>6, <1>7 DEF Key

\* The preferences allow the push: it is a duplicate, or begins.
LEMMA PassKeeps ==
    ASSUME NotifyAssumption, NotifyInv, NEW r \in Requests, req[r].kind = "announce",
           req[r].at \in {"check", "insert"}, PassPreferences(r),
           UNCHANGED <<clock, boot, expires, last, repeats, logs, told, retold>>
    PROVE  /\ req' \in [Requests -> Request] /\ (\A q \in Requests : Shape(req[q]))'
           /\ \A q \in Requests \ {r} : Apart(q)
           /\ req'[r].left = {} /\ req'[r].at \in {"idle", "check", "list"}
           /\ RivalsKnow' /\ PushInv' /\ NoticeInv'
           /\ req'[r].forbade => /\ req'[r].user = req[r].user
                                 /\ AskedNot(req[r].user, req[r].topic[1])
<1>0. /\ BaseInv /\ TypeOK /\ RivalsKnow /\ PushInv /\ NoticeInv
      /\ \A q \in Requests : Shape(req[q])
  BY DEF NotifyInv, BaseInv
<1>1. CASE NextUser(r)
  <2>1. Ends(r)
    BY <1>0, <1>1, NextUserKnown
  <2>2. Elsewhere(r)
    BY <2>1 DEF Ends, Elsewhere, Outside
  <2>3. req'[r].at \in {"idle", "check"}
    BY <1>0, <2>1, EndsKnown
  <2>4. (\A q \in Requests : Shape(req[q]))'
    BY <2>2, ElsewhereKeeps
  <2>5. ~req'[r].forbade
    BY <2>3, <2>4 DEF Shape
  <2>. QED
    BY <2>2, <2>3, <2>5, ElsewhereKeeps
<1>2. CASE ~IsDuplicate(Key(r)) /\ Begins(r)
  <2>1. /\ req' \in [Requests -> Request] /\ (\A q \in Requests : Shape(req[q]))'
        /\ req'[r].at = "list" /\ req'[r].left = {} /\ ~req'[r].got
        /\ Key(r)' = Key(r) /\ (req'[r].rival <=> Rivals(r) # {})
        /\ req'[r].user = req[r].user
        /\ req'[r].forbade => AskedNot(req[r].user, req[r].topic[1])
        /\ \A q \in Requests \ {r} : Apart(q) /\ (q \in Rivals(r) => req'[q].rival)
    BY <1>0, <1>2, BeginsKnown
  <2>2. \A q \in Requests : Key(q)' = Key(q)
    BY <2>1 DEF Apart, Key
  <2>3. \A q \in Requests \ {r} : /\ (Sending(q)' <=> Sending(q))
                                  /\ (Noticing(q)' <=> Noticing(q))
                                  /\ NoticeOf(q)' = NoticeOf(q)
    BY <2>1 DEF Apart, Sending, Noticing, NoticeOf
  <2>4. RivalsKnow'
    <3>. SUFFICES ASSUME NEW p \in Requests, NEW q \in Requests, p # q
                  PROVE  /\ Sending(p)' /\ Sending(q)' /\ Key(p)' = Key(q)' => req'[p].rival
                         /\ Noticing(p)' /\ Noticing(q)' /\ NoticeOf(p)' = NoticeOf(q)'
                                => req'[p].rival
      BY DEF RivalsKnow
    <3>0. ~Noticing(r)'
      BY <2>1 DEF Noticing
    <3>1. CASE p = r
      <4>1. Sending(q)' /\ Key(p)' = Key(q)' => q \in Rivals(r)
        BY <2>2, <2>3, <3>1 DEF Rivals, Sending
      <4>. QED
        BY <2>1, <3>0, <3>1, <4>1
    <3>2. CASE q = r
      <4>1. Sending(p)' /\ Key(p)' = Key(q)' => p \in Rivals(r)
        BY <2>2, <2>3, <3>2 DEF Rivals, Sending
      <4>. QED
        BY <2>1, <3>0, <3>2, <4>1
    <3>3. CASE p # r /\ q # r
      <4>1. req[p].rival => req'[p].rival
        BY <2>1, <3>3 DEF Apart
      <4>. QED
        BY <1>0, <2>2, <2>3, <3>3, <4>1 DEF RivalsKnow
    <3>. QED
      BY <3>1, <3>2, <3>3
  <2>5. PushInv'
    <3>1. ASSUME NEW k \in Keys PROVE Remembered(k)'
      <4>1. \A q \in Requests : req[q].at \in {"send", "drop"} /\ req[q].got /\ Key(q) = k =>
                req'[q].at = req[q].at /\ req'[q].got /\ Key(q)' = k
        BY <2>1, <2>2 DEF Apart
      <4>. QED
        BY <1>0, <4>1 DEF PushInv, Remembered
    <3>2. StillNew(r)'
      <4>1. Key(r) \in Keys
        BY <1>0, KeyTyped
      <4>2. expires[Key(r)] \in Int /\ clock \in Int
        BY <1>0, <4>1 DEF TypeOK, NotifyAssumption
      <4>3. expires[Key(r)] < clock
        BY <1>2, <4>2 DEF IsDuplicate
      <4>. QED
        BY <2>1, <4>3 DEF StillNew
    <3>3. ASSUME NEW q \in Requests \ {r} PROVE StillNew(q)'
      <4>1. StillNew(q) /\ Apart(q) /\ Key(q)' = Key(q)
        BY <1>0, <2>1, <2>2 DEF PushInv
      <4>. QED
        BY <4>1 DEF StillNew, Sending, Apart
    <3>. QED
      BY <1>0, <3>1, <3>2, <3>3 DEF PushInv, RepeatPushHasACause
  <2>6. NoticeInv'
    BY <1>0, <2>1, NoticesKept
  <2>7. /\ req'[r].left = {} /\ req'[r].at \in {"idle", "check", "list"}
        /\ \A q \in Requests \ {r} : Apart(q)
    BY <2>1
  <2>. QED
    BY <2>1, <2>4, <2>5, <2>6, <2>7
<1>3. \/ NextUser(r)
      \/ ~IsDuplicate(Key(r)) /\ Begins(r)
  BY DEF PassPreferences, Begins
<1>. QED
  BY <1>1, <1>2, <1>3

LEMMA CheckingKeeps ==
    ASSUME NotifyAssumption, NotifyInv, NEW r \in Requests, CheckPreferences(r)
    PROVE  NotifyInv'
<1>0. /\ TypeOK /\ RivalsKnow /\ Shape(req[r]) /\ PushInv /\ DeviceInv /\ PrefsInv /\ NoticeInv
      /\ req[r] \in Request
  BY DEF NotifyInv, BaseInv, TypeOK
<1>1. /\ UNCHANGED <<clock, boot, tables, expires, pushHistory, prefHistory, geoHistory>>
      /\ req[r].kind = "announce" /\ req[r].at = "check"
  BY DEF CheckPreferences, At
<1>2. UNCHANGED <<clock, boot, prefs, device, expires, last, repeats, moved, strays, unwanted,
                  logs, promised, crossed, swallowed, told, retold>>
  BY <1>1 DEF tables, pushHistory, prefHistory, geoHistory
<1>3. PICK u \in Users, kind \in Kinds : u = req[r].user /\ kind = req[r].topic[1]
  BY <1>0, <1>1, KeyTyped DEF Topics
<1>4. /\ req' \in [Requests -> Request] /\ (\A q \in Requests : Shape(req[q]))'
      /\ \A q \in Requests \ {r} : Apart(q)
      /\ req'[r].left = {} /\ req'[r].at \in {"idle", "check", "list", "insert"}
      /\ req'[r].at = "insert" => req'[r].user = u /\ prefs[u] = NoRow
      /\ RivalsKnow' /\ PushInv' /\ NoticeInv'
      /\ req'[r].forbade =>
             req'[r].user = u /\ ~Refuses(prefs[u], kind) /\ AskedNot(u, kind)
  <2>1. CASE prefs[u] = NoRow /\ Goto(r, "insert")
    <3>1. PICK new : new = [req[r] EXCEPT !.at = "insert"]
      OBVIOUS
    <3>2. new \in Request /\ new.at = "insert" /\ new.user = u
      BY <1>0, <1>3, <3>1 DEF Request, Steps
    <3>3. Shape(new) /\ Outside(new) /\ Outside(req[r])
      BY <1>0, <1>1, <3>1 DEF Shape, Outside, Request
    <3>4. req' = [req EXCEPT ![r] = new]
      BY <2>1, <3>1 DEF Goto
    <3>5. Elsewhere(r)
      BY <3>2, <3>3, <3>4 DEF Elsewhere
    <3>6. req'[r] = new
      BY <1>0, <3>4 DEF TypeOK
    <3>7. ~req'[r].forbade
      BY <3>3, <3>6 DEF Shape, Outside
    <3>. QED
      BY <1>2, <2>1, <3>2, <3>5, <3>6, <3>7, ElsewhereKeeps
  <2>2. CASE NextUser(r)
    <3>1. Ends(r)
      BY <1>0, <1>1, <2>2, NextUserKnown
    <3>2. Elsewhere(r)
      BY <1>1, <3>1 DEF Ends, Elsewhere, Outside
    <3>3. req'[r].at \in {"idle", "check"}
      BY <1>0, <3>1, EndsKnown
    <3>4. (\A q \in Requests : Shape(req[q]))'
      BY <1>2, <3>2, ElsewhereKeeps
    <3>5. ~req'[r].forbade
      BY <3>3, <3>4 DEF Shape
    <3>. QED
      BY <1>2, <3>2, <3>3, <3>5, ElsewhereKeeps
  <2>3. CASE ~Refuses(prefs[u], kind) /\ PassPreferences(r)
    BY <1>1, <1>2, <1>3, <2>3, PassKeeps
  <2>. QED
    BY <1>3, <2>1, <2>2, <2>3 DEF CheckPreferences
<1>5. req'[r].forbade => req'[r].user \in Spoilt
  <2>. SUFFICES ASSUME req'[r].forbade, u \notin Spoilt PROVE FALSE
    BY <1>4
  <2>1. promised[u] = NoRow \/ promised[u] = prefs[u]
    BY <1>0 DEF PrefsInv, Answered
  <2>. QED
    BY <1>0, <1>4, <2>1, NotRefused
<1>6. TypeOK'
  BY <1>0, <1>2, <1>4 DEF TypeOK
<1>7. DeviceInv'
  BY <1>0, <1>2, <1>4, DevicesKept
<1>8. PrefsInv'
  <2>1. \A v \in Users \ Spoilt' : Answered(v)'
    BY <1>0, <1>2 DEF PrefsInv, Answered, Spoilt
  <2>2. ASSUME NEW q \in Requests
        PROVE  /\ req'[q].kind = "update" /\ req'[q].at = "save" /\ req'[q].copy = NoRow =>
                      prefs'[req'[q].user] = NoRow \/ req'[q].user \in crossed'
               /\ req'[q].at = "insert" /\ req'[q].user \notin Spoilt' =>
                      promised'[req'[q].user] = NoRow
               /\ req'[q].forbade => req'[q].user \in Spoilt'
    <3>1. CASE q = r
      BY <1>0, <1>2, <1>4, <1>5, <3>1 DEF PrefsInv, Answered, Spoilt
    <3>2. CASE q # r
      BY <1>0, <1>2, <1>4, <3>2 DEF PrefsInv, Apart, Spoilt
    <3>. QED
      BY <3>1, <3>2
  <2>. QED
    BY <1>0, <1>2, <2>1, <2>2 DEF PrefsInv, UnwantedPushHasACause
<1>. QED
  BY <1>4, <1>6, <1>7, <1>8 DEF NotifyInv, BaseInv

LEMMA InsertingKeeps ==
    ASSUME NotifyAssumption, NotifyInv, NEW r \in Requests, InsertToSend(r)
    PROVE  NotifyInv'
<1>0. /\ TypeOK /\ RivalsKnow /\ Shape(req[r]) /\ PushInv /\ DeviceInv /\ PrefsInv /\ NoticeInv
  BY DEF NotifyInv, BaseInv, TypeOK
<1>1. /\ UNCHANGED <<clock, boot, device, logs, expires, pushHistory, geoHistory>>
      /\ req[r].kind = "announce" /\ req[r].at = "insert"
  BY DEF InsertToSend, At
<1>2. UNCHANGED <<clock, boot, device, expires, last, repeats, moved, strays, unwanted, logs,
                  told, retold>>
  BY <1>1 DEF pushHistory, geoHistory
<1>3. PICK u \in Users, kind \in Kinds : u = req[r].user /\ kind = req[r].topic[1]
  BY <1>0, <1>1, KeyTyped DEF Topics
<1>4. /\ req' \in [Requests -> Request] /\ (\A q \in Requests : Shape(req[q]))'
      /\ \A q \in Requests \ {r} : Apart(q)
      /\ req'[r].left = {} /\ req'[r].at \in {"idle", "check", "list"}
      /\ RivalsKnow' /\ PushInv' /\ NoticeInv'
      /\ req'[r].forbade => req'[r].user = u /\ AskedNot(u, kind)
  BY <1>1, <1>2, <1>3, PassKeeps DEF InsertToSend
<1>5. /\ prefs' \in [Users -> Row \cup {NoRow}] /\ UNCHANGED <<promised, swallowed>>
      /\ crossed \subseteq crossed' /\ crossed' \subseteq Users
      /\ \A v \in Users \ Spoilt' : Answered(v)'
      /\ \A q \in Requests \ {r} :
             /\ req[q].kind = "update" /\ req[q].at = "save" /\ req[q].copy = NoRow =>
                    prefs'[req[q].user] = NoRow \/ req[q].user \in crossed'
             /\ req[q].at = "insert" /\ req[q].user \notin Spoilt' =>
                    promised'[req[q].user] = NoRow
  BY <1>1, <1>3, InsertKnown DEF InsertToSend
<1>6. req'[r].forbade => req'[r].user \in Spoilt'
  <2>1. CASE u \in Spoilt
    BY <1>4, <1>5, <2>1 DEF Spoilt
  <2>2. CASE u \notin Spoilt
    <3>1. promised[u] = NoRow
      BY <1>0, <1>1, <1>3, <2>2 DEF PrefsInv
    <3>. QED
      BY <1>4, <3>1 DEF AskedNot
  <2>. QED
    BY <2>1, <2>2
<1>7. TypeOK'
  BY <1>0, <1>2, <1>4, <1>5 DEF TypeOK
<1>8. DeviceInv'
  BY <1>0, <1>2, <1>4, DevicesKept
<1>9. PrefsInv'
  <2>1. ASSUME NEW q \in Requests
        PROVE  /\ req'[q].kind = "update" /\ req'[q].at = "save" /\ req'[q].copy = NoRow =>
                      prefs'[req'[q].user] = NoRow \/ req'[q].user \in crossed'
               /\ req'[q].at = "insert" /\ req'[q].user \notin Spoilt' =>
                      promised'[req'[q].user] = NoRow
               /\ req'[q].forbade => req'[q].user \in Spoilt'
    <3>1. CASE q = r
      BY <1>4, <1>6, <3>1
    <3>2. CASE q # r
      BY <1>0, <1>4, <1>5, <3>2 DEF Apart, PrefsInv, Spoilt
    <3>. QED
      BY <3>1, <3>2
  <2>2. UnwantedPushHasACause'
    BY <1>0, <1>2, <1>5 DEF PrefsInv, UnwantedPushHasACause
  <2>. QED
    BY <1>5, <2>1, <2>2 DEF PrefsInv
<1>. QED
  BY <1>4, <1>7, <1>8, <1>9 DEF NotifyInv, BaseInv

\* Everything but the memory of pushes and the devices, at a step of a push.
LEMMA SendingKeeps ==
    ASSUME NotifyInv, NEW r \in Requests, Sending(r),
           (Ends(r) \/ \E T, got : SendsOn(r, T, got)) \/
           (\E t \in req[r].left : req' = [req EXCEPT ![r].at = "drop", ![r].token = t]),
           UNCHANGED <<clock, boot, logs, prefs, prefHistory, told, retold>>,
           unwanted' = unwanted \/ UnwantedPushHasACause'
    PROVE  /\ req' \in [Requests -> Request] /\ (\A q \in Requests : Shape(req[q]))'
           /\ \A q \in Requests \ {r} : req'[q] = req[q] /\ Apart(q)
           /\ Sending(r)' => /\ Key(r)' = Key(r) /\ req'[r].user = req[r].user
                             /\ req'[r].rival = req[r].rival
           /\ ~Sending(r)' => req'[r].left = {}
           /\ RivalsKnow' /\ PrefsInv' /\ NoticeInv'
<1>0. /\ TypeOK /\ RivalsKnow /\ PrefsInv /\ NoticeInv /\ \A q \in Requests : Shape(req[q])
      /\ req[r] \in Request /\ req \in [Requests -> Request]
  BY DEF NotifyInv, BaseInv, TypeOK
<1>1. req[r].kind = "announce"
  BY <1>0, KeyTyped
<1>2. /\ req' \in [Requests -> Request] /\ Shape(req'[r])
      /\ \A q \in Requests \ {r} : req'[q] = req[q] /\ Apart(q)
      /\ Sending(r)' => /\ Key(r)' = Key(r) /\ req'[r].user = req[r].user
                        /\ req'[r].rival = req[r].rival
      /\ req'[r].at \in {"idle", "check", "send", "drop"}
      /\ ~Sending(r)' => req'[r].left = {}
      /\ req'[r].forbade => req[r].forbade /\ req'[r].user = req[r].user
  <2>1. CASE Ends(r)
    BY <1>0, <2>1, EndsKnown DEF Sending
  <2>2. CASE \E T, got : SendsOn(r, T, got)
    BY <1>0, <2>2, SendsOnKnown DEF Sending
  <2>3. CASE \E t \in req[r].left : req' = [req EXCEPT ![r].at = "drop", ![r].token = t]
    <3>1. PICK t \in req[r].left : req' = [req EXCEPT ![r].at = "drop", ![r].token = t]
      BY <2>3
    <3>2. PICK new : new = [req[r] EXCEPT !.at = "drop", !.token = t]
      OBVIOUS
    <3>3. t \in Tokens
      BY <1>0 DEF Request
    <3>4. new \in Request
      BY <1>0, <3>2, <3>3 DEF Request, Steps
    <3>5. /\ Shape(new) /\ new.at = "drop" /\ new.user = req[r].user
          /\ new.topic = req[r].topic /\ new.rival = req[r].rival
          /\ new.forbade = req[r].forbade
      BY <1>0, <1>1, <3>2 DEF Shape, Request
    <3>6. req' = [req EXCEPT ![r] = new]
      BY <3>1, <3>2
    <3>. QED
      BY <1>0, <3>4, <3>5, <3>6, Becoming DEF Apart, Key, Sending
  <2>. QED
    BY <2>1, <2>2, <2>3
<1>3. (\A q \in Requests : Shape(req[q]))'
  BY <1>0, <1>2
<1>4. RivalsKnow'
  <2>1. Sending(r)' => Sending(r) /\ Key(r)' = Key(r) /\ req'[r].rival = req[r].rival
    BY <1>2
  <2>2. ~Noticing(r)'
    BY <1>2 DEF Noticing
  <2>. QED
    BY <1>0, <1>2, <2>1, <2>2, RivalsKept
<1>5. PrefsInv'
  <2>1. req'[r].forbade => req'[r].user \in Spoilt
    BY <1>0, <1>2 DEF PrefsInv
  <2>. QED
    BY <1>0, <1>2, <2>1, PrefsKept
<1>6. NoticeInv'
  BY <1>0, <1>2, NoticesKept
<1>. QED
  BY <1>2, <1>3, <1>4, <1>5, <1>6

LEMMA ListingKeeps ==
    ASSUME NotifyAssumption, NotifyInv, NEW r \in Requests, ListDevices(r)
    PROVE  NotifyInv'
<1>0. /\ BaseInv /\ TypeOK /\ PushInv /\ DeviceInv /\ PrefsInv
      /\ Shape(req[r]) /\ req[r] \in Request /\ req \in [Requests -> Request]
  BY DEF NotifyInv, BaseInv, TypeOK
<1>1. /\ UNCHANGED <<clock, boot, tables, expires, pushHistory, prefHistory, geoHistory>>
      /\ req[r].kind = "announce" /\ req[r].at = "list" /\ Sending(r)
  BY DEF ListDevices, At, Sending
<1>2. UNCHANGED <<clock, boot, expires, prefs, device, logs, unwanted, last, repeats, moved,
                  strays, told, retold>>
  BY <1>1 DEF tables, pushHistory, geoHistory
<1>3. PICK u \in Users : u = req[r].user
  BY <1>0, <1>1, KeyTyped
<1>4. \/ Ends(r)
      \/ SendsOn(r, Listed(u), FALSE)
  <2>1. CASE NextUser(r)
    BY <1>0, <1>1, <2>1, NextUserKnown
  <2>2. CASE req' = [req EXCEPT ![r].at = "send", ![r].left = Listed(u)]
    <3>1. PICK new : new = [req[r] EXCEPT !.at = "send", !.left = Listed(u)]
      OBVIOUS
    <3>2. Listed(u) \subseteq Tokens
      BY DEF Listed
    <3>3. new \in Request
      BY <1>0, <3>1, <3>2 DEF Request, Steps
    <3>4. ~req[r].got /\ req[r].got \in BOOLEAN
      BY <1>0, <1>1 DEF Shape, Request
    <3>5. /\ Shape(new) /\ new.at = "send" /\ new.left = Listed(u) /\ new.got = FALSE
          /\ new.user = req[r].user /\ new.topic = req[r].topic /\ new.rival = req[r].rival
          /\ new.forbade = req[r].forbade
      BY <1>0, <1>1, <3>1, <3>4 DEF Shape, Request
    <3>6. req' = [req EXCEPT ![r] = new]
      BY <2>2, <3>1
    <3>. QED
      BY <3>3, <3>5, <3>6 DEF SendsOn
  <2>. QED
    BY <1>3, <2>1, <2>2 DEF ListDevices
<1>5. /\ req' \in [Requests -> Request] /\ (\A q \in Requests : Shape(req[q]))'
      /\ \A q \in Requests \ {r} : req'[q] = req[q] /\ Apart(q)
      /\ Sending(r)' => /\ Key(r)' = Key(r) /\ req'[r].user = req[r].user
                        /\ req'[r].rival = req[r].rival
      /\ ~Sending(r)' => req'[r].left = {}
      /\ RivalsKnow' /\ PrefsInv' /\ NoticeInv'
  BY <1>1, <1>2, <1>4, SendingKeeps
<1>6. PushInv'
  <2>1. RepeatPushHasACause'
    BY <1>0, <1>2 DEF PushInv, RepeatPushHasACause
  <2>2. ~req[r].got
    BY <1>0, <1>1 DEF Shape
  <2>. QED
    BY <1>0, <1>1, <1>2, <1>5, <2>1, <2>2, PushKept
<1>7. DeviceInv'
  <2>1. \A t \in Listed(u) : device[t] = [user |-> u, active |-> TRUE]
    BY <1>0 DEF Listed, TypeOK
  <2>2. \A t \in req'[r].left : device'[t] = [user |-> req'[r].user, active |-> TRUE]
    <3>1. CASE Ends(r)
      BY <1>0, <3>1, EndsKnown
    <3>2. CASE SendsOn(r, Listed(u), FALSE)
      <4>1. req'[r].left = Listed(u) /\ req'[r].user = u
        BY <1>0, <1>3, <3>2, SendsOnKnown
      <4>. QED
        BY <1>2, <2>1, <4>1
    <3>. QED
      BY <1>4, <3>1, <3>2
  <2>3. ASSUME NEW q \in Requests, NEW t \in req'[q].left
        PROVE  t \in moved'[q] \/ device'[t] = [user |-> req'[q].user, active |-> TRUE]
    <3>1. CASE q = r
      BY <2>2, <2>3, <3>1
    <3>2. CASE q # r
      <4>1. req'[q] = req[q] /\ moved'[q] = moved[q] /\ device'[t] = device[t]
        BY <1>2, <1>5, <3>2
      <4>. QED
        BY <1>0, <2>3, <4>1 DEF DeviceInv
    <3>. QED
      BY <3>1, <3>2
  <2>. QED
    BY <1>0, <1>2, <2>3 DEF DeviceInv, StrayPushHasACause
<1>8. TypeOK'
  BY <1>0, <1>1, <1>5, TypeKept
<1>. QED
  BY <1>5, <1>6, <1>7, <1>8 DEF NotifyInv, BaseInv

\* A push that arrives leaves no repetition or stray without its cause.
LEMMA ArrivalsHaveCauses ==
    ASSUME NotifyAssumption, NotifyInv, NEW r \in Requests, req[r].at = "send",
           NEW t \in req[r].left, Arrived(r, t)
    PROVE  /\ RepeatPushHasACause' /\ StrayPushHasACause'
           /\ last' = [last EXCEPT ![Key(r)] = [at |-> clock, boot |-> boot, broken |-> FALSE]]
<1>0. /\ TypeOK /\ RivalsKnow /\ PushInv /\ DeviceInv /\ Sending(r)
      /\ \A q \in Requests : Shape(req[q])
  BY DEF NotifyInv, BaseInv, Sending
<1>1. PICK k \in Keys : k = Key(r)
  BY <1>0, KeyTyped
<1>2. /\ clock \in Int /\ last[k].at \in Int /\ expires[k] \in Int /\ DedupeWindow \in Nat
      /\ req[r].got \in BOOLEAN /\ req[r].rival \in BOOLEAN
  BY <1>0 DEF TypeOK, NotifyAssumption, Request
<1>3. RepeatPushHasACause'
  <2>. DEFINE cause == [rival |-> req[r].rival, broken |-> last[k].broken,
                        restarted |-> last[k].boot # boot]
  <2>1. ASSUME last[k].at >= 0, ~req[r].got, clock - last[k].at <= DedupeWindow
        PROVE  req[r].rival \/ last[k].broken \/ last[k].boot # boot
    <3>1. CASE expires[k] >= last[k].at + DedupeWindow
      <4>1. ~(expires[k] < clock)
        BY <1>2, <2>1, <3>1
      <4>. QED
        BY <1>0, <1>1, <2>1, <4>1 DEF PushInv, StillNew
    <3>2. CASE \E q \in Requests : req[q].at \in {"send", "drop"} /\ req[q].got /\ Key(q) = k
      BY <1>0, <1>1, <2>1, <3>2 DEF RivalsKnow, Sending
    <3>3. Remembered(k)
      BY <1>0 DEF PushInv
    <3>. QED
      BY <2>1, <3>1, <3>2, <3>3 DEF Remembered
  <2>2. \/ repeats' = repeats
        \/ /\ last[k].at >= 0 /\ ~req[r].got /\ clock - last[k].at <= DedupeWindow
           /\ repeats' = repeats \cup {cause}
    BY <1>1 DEF Arrived
  <2>3. RepeatPushHasACause
    BY <1>0 DEF PushInv
  <2>4. cause.rival = req[r].rival /\ cause.broken = last[k].broken
        /\ cause.restarted = (last[k].boot # boot)
    OBVIOUS
  <2>. HIDE DEF cause
  <2>. QED
    BY <2>1, <2>2, <2>3, <2>4 DEF RepeatPushHasACause
<1>4. StrayPushHasACause'
  <2>1. device[t] # [user |-> req[r].user, active |-> TRUE] => t \in moved[r]
    BY <1>0 DEF DeviceInv
  <2>. QED
    BY <1>0, <2>1 DEF Arrived, DeviceInv, StrayPushHasACause
<1>. QED
  BY <1>3, <1>4 DEF Arrived

\* What the memory of a push and the mark of it may become.
LEMMA MarksTyped ==
    ASSUME NotifyAssumption, TypeOK, NEW k \in Keys
    PROVE  /\ [expires EXCEPT ![k] = clock + DedupeWindow]
                  \in [Keys -> -1 .. Horizon + DedupeWindow]
           /\ [last EXCEPT ![k] = [at |-> clock, boot |-> boot, broken |-> FALSE]]
                  \in [Keys -> [at : -1 .. Horizon, boot : 0 .. MaxBoots, broken : BOOLEAN]]
<1>1. clock + DedupeWindow \in -1 .. Horizon + DedupeWindow /\ clock \in -1 .. Horizon
      /\ boot \in 0 .. MaxBoots
  BY DEF NotifyAssumption, TypeOK
<1>. QED
  BY <1>1 DEF TypeOK

\* Who was pushed to against what was last answered had allowed it at the check, or
\* the row was spoilt then.
LEMMA ArrivalsWereAllowed ==
    ASSUME NotifyInv, NEW r \in Requests, NEW t, req[r].user \in Users, Arrived(r, t),
           UNCHANGED <<crossed, swallowed>>
    PROVE  UnwantedPushHasACause' /\ unwanted' \subseteq [user : Users, forbade : BOOLEAN]
<1>. PICK x : x = [user |-> req[r].user, forbade |-> req[r].forbade]
  OBVIOUS
<1>0. TypeOK /\ PrefsInv /\ req[r].forbade \in BOOLEAN
  BY DEF NotifyInv, BaseInv, TypeOK, Request
<1>1. unwanted' \subseteq unwanted \cup {x}
  BY DEF Arrived
<1>2. x \in [user : Users, forbade : BOOLEAN] /\ (x.forbade => x.user \in crossed \cup swallowed)
  BY <1>0 DEF PrefsInv, Spoilt
<1>3. UnwantedPushHasACause'
  BY <1>0, <1>1, <1>2 DEF PrefsInv, UnwantedPushHasACause
<1>. QED
  BY <1>0, <1>1, <1>2, <1>3 DEF TypeOK

LEMMA SendToDeviceKeeps ==
    ASSUME NotifyAssumption, NotifyInv, NEW r \in Requests, NEW t \in Tokens, SendToDevice(r, t)
    PROVE  NotifyInv'
<1>0. /\ BaseInv /\ TypeOK /\ PushInv /\ DeviceInv /\ PrefsInv
      /\ Shape(req[r]) /\ req[r] \in Request /\ req \in [Requests -> Request]
  BY DEF NotifyInv, BaseInv, TypeOK
<1>1. /\ UNCHANGED <<clock, boot, tables, prefHistory, geoHistory>>
      /\ req[r].kind = "announce" /\ req[r].at = "send" /\ t \in req[r].left
      /\ moved' = [moved EXCEPT ![r] = IF req'[r].at = "drop" THEN @ ELSE @ \ {t}]
  BY DEF SendToDevice, At
<1>2. UNCHANGED <<clock, boot, prefs, device, logs, crossed, swallowed, told, retold>>
  BY <1>1 DEF tables, prefHistory, geoHistory
<1>3. Sending(r) /\ req[r].got \in BOOLEAN /\ req[r].user \in Users
  BY <1>0, <1>1, KeyTyped DEF Sending, Request
<1>4. PICK k \in Keys : k = Key(r)
  BY <1>0, <1>1, KeyTyped
<1>. DEFINE Marked == expires' = [expires EXCEPT ![k] = clock + DedupeWindow]
            NowLast == [last EXCEPT ![k] = [at |-> clock, boot |-> boot, broken |-> FALSE]]
            OnOrDone(got) == \/ Ends(r) /\ Marked
                             \/ SendsOn(r, req[r].left \ {t}, got) /\ expires' = expires
            Dropping == /\ req' = [req EXCEPT ![r].at = "drop", ![r].token = t]
                        /\ expires' = expires
<1>5. /\ RepeatPushHasACause' /\ StrayPushHasACause' /\ UnwantedPushHasACause'
      /\ unwanted' \subseteq [user : Users, forbade : BOOLEAN]
      /\ \/ last' = NowLast /\ OnOrDone(TRUE)
         \/ last' = last /\ (OnOrDone(req[r].got) \/ Dropping)
  <2>1. CASE Arrived(r, t) /\ AfterDevice(r, t, TRUE)
    <3>1. UnwantedPushHasACause' /\ unwanted' \subseteq [user : Users, forbade : BOOLEAN]
      BY <1>2, <1>3, <2>1, ArrivalsWereAllowed
    <3>. QED
      BY <1>0, <1>1, <1>4, <2>1, <3>1, ArrivalsHaveCauses, AfterDeviceKnown
  <2>2. CASE /\ AfterDevice(r, t, req[r].got) \/ Dropping
             /\ UNCHANGED <<last, repeats, strays, unwanted>>
    <3>1. OnOrDone(req[r].got) \/ Dropping
      BY <1>0, <1>1, <1>3, <1>4, <2>2, AfterDeviceKnown
    <3>2. RepeatPushHasACause' /\ StrayPushHasACause'
      BY <1>0, <2>2 DEF PushInv, DeviceInv, RepeatPushHasACause, StrayPushHasACause
    <3>3. UnwantedPushHasACause' /\ unwanted' \subseteq [user : Users, forbade : BOOLEAN]
      BY <1>0, <1>2, <2>2 DEF PrefsInv, UnwantedPushHasACause, TypeOK
    <3>. QED
      BY <2>2, <3>1, <3>2, <3>3
  <2>. QED
    BY <2>1, <2>2 DEF SendToDevice
<1>6. /\ req' \in [Requests -> Request] /\ (\A q \in Requests : Shape(req[q]))'
      /\ \A q \in Requests \ {r} : req'[q] = req[q] /\ Apart(q)
      /\ Sending(r)' => /\ Key(r)' = Key(r) /\ req'[r].user = req[r].user
                        /\ req'[r].rival = req[r].rival
      /\ ~Sending(r)' => req'[r].left = {}
      /\ RivalsKnow' /\ PrefsInv' /\ NoticeInv'
  <2>1. (Ends(r) \/ \E T, got : SendsOn(r, T, got)) \/
        (\E x \in req[r].left : req' = [req EXCEPT ![r].at = "drop", ![r].token = x])
    BY <1>1, <1>5
  <2>. QED
    BY <1>1, <1>2, <1>3, <1>5, <2>1, SendingKeeps
<1>7. /\ Ends(r) => ~Sending(r)' /\ req'[r].at # "drop"
      /\ \A T, got : SendsOn(r, T, got) =>
             req'[r].at = "send" /\ req'[r].left = T /\ (req'[r].got <=> got)
      /\ Dropping => /\ req'[r].at = "drop" /\ req'[r].left = req[r].left
                     /\ req'[r].got = req[r].got
  BY <1>0, EndsKnown, SendsOnKnown DEF Sending, Request
<1>8. PushInv'
  <2>1. \/ last' = last
        \/ last' = [last EXCEPT ![Key(r)] = [at |-> clock, boot |-> boot, broken |-> FALSE]]
    BY <1>4, <1>5
  <2>2. \/ expires' = expires
        \/ expires' = [expires EXCEPT ![Key(r)] = clock + DedupeWindow] /\ ~Sending(r)'
    BY <1>4, <1>5, <1>7
  <2>3. (last' # last \/ req[r].got) =>
            \/ expires' = [expires EXCEPT ![Key(r)] = clock + DedupeWindow]
            \/ req'[r].at \in {"send", "drop"} /\ req'[r].got
    BY <1>4, <1>5, <1>7
  <2>4. Sending(r)' => (req[r].got => req'[r].got)
    BY <1>5, <1>7
  <2>. HIDE DEF Marked, NowLast, OnOrDone, Dropping
  <2>. QED
    BY <1>0, <1>1, <1>2, <1>3, <1>5, <1>6, <2>1, <2>2, <2>3, <2>4, PushKept
<1>9. DeviceInv'
  <2>1. moved \in [Requests -> SUBSET Tokens]
    BY <1>0 DEF TypeOK
  <2>2. \A q \in Requests \ {r} : moved'[q] = moved[q]
    BY <1>1, <2>1
  <2>3. moved'[r] = IF req'[r].at = "drop" THEN moved[r] ELSE moved[r] \ {t}
    BY <1>1, <2>1
  <2>4. \/ req'[r].left = {}
        \/ /\ req'[r].user = req[r].user
           /\ \A x \in req'[r].left : x \in req[r].left /\ (x \in moved[r] => x \in moved'[r])
    <3>1. CASE Ends(r)
      BY <1>6, <1>7, <3>1
    <3>2. CASE \E got : SendsOn(r, req[r].left \ {t}, got)
      BY <1>6, <1>7, <2>3, <3>2 DEF Sending
    <3>3. CASE Dropping
      BY <1>6, <1>7, <2>3, <3>3 DEF Sending
    <3>. QED
      BY <1>5, <3>1, <3>2, <3>3
  <2>. QED
    BY <1>0, <1>2, <1>5, <1>6, <2>2, <2>4, DevicesKept
<1>10. TypeOK'
  <2>1. moved' \in [Requests -> SUBSET Tokens]
    BY <1>0, <1>1 DEF TypeOK
  <2>2. /\ expires' \in [Keys -> -1 .. Horizon + DedupeWindow]
        /\ last' \in [Keys -> [at : -1 .. Horizon, boot : 0 .. MaxBoots, broken : BOOLEAN]]
    <3>1. (expires' = expires \/ Marked) /\ (last' = last \/ last' = NowLast)
      BY <1>5
    <3>2. /\ expires \in [Keys -> -1 .. Horizon + DedupeWindow]
          /\ last \in [Keys -> [at : -1 .. Horizon, boot : 0 .. MaxBoots, broken : BOOLEAN]]
      BY <1>0 DEF TypeOK
    <3>3. /\ [expires EXCEPT ![k] = clock + DedupeWindow]
                 \in [Keys -> -1 .. Horizon + DedupeWindow]
          /\ NowLast \in [Keys -> [at : -1 .. Horizon, boot : 0 .. MaxBoots, broken : BOOLEAN]]
      BY <1>0, MarksTyped
    <3>4. expires' \in [Keys -> -1 .. Horizon + DedupeWindow]
      BY <3>1, <3>2, <3>3
    <3>5. last' \in [Keys -> [at : -1 .. Horizon, boot : 0 .. MaxBoots, broken : BOOLEAN]]
      BY <3>1, <3>2, <3>3
    <3>. QED
      BY <3>4, <3>5
  <2>. QED
    BY <1>0, <1>1, <1>2, <1>5, <1>6, <2>1, <2>2 DEF TypeOK, prefHistory
<1>. QED
  BY <1>6, <1>8, <1>9, <1>10 DEF NotifyInv, BaseInv

LEMMA DroppingKeeps ==
    ASSUME NotifyAssumption, NotifyInv, NEW r \in Requests, MarkDeviceInactive(r)
    PROVE  NotifyInv'
<1>0. /\ BaseInv /\ TypeOK /\ PushInv /\ DeviceInv /\ PrefsInv
      /\ Shape(req[r]) /\ req[r] \in Request /\ req \in [Requests -> Request]
      /\ \A q \in Requests : req[q].left \subseteq Tokens
  BY DEF NotifyInv, BaseInv, TypeOK, Request
<1>1. /\ UNCHANGED <<clock, boot, prefs, logs, unwanted, last, repeats, strays, prefHistory,
                     geoHistory>>
      /\ req[r].kind = "announce" /\ req[r].at = "drop"
  BY DEF MarkDeviceInactive, At
<1>2. UNCHANGED <<told, retold>>
  BY <1>1 DEF geoHistory
<1>3. Sending(r) /\ req[r].got \in BOOLEAN
  BY <1>0, <1>1 DEF Sending, Request
<1>4. PICK k \in Keys : k = Key(r)
  BY <1>0, <1>1, KeyTyped
<1>5. PICK t \in req[r].left :
          /\ t \in Tokens /\ device' = [device EXCEPT ![t].active = FALSE]
          /\ moved' = [q \in Requests |->
                IF q = r THEN moved[r] \ {t}
                ELSE IF t \in req[q].left THEN moved[q] \cup {t} ELSE moved[q]]
          /\ AfterDevice(r, t, req[r].got)
  BY <1>0, <1>1 DEF MarkDeviceInactive, Shape
<1>6. \/ Ends(r) /\ expires' = [expires EXCEPT ![k] = clock + DedupeWindow]
      \/ SendsOn(r, req[r].left \ {t}, req[r].got) /\ expires' = expires
  BY <1>0, <1>1, <1>3, <1>4, <1>5, AfterDeviceKnown
<1>7. /\ req' \in [Requests -> Request] /\ (\A q \in Requests : Shape(req[q]))'
      /\ \A q \in Requests \ {r} : req'[q] = req[q] /\ Apart(q)
      /\ Sending(r)' => /\ Key(r)' = Key(r) /\ req'[r].user = req[r].user
                        /\ req'[r].rival = req[r].rival
      /\ ~Sending(r)' => req'[r].left = {}
      /\ RivalsKnow' /\ PrefsInv' /\ NoticeInv'
  <2>1. Ends(r) \/ \E T, got : SendsOn(r, T, got)
    BY <1>6
  <2>. QED
    BY <1>1, <1>2, <1>3, <2>1, SendingKeeps
<1>8. /\ Ends(r) => ~Sending(r)'
      /\ SendsOn(r, req[r].left \ {t}, req[r].got) =>
             /\ req'[r].at = "send" /\ req'[r].left = req[r].left \ {t}
             /\ req'[r].got = req[r].got
  BY <1>0, EndsKnown, SendsOnKnown DEF Sending
<1>9. PushInv'
  <2>1. RepeatPushHasACause'
    BY <1>0, <1>1 DEF PushInv, RepeatPushHasACause
  <2>2. \/ expires' = expires
        \/ expires' = [expires EXCEPT ![Key(r)] = clock + DedupeWindow] /\ ~Sending(r)'
    BY <1>4, <1>6, <1>8
  <2>3. req[r].got =>
            \/ expires' = [expires EXCEPT ![Key(r)] = clock + DedupeWindow]
            \/ req'[r].at \in {"send", "drop"} /\ req'[r].got
    BY <1>4, <1>6, <1>8
  <2>4. Sending(r)' => (req[r].got => req'[r].got)
    BY <1>6, <1>8
  <2>. QED
    BY <1>0, <1>1, <1>3, <1>7, <2>1, <2>2, <2>3, <2>4, PushKept
<1>10. DeviceInv'
  <2>1. \A x \in Tokens \ {t} : device'[x] = device[x]
    BY <1>0, <1>5 DEF TypeOK
  <2>2. /\ moved'[r] = moved[r] \ {t}
        /\ \A q \in Requests \ {r} : /\ moved[q] \subseteq moved'[q]
                                     /\ t \in req[q].left => t \in moved'[q]
    BY <1>5
  <2>3. ASSUME NEW q \in Requests
        PROVE  \/ req'[q].left = {}
               \/ /\ req'[q].user = req[q].user
                  /\ req'[q].left \subseteq req[q].left \cap Tokens
                  /\ moved[q] \ {t} \subseteq moved'[q]
                  /\ t \in req'[q].left => t \in moved'[q]
    <3>1. CASE q # r
      BY <1>0, <1>7, <2>2, <3>1
    <3>2. CASE q = r
      BY <1>0, <1>6, <1>7, <1>8, <2>2, <3>2 DEF Sending
    <3>. QED
      BY <3>1, <3>2
  <2>. QED
    BY <1>0, <1>1, <1>5, <2>1, <2>3, ChangingKeeps
<1>11. TypeOK'
  <2>1. moved' \in [Requests -> SUBSET Tokens]
    BY <1>0, <1>5 DEF TypeOK
  <2>2. device' \in [Tokens -> [user : Someone, active : BOOLEAN]]
    <3>1. device \in [Tokens -> [user : Someone, active : BOOLEAN]]
      BY <1>0 DEF TypeOK
    <3>2. PICK old \in [user : Someone, active : BOOLEAN] : old = device[t]
      BY <1>5, <3>1
    <3>3. PICK row \in [user : Someone, active : BOOLEAN] : row = [old EXCEPT !.active = FALSE]
      OBVIOUS
    <3>4. device' = [device EXCEPT ![t] = row]
      BY <1>5, <3>1, <3>2, <3>3
    <3>. QED
      BY <3>1, <3>4
  <2>3. expires' \in [Keys -> -1 .. Horizon + DedupeWindow]
    <3>1. \/ expires' = expires
          \/ expires' = [expires EXCEPT ![k] = clock + DedupeWindow]
      BY <1>6
    <3>2. expires \in [Keys -> -1 .. Horizon + DedupeWindow]
      BY <1>0 DEF TypeOK
    <3>. QED
      BY <1>0, <3>1, <3>2, MarksTyped
  <2>. QED
    BY <1>0, <1>1, <1>2, <1>7, <2>1, <2>2, <2>3 DEF TypeOK, prefHistory
<1>. QED
  BY <1>7, <1>9, <1>10, <1>11 DEF NotifyInv, BaseInv

-------------------------------------------------------------------------------
(* The steps of a geofence check. *)

\* r finds a venue due, and whoever is telling the user of it already learns of it.
Tells(r, v) ==
    req' = [q \in Requests |->
               IF q = r
               THEN [req[r] EXCEPT !.at = "notice", !.token = v, !.rival = Overlaps(r, v)]
               ELSE [req[q] EXCEPT !.rival = @ \/
                        (req[q].kind = "geofence" /\ req[q].user = req[r].user
                           /\ req[q].at \in {"notice", "log"} /\ req[q].token = v)]]

LEMMA NoticingIsGeofence ==
    ASSUME BaseInv, NEW q \in Requests, Noticing(q)
    PROVE  /\ req[q].kind = "geofence" /\ req[q].user \in Users
           /\ req[q].token \in req[q].rest /\ req[q].token \in Venues
<1>1. req[q] \in Request /\ Shape(req[q]) /\ req[q].at \in {"notice", "log"}
  BY DEF BaseInv, TypeOK, Noticing
<1>2. req[q].kind = "geofence"
  BY <1>1 DEF Request, Shape, Idle
<1>. QED
  BY <1>1, <1>2 DEF Shape

LEMMA TellsKnown ==
    ASSUME BaseInv, NEW r \in Requests, req[r].kind = "geofence", req[r].at = "cooldown",
           NEW v \in req[r].rest, Tells(r, v)
    PROVE  /\ req' \in [Requests -> Request] /\ (\A q \in Requests : Shape(req[q]))'
           /\ req'[r].at = "notice" /\ req'[r].left = {}
           /\ req'[r].user = req[r].user /\ req'[r].token = v
           /\ \A q \in Requests \ {r} : Apart(q)
           /\ RivalsKnow'
<1>0. /\ TypeOK /\ RivalsKnow /\ \A q \in Requests : Shape(req[q])
      /\ \A q \in Requests : req[q] \in Request
  BY DEF BaseInv, TypeOK
<1>1. PICK some \in BOOLEAN : some = Overlaps(r, v)
  BY DEF Overlaps
<1>2. PICK new : new = [req[r] EXCEPT !.at = "notice", !.token = v, !.rival = some]
  OBVIOUS
<1>3. v \in Venues
  BY <1>0 DEF Shape
<1>4. new \in Request
  <2>1. PICK w \in Tokens \cup Venues \cup {NoOne} : w = v
    BY <1>3
  <2>2. new = [req[r] EXCEPT !.at = "notice", !.token = w, !.rival = some]
    BY <1>2, <2>1
  <2>3. PICK q \in Request : q = req[r]
    BY <1>0
  <2>4. [q EXCEPT !.at = "notice", !.token = w, !.rival = some] \in Request
    BY DEF Request, Steps
  <2>. QED
    BY <2>2, <2>3, <2>4
<1>5. /\ Shape(new) /\ new.at = "notice" /\ new.left = {} /\ new.rival = some
      /\ new.user = req[r].user /\ new.token = v
  BY <1>0, <1>2 DEF Shape, Request
<1>6. req'[r] = new
  BY <1>1, <1>2 DEF Tells
<1>7. ASSUME NEW q \in Requests \ {r}
      PROVE  /\ req'[q] \in Request /\ Shape(req'[q]) /\ Apart(q)
             /\ Noticing(q) /\ NoticeOf(q) = <<req[r].user, v>> => req'[q].rival
  <2>. DEFINE same == /\ req[q].kind = "geofence" /\ req[q].user = req[r].user
                      /\ req[q].at \in {"notice", "log"} /\ req[q].token = v
  <2>1. PICK knows \in BOOLEAN : knows = (req[q].rival \/ same)
    OBVIOUS
  <2>2. req'[q] = [req[q] EXCEPT !.rival = knows]
    BY <2>1 DEF Tells
  <2>3. req'[q] \in Request /\ req'[q].rival = knows
    BY <1>0, <2>2 DEF Request
  <2>4. /\ req'[q].kind = req[q].kind /\ req'[q].at = req[q].at /\ req'[q].user = req[q].user
        /\ req'[q].topic = req[q].topic /\ req'[q].token = req[q].token
        /\ req'[q].left = req[q].left /\ req'[q].got = req[q].got
        /\ req'[q].copy = req[q].copy /\ req'[q].rest = req[q].rest
        /\ req'[q].dto = req[q].dto /\ req'[q].forbade = req[q].forbade
    BY <1>0, <2>2 DEF Request
  <2>5. req[q] # Idle => Shape(req'[q])
    BY <1>0, <2>4 DEF Shape
  <2>6. ASSUME req[q] = Idle PROVE req'[q] = Idle
    <3>1. ~req[q].rival /\ req[q].at = "idle"
      BY <2>6 DEF Idle
    <3>2. ~knows
      BY <2>1, <3>1
    <3>3. req'[q] = [Idle EXCEPT !.rival = FALSE]
      BY <2>2, <2>6, <3>2
    <3>. QED
      BY <3>3 DEF Idle
  <2>7. Noticing(q) /\ NoticeOf(q) = <<req[r].user, v>> => same
    BY NoticingIsGeofence DEF NoticeOf, Noticing
  <2>. QED
    BY <2>1, <2>3, <2>4, <2>5, <2>6, <2>7, IdleTyped DEF Apart
<1>8. req' \in [Requests -> Request]
  <2>1. req' = [q \in Requests |-> req'[q]]
    BY DEF Tells
  <2>. QED
    BY <1>4, <1>6, <1>7, <2>1
<1>9. RivalsKnow'
  <2>. SUFFICES ASSUME NEW p \in Requests, NEW q \in Requests, p # q
                PROVE  /\ Sending(p)' /\ Sending(q)' /\ Key(p)' = Key(q)' => req'[p].rival
                       /\ Noticing(p)' /\ Noticing(q)' /\ NoticeOf(p)' = NoticeOf(q)'
                              => req'[p].rival
    BY DEF RivalsKnow
  <2>1. ~Sending(r)' /\ NoticeOf(r)' = <<req[r].user, v>>
    BY <1>5, <1>6 DEF Sending, NoticeOf
  <2>2. \A x \in Requests \ {r} :
            /\ Sending(x)' => Sending(x)
            /\ Noticing(x)' => Noticing(x)
            /\ Key(x)' = Key(x) /\ NoticeOf(x)' = NoticeOf(x)
            /\ req[x].rival => req'[x].rival
    BY <1>7 DEF Apart, Sending, Noticing, Key, NoticeOf
  <2>3. CASE p = r
    <3>1. Noticing(q)' /\ NoticeOf(q)' = <<req[r].user, v>> => Overlaps(r, v)
      BY <2>2, <2>3, NoticingIsGeofence DEF Overlaps, Noticing, NoticeOf
    <3>. QED
      BY <1>1, <1>5, <1>6, <2>1, <2>3, <3>1
  <2>4. CASE q = r
    BY <1>7, <2>1, <2>2, <2>4
  <2>5. CASE p # r /\ q # r
    BY <1>0, <2>2, <2>5 DEF RivalsKnow
  <2>. QED
    BY <2>3, <2>4, <2>5
<1>. QED
  BY <1>5, <1>6, <1>7, <1>8, <1>9

\* The rows of geofence_logs.
LEMMA LogsTyped ==
    ASSUME NotifyAssumption, TypeOK
    PROVE  /\ \A i \in DOMAIN logs : /\ logs[i].user \in Users /\ logs[i].venue \in Venues
                                     /\ logs[i].at \in Nat
           /\ \A u \in Users, v \in Venues : told[u][v].at \in Int
<1>. DEFINE L == [user : Users, venue : Venues, at : 0 .. Horizon]
<1>1. logs \in Seq(L) /\ \A x \in L : x.user \in Users /\ x.venue \in Venues /\ x.at \in Nat
  BY DEF TypeOK, NotifyAssumption
<1>2. \A u \in Users, v \in Venues : told[u][v].at \in Int
  BY DEF TypeOK, NotifyAssumption
<1>. HIDE DEF L
<1>3. \A i \in DOMAIN logs : logs[i] \in L
  BY <1>1
<1>. QED
  BY <1>1, <1>2, <1>3

LEMMA CoolingKeeps ==
    ASSUME NotifyAssumption, NotifyInv, NEW r \in Requests, CheckCooldown(r)
    PROVE  NotifyInv'
<1>0. /\ BaseInv /\ TypeOK /\ PushInv /\ DeviceInv /\ PrefsInv /\ NoticeInv
      /\ Shape(req[r]) /\ req[r] \in Request /\ req \in [Requests -> Request]
  BY DEF NotifyInv, BaseInv, TypeOK
<1>1. /\ UNCHANGED <<clock, boot, tables, expires, pushHistory, prefHistory, geoHistory>>
      /\ req[r].kind = "geofence" /\ req[r].at = "cooldown"
  BY DEF CheckCooldown, At
<1>2. UNCHANGED <<clock, boot, expires, prefs, device, logs, unwanted, last, repeats, moved,
                  strays, told, retold>>
  BY <1>1 DEF tables, pushHistory, geoHistory
<1>3. PICK v \in req[r].rest :
          \/ Finish(r)
          \/ req' = [req EXCEPT ![r].rest = @ \ {v}]
          \/ ~InCooldown(req[r].user, v) /\ Tells(r, v)
  BY DEF CheckCooldown, Tells
<1>4. /\ req' \in [Requests -> Request] /\ (\A q \in Requests : Shape(req[q]))'
      /\ \A q \in Requests \ {r} : Apart(q)
      /\ req'[r].left = {} /\ req'[r].at \in {"idle", "cooldown", "notice"}
      /\ RivalsKnow' /\ PushInv' /\ NoticeInv'
  <2>1. CASE Finish(r)
    <3>1. Elsewhere(r) /\ req'[r].at = "idle"
      BY <1>0, <1>1, <2>1, IdleTyped DEF Finish, Elsewhere, Outside, Idle
    <3>. QED
      BY <1>2, <3>1, ElsewhereKeeps
  <2>2. CASE req' = [req EXCEPT ![r].rest = @ \ {v}]
    <3>1. PICK S \in (SUBSET Users) \cup (SUBSET Venues) : S = req[r].rest \ {v}
      BY <1>0, <1>1 DEF Shape
    <3>2. PICK new : new = [req[r] EXCEPT !.rest = S]
      OBVIOUS
    <3>3. new \in Request /\ new.at = "cooldown"
      BY <1>0, <1>1, <3>2 DEF Request
    <3>4. Shape(new) /\ Outside(new) /\ Outside(req[r])
      BY <1>0, <1>1, <3>1, <3>2 DEF Shape, Outside, Request
    <3>5. req' = [req EXCEPT ![r] = new]
      BY <2>2, <3>1, <3>2
    <3>6. Elsewhere(r)
      BY <3>3, <3>4, <3>5 DEF Elsewhere
    <3>7. req'[r] = new
      BY <1>0, <3>5
    <3>. QED
      BY <1>2, <3>3, <3>6, <3>7, ElsewhereKeeps
  <2>3. CASE ~InCooldown(req[r].user, v) /\ Tells(r, v)
    <3>1. /\ req' \in [Requests -> Request] /\ (\A q \in Requests : Shape(req[q]))'
          /\ req'[r].at = "notice" /\ req'[r].left = {}
          /\ req'[r].user = req[r].user /\ req'[r].token = v
          /\ \A q \in Requests \ {r} : Apart(q)
          /\ RivalsKnow'
      BY <1>0, <1>1, <2>3, TellsKnown
    <3>2. PushInv'
      BY <1>0, <1>1, <1>2, <3>1, PushAside DEF Sending
    <3>3. \A i \in DOMAIN logs : logs[i].user = req[r].user /\ logs[i].venue = v
                                     => logs[i].at <= clock - Cooldown
      <4>1. \A i \in DOMAIN logs : logs[i].at \in Nat
        BY <1>0, LogsTyped
      <4>2. clock - Cooldown \in Int
        BY <1>0 DEF TypeOK, NotifyAssumption
      <4>. QED
        BY <2>3, <4>1, <4>2 DEF InCooldown, Recent
    <3>4. ASSUME NEW q \in Requests, req'[q].at = "notice", ~req'[q].rival
          PROVE  \A i \in DOMAIN logs :
                     logs[i].user = req'[q].user /\ logs[i].venue = req'[q].token
                         => logs[i].at <= clock - Cooldown
      <4>1. CASE q = r
        BY <3>1, <3>3, <4>1
      <4>2. CASE q # r
        BY <1>0, <3>1, <3>4, <4>2 DEF NoticeInv, Apart
      <4>. QED
        BY <4>1, <4>2
    <3>5. NoticeInv'
      BY <1>0, <1>2, <3>4 DEF NoticeInv, RepeatNoticeHasACause
    <3>. QED
      BY <3>1, <3>2, <3>5
  <2>. QED
    BY <1>3, <2>1, <2>2, <2>3
<1>5. TypeOK'
  BY <1>0, <1>1, <1>4, TypeKept
<1>6. DeviceInv'
  BY <1>0, <1>2, <1>4, DevicesKept
<1>7. PrefsInv'
  <2>1. ~req'[r].forbade
    BY <1>4 DEF Shape
  <2>. QED
    BY <1>0, <1>1, <1>2, <1>4, <2>1, PrefsKept
<1>. QED
  BY <1>4, <1>5, <1>6, <1>7 DEF NotifyInv, BaseInv

LEMMA TellingKeeps ==
    ASSUME NotifyAssumption, NotifyInv, NEW r \in Requests, SaveNotice(r)
    PROVE  NotifyInv'
<1>0. /\ BaseInv /\ TypeOK /\ RivalsKnow /\ PushInv /\ DeviceInv /\ PrefsInv /\ NoticeInv
      /\ Shape(req[r]) /\ req[r] \in Request /\ req \in [Requests -> Request]
  BY DEF NotifyInv, BaseInv, TypeOK
<1>1. /\ UNCHANGED <<clock, boot, tables, expires, pushHistory, prefHistory>>
      /\ req[r].kind = "geofence" /\ req[r].at = "notice" /\ Goto(r, "log")
  BY DEF SaveNotice, At
<1>2. UNCHANGED <<clock, boot, expires, prefs, device, logs, unwanted, last, repeats, moved,
                  strays>>
  BY <1>1 DEF tables, pushHistory
<1>3. PICK u \in Users, v \in Venues : u = req[r].user /\ v = req[r].token
  BY <1>0, <1>1, NoticingIsGeofence DEF Noticing
<1>4. /\ req' \in [Requests -> Request] /\ (\A q \in Requests : Shape(req[q]))'
      /\ \A q \in Requests \ {r} : req'[q] = req[q] /\ Apart(q)
      /\ req'[r].left = {} /\ req'[r].at = "log" /\ RivalsKnow'
  <2>1. PICK new : new = [req[r] EXCEPT !.at = "log"]
    OBVIOUS
  <2>2. new \in Request
    BY <1>0, <2>1 DEF Request, Steps
  <2>3. /\ Shape(new) /\ new.at = "log" /\ new.left = {} /\ new.rival = req[r].rival
        /\ new.user = req[r].user /\ new.token = req[r].token
    BY <1>0, <1>1, <2>1 DEF Shape, Request
  <2>4. req' = [req EXCEPT ![r] = new]
    BY <1>1, <2>1 DEF Goto
  <2>5. /\ req' \in [Requests -> Request] /\ req'[r] = new
        /\ \A q \in Requests \ {r} : req'[q] = req[q]
    BY <1>0, <2>2, <2>4, Becoming
  <2>6. (\A q \in Requests : Shape(req[q]))'
    BY <1>0, <2>3, <2>5 DEF BaseInv
  <2>7. RivalsKnow'
    <3>1. ~Sending(r)' /\ Noticing(r) /\ NoticeOf(r)' = NoticeOf(r)
          /\ req'[r].rival = req[r].rival
      BY <1>1, <2>3, <2>5 DEF Sending, Noticing, NoticeOf
    <3>. QED
      BY <1>0, <2>5, <3>1, RivalsKept
  <2>. QED
    BY <2>3, <2>5, <2>6, <2>7 DEF Apart
<1>5. /\ told' = [told EXCEPT ![u] = [@ EXCEPT ![v] = [at |-> clock, logged |-> FALSE]]]
      /\ \/ retold' = retold
         \/ /\ told[u][v].at >= 0 /\ clock - told[u][v].at < Cooldown
            /\ retold' = retold \cup {[rival |-> req[r].rival, logged |-> told[u][v].logged]}
  BY <1>3 DEF SaveNotice
<1>6. /\ told' \in [Users -> [Venues -> [at : -1 .. Horizon, logged : BOOLEAN]]]
      /\ told'[u][v] = [at |-> clock, logged |-> FALSE]
      /\ \A x \in Users, y \in Venues : x # u \/ y # v => told'[x][y] = told[x][y]
  <2>. DEFINE P == [at : -1 .. Horizon, logged : BOOLEAN]
              new == [at |-> clock, logged |-> FALSE]
  <2>1. told \in [Users -> [Venues -> P]]
    BY <1>0 DEF TypeOK
  <2>2. new \in P
    BY <1>0 DEF TypeOK, NotifyAssumption
  <2>. HIDE DEF P, new
  <2>3. told' = [told EXCEPT ![u] = [told[u] EXCEPT ![v] = new]]
    BY <1>5 DEF new
  <2>4. [told[u] EXCEPT ![v] = new] \in [Venues -> P]
    BY <2>1, <2>2
  <2>5. told' \in [Users -> [Venues -> P]]
    BY <2>1, <2>3, <2>4
  <2>6. told'[u] = [told[u] EXCEPT ![v] = new] /\ told[u] \in [Venues -> P]
    BY <2>1, <2>3
  <2>7. told'[u][v] = new /\ \A x \in Users, y \in Venues : x # u \/ y # v => told'[x][y] = told[x][y]
    BY <2>1, <2>3, <2>6
  <2>. QED
    BY <2>5, <2>7 DEF P, new
<1>7. NoticeInv'
  <2>0. /\ \A i \in DOMAIN logs : logs[i].at \in Nat
        /\ told[u][v].at \in Int /\ clock \in Nat /\ Cooldown \in Nat
    <3>1. clock \in Nat /\ Cooldown \in Nat
      BY <1>0 DEF TypeOK, NotifyAssumption
    <3>. QED
      BY <1>0, <3>1, LogsTyped
  <2>1. told[u][v].at >= 0 /\ clock - told[u][v].at < Cooldown =>
            req[r].rival \/ ~told[u][v].logged
    <3>. SUFFICES ASSUME told[u][v].at >= 0, clock - told[u][v].at < Cooldown,
                         ~req[r].rival, told[u][v].logged
                  PROVE  FALSE
      OBVIOUS
    <3>1. PICK i \in DOMAIN logs : /\ logs[i].user = u /\ logs[i].venue = v
                                   /\ logs[i].at >= told[u][v].at
      BY <1>0 DEF NoticeInv
    <3>2. logs[i].at <= clock - Cooldown
      BY <1>0, <1>1, <1>3, <3>1 DEF NoticeInv
    <3>. QED
      BY <2>0, <3>1, <3>2
  <2>2. RepeatNoticeHasACause'
    <3>. DEFINE cause == [rival |-> req[r].rival, logged |-> told[u][v].logged]
    <3>1. cause.rival = req[r].rival /\ cause.logged = told[u][v].logged
      OBVIOUS
    <3>2. \/ retold' = retold
          \/ retold' = retold \cup {cause} /\ (req[r].rival \/ ~told[u][v].logged)
      BY <1>5, <2>1
    <3>. HIDE DEF cause
    <3>. QED
      BY <1>0, <3>1, <3>2 DEF NoticeInv, RepeatNoticeHasACause
  <2>3. ASSUME NEW x \in Users, NEW y \in Venues
        PROVE  /\ told'[x][y].at <= clock
               /\ told'[x][y].at >= 0 /\ told'[x][y].logged =>
                      \E i \in DOMAIN logs : /\ logs[i].user = x /\ logs[i].venue = y
                                             /\ logs[i].at >= told'[x][y].at
    <3>1. CASE x = u /\ y = v
      BY <1>6, <2>0, <3>1
    <3>2. CASE x # u \/ y # v
      <4>1. told'[x][y] = told[x][y]
        BY <1>6, <3>2
      <4>2. /\ told[x][y].at <= clock
            /\ told[x][y].at >= 0 /\ told[x][y].logged =>
                   \E i \in DOMAIN logs : /\ logs[i].user = x /\ logs[i].venue = y
                                          /\ logs[i].at >= told[x][y].at
        BY <1>0 DEF NoticeInv
      <4>. QED
        BY <4>1, <4>2
    <3>. QED
      BY <3>1, <3>2
  <2>4. ASSUME NEW q \in Requests, req'[q].at = "notice", ~req'[q].rival
        PROVE  \A i \in DOMAIN logs :
                   logs[i].user = req'[q].user /\ logs[i].venue = req'[q].token
                       => logs[i].at <= clock - Cooldown
    <3>1. q # r
      BY <1>4, <2>4
    <3>. QED
      BY <1>0, <1>4, <2>4, <3>1 DEF NoticeInv
  <2>. QED
    BY <1>0, <1>2, <2>2, <2>3, <2>4 DEF NoticeInv
<1>8. PushInv'
  BY <1>0, <1>1, <1>2, <1>4, PushAside DEF Sending
<1>9. TypeOK'
  BY <1>0, <1>2, <1>1, <1>4, <1>6 DEF TypeOK, prefHistory
<1>10. DeviceInv'
  BY <1>0, <1>2, <1>4, DevicesKept
<1>11. PrefsInv'
  <2>1. ~req'[r].forbade
    BY <1>4 DEF Shape
  <2>. QED
    BY <1>0, <1>1, <1>2, <1>4, <2>1, PrefsKept
<1>. QED
  BY <1>4, <1>7, <1>8, <1>9, <1>10, <1>11 DEF NotifyInv, BaseInv

LEMMA LoggingKeeps ==
    ASSUME NotifyAssumption, NotifyInv, NEW r \in Requests, SaveLog(r)
    PROVE  NotifyInv'
<1>0. /\ BaseInv /\ TypeOK /\ RivalsKnow /\ PushInv /\ DeviceInv /\ PrefsInv /\ NoticeInv
      /\ Shape(req[r]) /\ req[r] \in Request /\ req \in [Requests -> Request]
  BY DEF NotifyInv, BaseInv, TypeOK
<1>1. /\ UNCHANGED <<clock, boot, prefs, device, expires, pushHistory, prefHistory, retold>>
      /\ req[r].kind = "geofence" /\ req[r].at = "log"
  BY DEF SaveLog, At
<1>2. UNCHANGED <<clock, boot, expires, prefs, device, unwanted, last, repeats, moved, strays,
                  retold>>
  BY <1>1 DEF pushHistory
<1>3. PICK u \in Users, v \in Venues : u = req[r].user /\ v = req[r].token
  BY <1>0, <1>1, NoticingIsGeofence DEF Noticing
<1>4. /\ req' \in [Requests -> Request] /\ (\A q \in Requests : Shape(req[q]))'
      /\ \A q \in Requests \ {r} : req'[q] = req[q] /\ Apart(q)
      /\ req'[r].left = {} /\ req'[r].at \in {"idle", "cooldown"} /\ RivalsKnow'
  <2>1. \E new \in Request : /\ req' = [req EXCEPT ![r] = new] /\ Shape(new)
                             /\ new.left = {} /\ new.at \in {"idle", "cooldown"}
    <3>1. CASE Finish(r)
      BY <3>1, IdleTyped DEF Finish, Idle
    <3>2. CASE req' = [req EXCEPT ![r].at = "cooldown", ![r].token = NoOne,
                                  ![r].rest = @ \ {v}, ![r].rival = FALSE]
      <4>1. PICK S \in (SUBSET Users) \cup (SUBSET Venues) : S = req[r].rest \ {v}
        BY <1>0, <1>1 DEF Shape
      <4>2. PICK new : new = [req[r] EXCEPT !.at = "cooldown", !.token = NoOne,
                                            !.rest = S, !.rival = FALSE]
        OBVIOUS
      <4>3. new \in Request
        BY <1>0, <4>2 DEF Request, Steps
      <4>4. Shape(new) /\ new.left = {} /\ new.at = "cooldown"
        BY <1>0, <1>1, <4>1, <4>2 DEF Shape, Request
      <4>5. req' = [req EXCEPT ![r] = new]
        BY <3>2, <4>1, <4>2
      <4>. QED
        BY <4>3, <4>4, <4>5
    <3>. QED
      BY <1>3, <3>1, <3>2 DEF SaveLog
  <2>2. /\ req' \in [Requests -> Request] /\ Shape(req'[r])
        /\ req'[r].left = {} /\ req'[r].at \in {"idle", "cooldown"}
        /\ \A q \in Requests \ {r} : req'[q] = req[q]
    BY <1>0, <2>1, Becoming
  <2>3. (\A q \in Requests : Shape(req[q]))'
    BY <1>0, <2>2 DEF BaseInv
  <2>4. RivalsKnow'
    BY <1>0, <2>2, RivalsKept DEF Sending, Noticing
  <2>. QED
    BY <2>2, <2>3, <2>4 DEF Apart
<1>5. /\ logs' = Append(logs, [user |-> u, venue |-> v, at |-> clock])
      /\ told' = [told EXCEPT ![u] = [@ EXCEPT ![v] = [told[u][v] EXCEPT !.logged = TRUE]]]
  BY <1>3 DEF SaveLog
<1>6. /\ told' \in [Users -> [Venues -> [at : -1 .. Horizon, logged : BOOLEAN]]]
      /\ told'[u][v].at = told[u][v].at
      /\ \A x \in Users, y \in Venues : x # u \/ y # v => told'[x][y] = told[x][y]
  <2>. DEFINE P == [at : -1 .. Horizon, logged : BOOLEAN]
              new == [told[u][v] EXCEPT !.logged = TRUE]
  <2>1. told \in [Users -> [Venues -> P]]
    BY <1>0 DEF TypeOK
  <2>2. told[u][v] \in P
    BY <2>1
  <2>3. new \in P /\ new.at = told[u][v].at
    BY <2>2
  <2>. HIDE DEF P, new
  <2>4. told' = [told EXCEPT ![u] = [told[u] EXCEPT ![v] = new]]
    <3>1. told' = [told EXCEPT ![u] =
                      [told[u] EXCEPT ![v] = [told[u][v] EXCEPT !.logged = TRUE]]]
      BY <1>5
    <3>. QED
      BY <3>1 DEF new
  <2>5. [told[u] EXCEPT ![v] = new] \in [Venues -> P]
    BY <2>1, <2>3
  <2>6. told' \in [Users -> [Venues -> P]]
    BY <2>1, <2>4, <2>5
  <2>7. told'[u] = [told[u] EXCEPT ![v] = new] /\ told[u] \in [Venues -> P]
    BY <2>1, <2>4
  <2>8. told'[u][v] = new /\ \A x \in Users, y \in Venues : x # u \/ y # v => told'[x][y] = told[x][y]
    BY <2>1, <2>4, <2>7
  <2>. QED
    BY <2>3, <2>6, <2>8 DEF P
<1>7. /\ logs' \in Seq([user : Users, venue : Venues, at : 0 .. Horizon])
      /\ DOMAIN logs' = (DOMAIN logs) \cup {Len(logs) + 1}
      /\ logs'[Len(logs) + 1] = [user |-> u, venue |-> v, at |-> clock]
      /\ \A i \in DOMAIN logs : logs'[i] = logs[i]
  <2>. DEFINE L == [user : Users, venue : Venues, at : 0 .. Horizon]
              row == [user |-> u, venue |-> v, at |-> clock]
  <2>1. logs \in Seq(L) /\ row \in L
    BY <1>0 DEF TypeOK
  <2>. HIDE DEF L, row
  <2>2. logs' = Append(logs, row)
    BY <1>5 DEF row
  <2>3. /\ logs' \in Seq(L) /\ DOMAIN logs' = (DOMAIN logs) \cup {Len(logs) + 1}
        /\ logs'[Len(logs) + 1] = row
        /\ \A i \in DOMAIN logs : logs'[i] = logs[i]
    BY <2>1, <2>2
  <2>. QED
    BY <2>3 DEF L, row
<1>8. NoticeInv'
  <2>0. /\ \A i \in DOMAIN logs : logs[i].at \in Nat
        /\ \A x \in Users, y \in Venues : told[x][y].at \in Int
        /\ clock \in Nat /\ Cooldown \in Nat
    <3>1. clock \in Nat /\ Cooldown \in Nat
      BY <1>0 DEF TypeOK, NotifyAssumption
    <3>. QED
      BY <1>0, <3>1, LogsTyped
  <2>1. \A i \in DOMAIN logs' : logs'[i].at <= clock
    BY <1>0, <1>7, <2>0 DEF NoticeInv
  <2>2. ASSUME NEW x \in Users, NEW y \in Venues
        PROVE  /\ told'[x][y].at <= clock
               /\ told'[x][y].at >= 0 /\ told'[x][y].logged =>
                      \E i \in DOMAIN logs' : /\ logs'[i].user = x /\ logs'[i].venue = y
                                              /\ logs'[i].at >= told'[x][y].at
    <3>0. told[x][y].at <= clock
      BY <1>0 DEF NoticeInv
    <3>1. CASE x = u /\ y = v
      <4>1. told'[x][y].at <= clock
        BY <1>6, <3>0, <3>1
      <4>2. logs'[Len(logs) + 1].at >= told'[x][y].at
        BY <1>6, <1>7, <2>0, <3>0, <3>1
      <4>. QED
        BY <1>7, <3>1, <4>1, <4>2
    <3>2. CASE x # u \/ y # v
      <4>1. told'[x][y] = told[x][y]
        BY <1>6, <3>2
      <4>2. told[x][y].at >= 0 /\ told[x][y].logged =>
                \E i \in DOMAIN logs : /\ logs[i].user = x /\ logs[i].venue = y
                                       /\ logs[i].at >= told[x][y].at
        BY <1>0 DEF NoticeInv
      <4>. QED
        BY <1>7, <3>0, <4>1, <4>2
    <3>. QED
      BY <3>1, <3>2
  <2>3. ASSUME NEW q \in Requests, req'[q].at = "notice", ~req'[q].rival
        PROVE  \A i \in DOMAIN logs' :
                   logs'[i].user = req'[q].user /\ logs'[i].venue = req'[q].token
                       => logs'[i].at <= clock - Cooldown
    <3>1. q # r /\ req'[q] = req[q]
      BY <1>4, <2>3
    <3>2. NoticeOf(q) # NoticeOf(r)
      BY <1>0, <1>1, <2>3, <3>1 DEF RivalsKnow, Noticing
    <3>3. ~(req[q].user = u /\ req[q].token = v)
      BY <1>3, <3>2 DEF NoticeOf
    <3>4. \A i \in DOMAIN logs : logs[i].user = req[q].user /\ logs[i].venue = req[q].token
                                     => logs[i].at <= clock - Cooldown
      BY <1>0, <2>3, <3>1 DEF NoticeInv
    <3>5. logs'[Len(logs) + 1].user = u /\ logs'[Len(logs) + 1].venue = v
      BY <1>7
    <3>. QED
      BY <1>7, <3>1, <3>3, <3>4, <3>5
  <2>. QED
    BY <1>0, <1>2, <2>1, <2>2, <2>3 DEF NoticeInv, RepeatNoticeHasACause
<1>9. PushInv'
  BY <1>0, <1>1, <1>2, <1>4, PushAside DEF Sending
<1>10. TypeOK'
  BY <1>0, <1>1, <1>2, <1>4, <1>6, <1>7 DEF TypeOK, prefHistory
<1>11. DeviceInv'
  BY <1>0, <1>2, <1>4, DevicesKept
<1>12. PrefsInv'
  <2>1. ~req'[r].forbade
    BY <1>4 DEF Shape
  <2>. QED
    BY <1>0, <1>1, <1>2, <1>4, <2>1, PrefsKept
<1>. QED
  BY <1>4, <1>8, <1>9, <1>10, <1>11, <1>12 DEF NotifyInv, BaseInv

-------------------------------------------------------------------------------
(* The theorems. *)

\* Whatever rows of preferences and devices there are when the server starts.
AnyTables ==
    \E rows \in [Users -> Row \cup {NoRow}],
       devices \in [Tokens -> [user : Someone, active : BOOLEAN]] : InitWith(rows, devices)

SpecFrom == AnyTables /\ [][Next]_vars

LEMMA StartingHolds ==
    ASSUME NotifyAssumption, AnyTables
    PROVE  NotifyInv
<1>. PICK rows \in [Users -> Row \cup {NoRow}],
          devices \in [Tokens -> [user : Someone, active : BOOLEAN]] : InitWith(rows, devices)
  BY DEF AnyTables
<1>1. /\ clock = 0 /\ boot = 1 /\ prefs = rows /\ device = devices
      /\ expires = [k \in Keys |-> -1] /\ logs = <<>>
      /\ req = [r \in Requests |-> Idle] /\ promised = [u \in Users |-> NoRow]
      /\ crossed = {} /\ swallowed = {} /\ unwanted = {}
      /\ last = [k \in Keys |-> NeverPushed]
      /\ repeats = {} /\ strays = {} /\ retold = {}
      /\ moved = [r \in Requests |-> {}]
      /\ told = [u \in Users |-> [v \in Venues |-> NeverTold]]
  BY DEF InitWith
<1>2. TypeOK
  <2>1. /\ clock \in 0 .. Horizon /\ boot \in 1 .. MaxBoots
        /\ expires \in [Keys -> -1 .. Horizon + DedupeWindow]
    BY <1>1 DEF NotifyAssumption
  <2>2. req \in [Requests -> Request]
    BY <1>1, IdleTyped
  <2>3. last \in [Keys -> [at : -1 .. Horizon, boot : 0 .. MaxBoots, broken : BOOLEAN]]
    <3>1. NeverPushed \in [at : -1 .. Horizon, boot : 0 .. MaxBoots, broken : BOOLEAN]
      BY DEF NeverPushed, NotifyAssumption
    <3>. QED
      BY <1>1, <3>1
  <2>4. told \in [Users -> [Venues -> [at : -1 .. Horizon, logged : BOOLEAN]]]
    <3>1. NeverTold \in [at : -1 .. Horizon, logged : BOOLEAN]
      BY DEF NeverTold, NotifyAssumption
    <3>. QED
      BY <1>1, <3>1
  <2>5. /\ promised \in [Users -> Row \cup {NoRow}]
        /\ logs \in Seq([user : Users, venue : Venues, at : 0 .. Horizon])
        /\ moved \in [Requests -> SUBSET Tokens]
    BY <1>1
  <2>. QED
    BY <1>1, <2>1, <2>2, <2>3, <2>4, <2>5 DEF TypeOK
<1>3. \A r \in Requests : req[r] = Idle /\ Shape(req[r]) /\ req[r].at = "idle" /\ req[r].left = {}
  BY <1>1, IdleTyped DEF Idle
<1>4. RivalsKnow
  BY <1>3 DEF RivalsKnow, Sending, Noticing
<1>5. PushInv
  <2>1. ASSUME NEW k \in Keys
        PROVE  last[k].at = -1 /\ last[k].boot = 0
    BY <1>1 DEF NeverPushed
  <2>2. RepeatPushHasACause /\ \A r \in Requests : StillNew(r)
    BY <1>1, <1>3 DEF RepeatPushHasACause, StillNew, Sending
  <2>. QED
    BY <1>1, <2>1, <2>2 DEF PushInv, Remembered
<1>6. DeviceInv
  BY <1>1, <1>3 DEF DeviceInv, StrayPushHasACause
<1>7. PrefsInv
  <2>1. \A r \in Requests : ~req[r].forbade
    BY <1>3 DEF Shape
  <2>. QED
    BY <1>1, <1>3, <2>1 DEF PrefsInv, Answered, UnwantedPushHasACause
<1>8. NoticeInv
  <2>1. DOMAIN logs = {}
    BY <1>1
  <2>2. \A u \in Users, v \in Venues : told[u][v].at = -1
    BY <1>1 DEF NeverTold
  <2>. QED
    BY <1>1, <1>3, <2>1, <2>2 DEF NoticeInv, RepeatNoticeHasACause
<1>. QED
  BY <1>2, <1>3, <1>4, <1>5, <1>6, <1>7, <1>8 DEF NotifyInv, BaseInv

LEMMA StutteringHolds ==
    ASSUME NotifyInv, UNCHANGED vars
    PROVE  NotifyInv'
<1>1. UNCHANGED <<clock, boot, prefs, device, logs, expires, req, promised, crossed, swallowed,
                  unwanted, last, repeats, moved, strays, told, retold>>
  BY DEF vars, tables, pushHistory, prefHistory, geoHistory
<1>2. TypeOK' /\ (\A r \in Requests : Shape(req[r]))' /\ RivalsKnow'
  BY <1>1 DEF NotifyInv, BaseInv, TypeOK, RivalsKnow, Sending, Noticing, Key, NoticeOf
<1>3. PushInv'
  BY <1>1 DEF NotifyInv, PushInv, Remembered, StillNew, Sending, Key, RepeatPushHasACause
<1>4. DeviceInv' /\ PrefsInv'
  BY <1>1 DEF NotifyInv, DeviceInv, PrefsInv, Answered, Spoilt, UnwantedPushHasACause,
              StrayPushHasACause
<1>5. NoticeInv'
  BY <1>1 DEF NotifyInv, NoticeInv, RepeatNoticeHasACause
<1>. QED
  BY <1>2, <1>3, <1>4, <1>5 DEF NotifyInv, BaseInv

LEMMA NextKeeps ==
    ASSUME NotifyAssumption, NotifyInv, [Next]_vars
    PROVE  NotifyInv'
<1>1. ASSUME NEW r \in Requests, Step(r)
      PROVE  NotifyInv'
  <2>1. CASE \/ FindToUpdate(r) \/ FindToRead(r) \/ FindToken(r) \/ CheckLimit(r)
             \/ UpdateStart(r) \/ ReadStart(r) \/ RegisterStart(r) \/ AnnounceStart(r)
             \/ GeofenceStart(r)
    BY <2>1, ReadingKeeps
  <2>2. CASE SaveUpdate(r) \/ InsertToRead(r)
    BY <2>2, WritingKeeps
  <2>3. CASE SaveDevice(r)
    BY <2>3, RegisteringKeeps
  <2>4. CASE CheckPreferences(r)
    BY <2>4, CheckingKeeps
  <2>5. CASE InsertToSend(r)
    BY <2>5, InsertingKeeps
  <2>6. CASE ListDevices(r)
    BY <2>6, ListingKeeps
  <2>7. CASE \E t \in Tokens : SendToDevice(r, t)
    BY <2>7, SendToDeviceKeeps
  <2>8. CASE MarkDeviceInactive(r)
    BY <2>8, DroppingKeeps
  <2>9. CASE CheckCooldown(r)
    BY <2>9, CoolingKeeps
  <2>10. CASE SaveNotice(r)
    BY <2>10, TellingKeeps
  <2>11. CASE SaveLog(r)
    BY <2>11, LoggingKeeps
  <2>12. CASE Fail(r)
    BY <2>12, FailKeeps
  <2>. QED
    BY <1>1, <2>1, <2>2, <2>3, <2>4, <2>5, <2>6, <2>7, <2>8, <2>9, <2>10, <2>11, <2>12 DEF Step
<1>2. CASE UNCHANGED vars
  BY <1>2, StutteringHolds
<1>. QED
  BY <1>1, <1>2, DeactivatingKeeps, RestartKeeps, TickKeeps DEF Next

LEMMA InvHolds == SpecFrom => []NotifyInv
<1>1. AnyTables => NotifyInv
  BY NotifyAssumption, StartingHolds
<1>2. NotifyInv /\ [Next]_vars => NotifyInv'
  BY NotifyAssumption, NextKeeps
<1>. QED
  BY <1>1, <1>2, PTL DEF SpecFrom

\* The specification itself starts from empty tables.
LEMMA SpecIsFromSome == Spec => SpecFrom
<1>1. Init => AnyTables
  <2>1. [u \in Users |-> NoRow] \in [Users -> Row \cup {NoRow}]
    OBVIOUS
  <2>2. NoDevices \in [Tokens -> [user : Someone, active : BOOLEAN]]
    BY DEF NoDevices, Someone
  <2>. QED
    BY <2>1, <2>2 DEF Init, AnyTables
<1>. QED
  BY <1>1, PTL DEF Spec, SpecFrom

\* Whatever rows the server starts from: the tables, the cache, the requests and
\* what is remembered of pushes and notices keep their types.
THEOREM NotifyTypes == SpecFrom => []TypeOK
<1>1. NotifyInv => TypeOK
  BY DEF NotifyInv, BaseInv
<1>. QED
  BY <1>1, InvHolds, PTL

\* The same push reaches a user twice within the window only for one of three
\* causes: two sends overlapped between the check and the mark, the first broke
\* off before its mark, or a restart emptied the cache (push.service.ts 90-115).
THEOREM NoRepeatWithoutACause == SpecFrom => []RepeatPushHasACause
<1>1. NotifyInv => RepeatPushHasACause
  BY DEF NotifyInv, PushInv
<1>. QED
  BY <1>1, InvHolds, PTL

\* However quiet hours wrap over midnight, a push disturbs only a user whose
\* preferences were written by overlapping requests or not saved at all
\* (devices.service.ts 72-159).
THEOREM NoUnwantedPushWithoutACause == SpecFrom => []UnwantedPushHasACause
<1>1. NotifyInv => UnwantedPushHasACause
  BY DEF NotifyInv, PrefsInv
<1>. QED
  BY <1>1, InvHolds, PTL

\* A push reaches a device that is logged out or another user's only when its row
\* changed after the send had listed it (push.service.ts 103-112).
THEOREM NoStrayPushWithoutACause == SpecFrom => []StrayPushHasACause
<1>1. NotifyInv => StrayPushHasACause
  BY DEF NotifyInv, DeviceInv
<1>. QED
  BY <1>1, InvHolds, PTL

\* A user is told of a venue again within the cooldown only if two checks of the
\* user overlapped there or the first notice was never logged
\* (geofence.service.ts 84-128).
THEOREM NoRepeatedNoticeWithoutACause == SpecFrom => []RepeatNoticeHasACause
<1>1. NotifyInv => RepeatNoticeHasACause
  BY DEF NotifyInv, NoticeInv
<1>. QED
  BY <1>1, InvHolds, PTL

\* From empty tables, as Spec starts: all of them at once.
THEOREM PushesFromEmptyTables ==
    Spec => [](TypeOK /\ RepeatPushHasACause /\ UnwantedPushHasACause /\ StrayPushHasACause
                 /\ RepeatNoticeHasACause)
  BY SpecIsFromSome, NotifyTypes, NoRepeatWithoutACause, NoUnwantedPushWithoutACause,
     NoStrayPushWithoutACause, NoRepeatedNoticeWithoutACause, PTL
================================================================================
