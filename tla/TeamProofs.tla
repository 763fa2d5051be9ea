------------------------------ MODULE TeamProofs ------------------------------
(***************************************************************************)
(* What holds of a business's team and venues, for any number of accounts, *)
(* venues and requests.  The argument rests on what a request has made     *)
(* sure of at each of its steps (Good) and on the few ways in which the    *)
(* tables may move on under it (Advance), which leave that standing.       *)
(***************************************************************************)
EXTENDS Team, TLAPS

\* The account a request is about, as it read it: it may have been made active
\* or inactive since, and nothing else.
Known(a, row) == Exists(a) /\ row.role = acct[a].role /\ row.boss = acct[a].boss

\* What a request has made sure of.
Good(q) ==
    /\ q.kind \notin {"none", "register"} => q.actor \in Accounts
    /\ q.kind \in {"register", "createStaff", "deactivate", "assign", "unassign"}
           => q.other \in Accounts
    /\ q.kind \in {"assign", "unassign", "createVenue", "updateVenue",
                   "deleteVenue", "work"} => q.v \in Venues
    /\ q.after => q.actor \in ended
    /\ q.kind \in {"profile", "reset"} /\ q.at = "saveAccount" => Known(q.actor, q.copy)
    /\ q.kind = "deactivate" /\ q.at = "endAccount" =>
           Known(q.other, q.copy) /\ q.copy.role = "staff"
    /\ q.kind = "deactivate" /\ q.at = "endRoster" =>
           /\ acct[q.other].role = "staff"
           /\ acct[q.other].active => q.other \in revived
    /\ q.kind = "assign" /\ q.at \in {"findUser", "findRow", "saveRow"} =>
           parts[q.v] # {} /\ founder[q.v] = q.actor
    /\ q.kind = "assign" /\ q.at \in {"findRow", "saveRow"} =>
           acct[q.other].role = "staff" /\ acct[q.other].boss = q.actor
    /\ q.kind = "unassign" /\ q.at = "saveRow" => roster[q.other][q.v] # "none"
    /\ q.kind \in {"updateVenue", "deleteVenue"} => parts[q.v] # {}
    /\ q.kind = "updateVenue" /\ q.at = "saveCopy" => q.owned \in {NoOne, founder[q.v]}
    /\ q.kind \in {"work", "profile", "reset"} => Exists(q.actor)
    /\ q.kind = "work" /\ q.at = "venues" /\ q.after => q.actor \in revived

\* How far createVenue has come.
Progress(q) ==
    q.kind = "createVenue" =>
        /\ q.at = "saveVenue" => parts[q.v] = {}
        /\ q.at = "saveBusyness" => parts[q.v] = {"venue"}
        /\ q.at = "saveVibe" => parts[q.v] = {"venue", "busyness"}
        /\ q.at = "log" => parts[q.v] = {"venue", "busyness", "vibe"}

AccountsInv ==
    \A a \in Accounts :
        /\ acct[a].role = "staff" => acct[a].boss \in Accounts
        /\ acct[a].role # "staff" => acct[a].boss = NoOne
        /\ a \in ended => acct[a].role = "staff"
        /\ a \in ended /\ acct[a].active => a \in revived
        /\ \A v \in Venues : a \in ended /\ roster[a][v] = "on" => <<a, v>> \in late

VenuesInv ==
    \A v \in Venues :
        /\ parts[v] = {} => founder[v] = NoOne /\ owner[v] = NoOne /\ v \notin removed
        /\ parts[v] # {} => founder[v] \in Accounts

\* Two requests never create one venue.
OneCreator ==
    \A x, y \in Requests :
        x # y /\ req[x].kind = "createVenue" /\ req[y].kind = "createVenue"
            => req[x].v # req[y].v

Facts == /\ AccountsInv /\ VenuesInv /\ RosterIsOfOneBusiness
         /\ VenueStaysRemoved /\ LoggedVenueIsWhole /\ RemovedStaysOut

TeamInv == /\ TypeOK /\ Facts /\ OneCreator
           /\ \A r \in Requests : Good(req[r]) /\ Progress(req[r])

\* What no step undoes.
Advance ==
    /\ \A a \in Accounts : Exists(a) =>
           /\ acct'[a].role = acct[a].role /\ acct'[a].boss = acct[a].boss
           /\ acct'[a].active => acct[a].active \/ a \in revived'
    /\ revived \subseteq revived' /\ ended \subseteq ended'
    /\ \A v \in Venues : parts[v] # {} => parts'[v] # {} /\ founder'[v] = founder[v]
    /\ \A a \in Accounts, v \in Venues : roster[a][v] # "none" => roster'[a][v] # "none"

-------------------------------------------------------------------------------
(* Requests. *)

LEMMA IdleIsGood ==
    Idle \in Request /\ Good(Idle) /\ Progress(Idle) /\ Idle.kind = "none"
BY DEF Idle, Request, Good, Progress, Someone, Account, NoAccount, Assignment

\* What a request has made sure of stands while the tables move on.
LEMMA GoodStays ==
    ASSUME NEW q \in Request, Good(q), Advance
    PROVE  Good(q)'
<1>1. /\ q.kind \notin {"none", "register"} => q.actor \in Accounts
      /\ q.kind \in {"register", "createStaff", "deactivate", "assign", "unassign"}
             => q.other \in Accounts
      /\ q.kind \in {"assign", "unassign", "createVenue", "updateVenue",
                     "deleteVenue", "work"} => q.v \in Venues
      /\ q.after => q.actor \in ended'
  BY DEF Good, Advance
<1>2. /\ q.kind \in {"profile", "reset"} /\ q.at = "saveAccount" => Known(q.actor, q.copy)'
      /\ q.kind = "deactivate" /\ q.at = "endAccount" =>
             Known(q.other, q.copy)' /\ q.copy.role = "staff"
  BY <1>1 DEF Good, Advance, Known, Exists
<1>3. q.kind = "deactivate" /\ q.at = "endRoster" =>
          /\ acct'[q.other].role = "staff"
          /\ acct'[q.other].active => q.other \in revived'
  BY <1>1 DEF Good, Advance, Exists
<1>4. /\ q.kind = "assign" /\ q.at \in {"findUser", "findRow", "saveRow"} =>
             parts'[q.v] # {} /\ founder'[q.v] = q.actor
      /\ q.kind = "assign" /\ q.at \in {"findRow", "saveRow"} =>
             acct'[q.other].role = "staff" /\ acct'[q.other].boss = q.actor
  BY <1>1 DEF Good, Advance, Exists
<1>5. /\ q.kind = "unassign" /\ q.at = "saveRow" => roster'[q.other][q.v] # "none"
      /\ q.kind \in {"updateVenue", "deleteVenue"} => parts'[q.v] # {}
      /\ q.kind = "updateVenue" /\ q.at = "saveCopy" => q.owned \in {NoOne, founder'[q.v]}
      /\ q.kind \in {"work", "profile", "reset"} => Exists(q.actor)'
      /\ q.kind = "work" /\ q.at = "venues" /\ q.after => q.actor \in revived'
  BY <1>1 DEF Good, Advance, Exists
<1> QED BY <1>1, <1>2, <1>3, <1>4, <1>5 DEF Good

\* A request that goes on keeps all but its step.
LEMMA GotoMoves ==
    ASSUME TypeOK, NEW r \in Requests, NEW step \in Steps, Goto(r, step)
    PROVE  \E q \in Request :
               /\ req' = [req EXCEPT ![r] = q]
               /\ q.kind = req[r].kind /\ q.at = step /\ q.actor = req[r].actor
               /\ q.other = req[r].other /\ q.v = req[r].v /\ q.copy = req[r].copy
               /\ q.owned = req[r].owned /\ q.row = req[r].row
               /\ q.after = req[r].after
<1> DEFINE q == [req[r] EXCEPT !.at = step]
<1>1. req[r] \in Request
  BY DEF TypeOK
<1>2. /\ q \in Request
      /\ q.kind = req[r].kind /\ q.at = step /\ q.actor = req[r].actor
      /\ q.other = req[r].other /\ q.v = req[r].v /\ q.copy = req[r].copy
      /\ q.owned = req[r].owned /\ q.row = req[r].row /\ q.after = req[r].after
  BY <1>1 DEF Request
<1>3. req' = [req EXCEPT ![r] = q]
  BY DEF Goto
<1> QED BY <1>2, <1>3

LEMMA RememberMoves ==
    ASSUME TypeOK, NEW r \in Requests, NEW step \in Steps, NEW copy \in Account,
           NEW owned \in Someone, NEW row \in Assignment,
           Remember(r, step, copy, owned, row)
    PROVE  \E q \in Request :
               /\ req' = [req EXCEPT ![r] = q]
               /\ q.kind = req[r].kind /\ q.at = step /\ q.actor = req[r].actor
               /\ q.other = req[r].other /\ q.v = req[r].v /\ q.copy = copy
               /\ q.owned = owned /\ q.row = row /\ q.after = req[r].after
<1> DEFINE q == [kind |-> req[r].kind, at |-> step, actor |-> req[r].actor,
                 other |-> req[r].other, v |-> req[r].v, copy |-> copy,
                 owned |-> owned, row |-> row, after |-> req[r].after]
<1>1. req[r] \in Request
  BY DEF TypeOK
<1>2. /\ q \in Request
      /\ q.kind = req[r].kind /\ q.at = step /\ q.actor = req[r].actor
      /\ q.other = req[r].other /\ q.v = req[r].v /\ q.copy = copy
      /\ q.owned = owned /\ q.row = row /\ q.after = req[r].after
  BY <1>1 DEF Request
<1>3. req' = [req EXCEPT ![r] = q]
  BY DEF Remember
<1> QED BY <1>2, <1>3

\* The tables move on, and one request with them.
LEMMA Moves ==
    ASSUME TeamInv, NEW r \in Requests, NEW q \in Request,
           req' = [req EXCEPT ![r] = q],
           Advance, Good(q)', Progress(q)',
           q.kind = "createVenue" =>
               \A x \in Requests : x # r /\ req[x].kind = "createVenue"
                   => req[x].v # q.v,
           \A v \in Venues : parts'[v] # parts[v] =>
               req[r].kind = "createVenue" /\ req[r].v = v
    PROVE  /\ OneCreator'
           /\ req' \in [Requests -> Request]
           /\ \A x \in Requests : Good(req[x])' /\ Progress(req[x])'
<1>1. req \in [Requests -> Request]
  BY DEF TeamInv, TypeOK
<1>2. req' \in [Requests -> Request] /\ req'[r] = q
      /\ \A x \in Requests : x # r => req'[x] = req[x]
  BY <1>1
<1>3. OneCreator'
  BY <1>2 DEF OneCreator, TeamInv
<1>4. ASSUME NEW x \in Requests, x # r
      PROVE  Good(req[x])' /\ Progress(req[x])'
  <2>1. PICK p \in Request : p = req[x]
    BY <1>1
  <2>2. Good(p) /\ Progress(p) /\ req'[x] = p
    BY <1>2, <1>4, <2>1 DEF TeamInv
  <2>3. p.kind = "createVenue" => parts'[p.v] = parts[p.v]
    BY <1>4, <2>1, <2>2 DEF Good, TeamInv, OneCreator
  <2>4. Good(p)'
    BY <2>2, GoodStays
  <2>5. Progress(p)'
    BY <2>2, <2>3 DEF Progress
  <2>6. Good(req[x])'
    BY <2>2, <2>4, SMTT(30) DEF Good, Known, Exists
  <2>7. Progress(req[x])'
    BY <2>2, <2>5 DEF Progress
  <2> QED BY <2>6, <2>7
<1>5. Good(req[r])' /\ Progress(req[r])'
  BY <1>2 DEF Good, Progress, Known, Exists
<1> QED BY <1>2, <1>3, <1>4, <1>5

-------------------------------------------------------------------------------
(* Steps that only read. *)

LEMMA FactsStay ==
    ASSUME Facts, UNCHANGED <<tables, histories>>
    PROVE  Facts'
BY DEF Facts, AccountsInv, VenuesInv, RosterIsOfOneBusiness, VenueStaysRemoved,
       LoggedVenueIsWhole, RemovedStaysOut, tables, histories

LEMMA ReadStep ==
    ASSUME TeamInv, NEW r \in Requests, NEW q \in Request,
           req' = [req EXCEPT ![r] = q], UNCHANGED <<tables, histories>>,
           Good(q), Progress(q),
           q.kind = "createVenue" =>
               \A x \in Requests : x # r => req[x].v # q.v
    PROVE  TeamInv'
<1>1. Advance
  BY DEF Advance, tables, histories
<1>2. Good(q)' /\ Progress(q)'
  BY <1>1, GoodStays DEF Progress, tables
<1>3. \A v \in Venues : parts'[v] # parts[v] =>
          req[r].kind = "createVenue" /\ req[r].v = v
  BY DEF tables
<1>4. /\ OneCreator'
      /\ req' \in [Requests -> Request]
      /\ \A x \in Requests : Good(req[x])' /\ Progress(req[x])'
  BY <1>1, <1>2, <1>3, Moves
<1>5. Facts'
  BY FactsStay DEF TeamInv
<1>6. TypeOK'
  BY <1>4 DEF TeamInv, TypeOK, tables, histories
<1> QED BY <1>4, <1>5, <1>6 DEF TeamInv

LEMMA FinishStep ==
    ASSUME TeamInv, NEW r \in Requests, Finish(r), UNCHANGED <<tables, histories>>
    PROVE  TeamInv'
<1>1. req' = [req EXCEPT ![r] = Idle]
  BY DEF Finish
<1> QED BY <1>1, IdleIsGood, ReadStep

\* Going on to a step whose facts the request has just made sure of.
LEMMA GotoStep ==
    ASSUME TeamInv, NEW r \in Requests, NEW step \in Steps, Goto(r, step),
           UNCHANGED <<tables, histories>>,
           req[r].kind # "createVenue",
           \A q \in Request :
               /\ q.kind = req[r].kind /\ q.at = step /\ q.actor = req[r].actor
               /\ q.other = req[r].other /\ q.v = req[r].v /\ q.copy = req[r].copy
               /\ q.owned = req[r].owned /\ q.after = req[r].after
               => Good(q)
    PROVE  TeamInv'
<1>1. TypeOK
  BY DEF TeamInv
<1>2. PICK q \in Request :
               /\ req' = [req EXCEPT ![r] = q]
               /\ q.kind = req[r].kind /\ q.at = step /\ q.actor = req[r].actor
               /\ q.other = req[r].other /\ q.v = req[r].v /\ q.copy = req[r].copy
               /\ q.owned = req[r].owned /\ q.row = req[r].row
               /\ q.after = req[r].after
  BY <1>1, GotoMoves
<1>3. Good(q) /\ q.kind # "createVenue"
  BY <1>2
<1>4. Progress(q)
  BY <1>3 DEF Progress
<1> QED BY <1>2, <1>3, <1>4, ReadStep

LEMMA RememberStep ==
    ASSUME TeamInv, NEW r \in Requests, NEW step \in Steps, NEW copy \in Account,
           NEW owned \in Someone, NEW row \in Assignment,
           Remember(r, step, copy, owned, row),
           UNCHANGED <<tables, histories>>,
           req[r].kind # "createVenue",
           \A q \in Request :
               /\ q.kind = req[r].kind /\ q.at = step /\ q.actor = req[r].actor
               /\ q.other = req[r].other /\ q.v = req[r].v /\ q.copy = copy
               /\ q.owned = owned /\ q.row = row /\ q.after = req[r].after
               => Good(q)
    PROVE  TeamInv'
<1>1. TypeOK
  BY DEF TeamInv
<1>2. PICK q \in Request :
               /\ req' = [req EXCEPT ![r] = q]
               /\ q.kind = req[r].kind /\ q.at = step /\ q.actor = req[r].actor
               /\ q.other = req[r].other /\ q.v = req[r].v /\ q.copy = copy
               /\ q.owned = owned /\ q.row = row /\ q.after = req[r].after
  BY <1>1, RememberMoves
<1>3. Good(q) /\ q.kind # "createVenue"
  BY <1>2
<1>4. Progress(q)
  BY <1>3 DEF Progress
<1> QED BY <1>2, <1>3, <1>4, ReadStep

\* A request that arrives has made sure of its arguments.
LEMMA StartStep ==
    ASSUME TeamInv, NEW r \in Requests, NEW kind \in Kinds, NEW step \in Steps,
           NEW actor \in Someone, NEW other \in Someone, NEW v \in Venues \cup {NoOne},
           Start(r, kind, step, actor, other, v),
           kind # "register" => actor \in Accounts,
           kind \in {"register", "createStaff", "deactivate", "assign", "unassign"}
               => other \in Accounts,
           kind \in {"assign", "unassign", "createVenue", "updateVenue",
                     "deleteVenue", "work"} => v \in Venues,
           kind \in {"updateVenue", "deleteVenue"} => parts[v] # {},
           kind \in {"work", "profile", "reset"} => Exists(actor),
           kind = "createVenue" =>
               /\ step = "saveVenue" /\ parts[v] = {}
               /\ \A x \in Requests : req[x].v # v,
           step \in {"findEmail", "actor", "loadAccount", "saveVenue", "owns"}
    PROVE  TeamInv'
<1> DEFINE q == [kind |-> kind, at |-> step, actor |-> actor, other |-> other,
                 v |-> v, copy |-> NoAccount, owned |-> NoOne, row |-> "none",
                 after |-> actor \in ended]
<1>1. /\ req' = [req EXCEPT ![r] = q]
      /\ UNCHANGED <<tables, histories>>
  BY DEF Start
<1>2. /\ q.kind = kind /\ q.at = step /\ q.actor = actor /\ q.other = other
      /\ q.v = v /\ (q.after <=> actor \in ended)
  OBVIOUS
<1>3. q \in Request
  BY DEF Request, Someone, Account, NoAccount, Assignment
<1> HIDE DEF q
<1>4. Good(q)
  BY <1>2 DEF Good
<1>5. Progress(q)
  BY <1>2 DEF Progress
<1> QED BY <1>1, <1>2, <1>3, <1>4, <1>5, ReadStep

LEMMA StartsStep ==
    ASSUME TeamInv, NEW r \in Requests,
           \/ RegisterStart(r) \/ CreateStaffStart(r) \/ DeactivateStart(r)
           \/ ProfileStart(r) \/ ResetStart(r) \/ AssignStart(r) \/ UnassignStart(r)
           \/ CreateVenueStart(r) \/ UpdateVenueStart(r) \/ DeleteVenueStart(r)
           \/ WorkStart(r)
    PROVE  TeamInv'
<1> USE DEF Kinds, Steps, Someone
<1>1. CASE RegisterStart(r)
  BY <1>1, StartStep DEF RegisterStart
<1>2. CASE CreateStaffStart(r)
  BY <1>2, StartStep DEF CreateStaffStart
<1>3. CASE DeactivateStart(r)
  BY <1>3, StartStep DEF DeactivateStart
<1>4. CASE ProfileStart(r)
  BY <1>4, StartStep DEF ProfileStart
<1>5. CASE ResetStart(r)
  BY <1>5, StartStep DEF ResetStart
<1>6. CASE AssignStart(r)
  BY <1>6, StartStep DEF AssignStart
<1>7. CASE UnassignStart(r)
  BY <1>7, StartStep DEF UnassignStart
<1>8. CASE CreateVenueStart(r)
  BY <1>8, StartStep DEF CreateVenueStart
<1>9. CASE UpdateVenueStart(r)
  BY <1>9, StartStep DEF UpdateVenueStart
<1>10. CASE DeleteVenueStart(r)
  BY <1>10, StartStep DEF DeleteVenueStart
<1>11. CASE WorkStart(r)
  BY <1>11, StartStep DEF WorkStart
<1> QED BY <1>1, <1>2, <1>3, <1>4, <1>5, <1>6, <1>7, <1>8, <1>9, <1>10, <1>11

\* The checks: each either ends the request or goes on with what it has seen.
LEMMA ChecksStep ==
    ASSUME TeamInv, NEW r \in Requests,
           \/ CheckActor(r) \/ FindEmail(r) \/ FindVenue(r) \/ FindUser(r)
           \/ VerifyOwnership(r) \/ WorkActor(r) \/ Fail(r)
    PROVE  TeamInv'
<1> USE DEF Steps
<1>1. Good(req[r]) /\ req[r] \in Request /\ TypeOK /\ Facts
  BY DEF TeamInv, TypeOK
<1>2. CASE CheckActor(r)
  <2> DEFINE step == CASE req[r].kind = "createStaff" -> "findEmail"
                       [] req[r].kind = "deactivate" -> "findStaff"
                       [] OTHER -> "findVenue"
  <2>1. /\ req[r].kind \in {"createStaff", "deactivate", "assign", "unassign"}
        /\ req[r].at = "actor" /\ Pass(r, MayManage(req[r].actor), step)
        /\ UNCHANGED <<tables, histories>>
    BY <1>2 DEF CheckActor, At
  <2>2. step \in {"findEmail", "findStaff", "findVenue"}
    BY Zenon
  <2> HIDE DEF step
  <2>3. Finish(r) \/ Goto(r, step)
    BY <2>1 DEF Pass
  <2>4. \A q \in Request :
           /\ q.kind = req[r].kind /\ q.at = step /\ q.actor = req[r].actor
           /\ q.other = req[r].other /\ q.v = req[r].v /\ q.copy = req[r].copy
           /\ q.owned = req[r].owned /\ q.after = req[r].after
           => Good(q)
    BY <1>1, <2>1, <2>2 DEF Good
  <2> QED BY <2>1, <2>2, <2>3, <2>4, FinishStep, GotoStep
<1>3. CASE FindEmail(r)
  <2>1. /\ req[r].kind \in {"register", "createStaff"}
        /\ Finish(r) \/ Goto(r, "insert")
        /\ UNCHANGED <<tables, histories>>
    BY <1>3 DEF FindEmail, At, Pass
  <2>2. \A q \in Request :
           /\ q.kind = req[r].kind /\ q.at = "insert" /\ q.actor = req[r].actor
           /\ q.other = req[r].other /\ q.v = req[r].v /\ q.copy = req[r].copy
           /\ q.owned = req[r].owned /\ q.after = req[r].after
           => Good(q)
    BY <1>1, <2>1 DEF Good
  <2> QED BY <2>1, <2>2, FinishStep, GotoStep
<1>4. CASE FindVenue(r)
  <2> DEFINE step == IF req[r].kind = "assign" THEN "findUser" ELSE "findRow"
  <2>1. /\ req[r].kind \in {"assign", "unassign"} /\ req[r].at = "findVenue"
        /\ Finish(r) \/ (Goto(r, step) /\ owner[req[r].v] = req[r].actor)
        /\ UNCHANGED <<tables, histories>>
    BY <1>4 DEF FindVenue, At, Pass
  <2>2. step \in Steps /\ (step = "findRow" => req[r].kind = "unassign")
        /\ step \in {"findUser", "findRow"}
    BY <2>1
  <2>3. ASSUME owner[req[r].v] = req[r].actor
        PROVE  parts[req[r].v] # {} /\ founder[req[r].v] = req[r].actor
    BY <1>1, <2>1, <2>3, TeamAssumption
       DEF Good, Facts, VenuesInv, VenueStaysRemoved
  <2> HIDE DEF step
  <2>4. ASSUME owner[req[r].v] = req[r].actor
        PROVE  \A q \in Request :
           /\ q.kind = req[r].kind /\ q.at = step /\ q.actor = req[r].actor
           /\ q.other = req[r].other /\ q.v = req[r].v /\ q.copy = req[r].copy
           /\ q.owned = req[r].owned /\ q.after = req[r].after
           => Good(q)
    BY <1>1, <2>1, <2>2, <2>3, <2>4 DEF Good
  <2> QED BY <2>1, <2>2, <2>4, FinishStep, GotoStep
<1>5. CASE FindUser(r)
  <2>1. /\ req[r].kind = "assign" /\ req[r].at = "findUser"
        /\ \/ Finish(r)
           \/ /\ Goto(r, "findRow")
              /\ acct[req[r].other].role = "staff"
              /\ acct[req[r].other].boss = req[r].actor
        /\ UNCHANGED <<tables, histories>>
    BY <1>5 DEF FindUser, At, Pass
  <2>2. ASSUME acct[req[r].other].role = "staff",
               acct[req[r].other].boss = req[r].actor
        PROVE  \A q \in Request :
           /\ q.kind = req[r].kind /\ q.at = "findRow" /\ q.actor = req[r].actor
           /\ q.other = req[r].other /\ q.v = req[r].v /\ q.copy = req[r].copy
           /\ q.owned = req[r].owned /\ q.after = req[r].after
           => Good(q)
    BY <1>1, <2>1, <2>2 DEF Good
  <2>3. CASE Finish(r)
    BY <2>1, <2>3, FinishStep
  <2>4. CASE Goto(r, "findRow") /\ acct[req[r].other].role = "staff"
             /\ acct[req[r].other].boss = req[r].actor
    <3>1. "findRow" \in Steps /\ req[r].kind # "createVenue"
      BY <2>1
    <3> QED BY <2>1, <2>2, <2>4, <3>1, GotoStep
  <2> QED BY <2>1, <2>3, <2>4
<1>6. CASE VerifyOwnership(r)
  <2>1. /\ req[r].kind \in {"updateVenue", "deleteVenue"}
        /\ Finish(r) \/ Goto(r, "loadVenue")
        /\ UNCHANGED <<tables, histories>>
    BY <1>6 DEF VerifyOwnership, At, Pass
  <2>2. \A q \in Request :
           /\ q.kind = req[r].kind /\ q.at = "loadVenue" /\ q.actor = req[r].actor
           /\ q.other = req[r].other /\ q.v = req[r].v /\ q.copy = req[r].copy
           /\ q.owned = req[r].owned /\ q.after = req[r].after
           => Good(q)
    BY <1>1, <2>1 DEF Good
  <2> QED BY <2>1, <2>2, FinishStep, GotoStep
<1>7. CASE WorkActor(r)
  <2>1. /\ req[r].kind = "work" /\ req[r].at = "actor"
        /\ Finish(r) \/ (Goto(r, "venues") /\ acct[req[r].actor].active)
        /\ UNCHANGED <<tables, histories>>
    BY <1>7 DEF WorkActor, At, Pass
  <2>2. ASSUME acct[req[r].actor].active
        PROVE  \A q \in Request :
           /\ q.kind = req[r].kind /\ q.at = "venues" /\ q.actor = req[r].actor
           /\ q.other = req[r].other /\ q.v = req[r].v /\ q.copy = req[r].copy
           /\ q.owned = req[r].owned /\ q.after = req[r].after
           => Good(q)
    BY <1>1, <2>1, <2>2 DEF Good, Facts, AccountsInv
  <2>3. CASE Finish(r)
    BY <2>1, <2>3, FinishStep
  <2>4. CASE Goto(r, "venues") /\ acct[req[r].actor].active
    <3>1. "venues" \in Steps /\ req[r].kind # "createVenue"
      BY <2>1
    <3> QED BY <2>1, <2>2, <2>4, <3>1, GotoStep
  <2> QED BY <2>1, <2>3, <2>4
<1>8. CASE Fail(r)
  BY <1>8, FinishStep DEF Fail
<1> QED BY <1>2, <1>3, <1>4, <1>5, <1>6, <1>7, <1>8

\* The reads whose row the request keeps.
LEMMA LoadsStep ==
    ASSUME TeamInv, NEW r \in Requests,
           FindStaff(r) \/ LoadAccount(r) \/ FindRow(r) \/ LoadVenue(r)
    PROVE  TeamInv'
<1> USE DEF Steps
<1>1. Good(req[r]) /\ req[r] \in Request /\ TypeOK /\ Facts
  BY DEF TeamInv, TypeOK
<1>2. CASE FindStaff(r)
  <2> DEFINE s == acct[req[r].other]
  <2>1. /\ req[r].kind = "deactivate" /\ req[r].at = "findStaff"
        /\ Finish(r) \/ (Remember(r, "endAccount", s, NoOne, "none")
                         /\ s.boss = req[r].actor)
        /\ UNCHANGED <<tables, histories>>
    BY <1>2 DEF FindStaff, At
  <2>2. s \in Account /\ NoOne \in Someone /\ "none" \in Assignment
    BY <1>1, <2>1 DEF Good, TypeOK, Someone, Assignment
  <2>3. ASSUME s.boss = req[r].actor
        PROVE  Known(req[r].other, s) /\ s.role = "staff"
    BY <1>1, <2>1, <2>3, TeamAssumption DEF Good, Facts, AccountsInv, Known, Exists
  <2> HIDE DEF s
  <2>4. ASSUME s.boss = req[r].actor
        PROVE  \A q \in Request :
           /\ q.kind = req[r].kind /\ q.at = "endAccount" /\ q.actor = req[r].actor
           /\ q.other = req[r].other /\ q.v = req[r].v /\ q.copy = s
           /\ q.owned = NoOne /\ q.row = "none" /\ q.after = req[r].after
           => Good(q)
    BY <1>1, <2>1, <2>3, <2>4 DEF Good
  <2> QED BY <2>1, <2>2, <2>4, FinishStep, RememberStep
<1>3. CASE LoadAccount(r)
  <2> DEFINE s == acct[req[r].actor]
  <2>1. /\ req[r].kind \in {"profile", "reset"} /\ req[r].at = "loadAccount"
        /\ Remember(r, "saveAccount", s, NoOne, "none")
        /\ UNCHANGED <<tables, histories>>
    BY <1>3 DEF LoadAccount, At
  <2>2. s \in Account /\ NoOne \in Someone /\ "none" \in Assignment
    BY <1>1, <2>1 DEF Good, TypeOK, Someone, Assignment
  <2>3. Known(req[r].actor, s)
    BY <1>1, <2>1 DEF Good, Known, Exists
  <2> HIDE DEF s
  <2>4. \A q \in Request :
           /\ q.kind = req[r].kind /\ q.at = "saveAccount" /\ q.actor = req[r].actor
           /\ q.other = req[r].other /\ q.v = req[r].v /\ q.copy = s
           /\ q.owned = NoOne /\ q.row = "none" /\ q.after = req[r].after
           => Good(q)
    BY <1>1, <2>1, <2>3 DEF Good
  <2> QED BY <2>1, <2>2, <2>4, RememberStep
<1>4. CASE FindRow(r)
  <2> DEFINE row == roster[req[r].other][req[r].v]
  <2>1. /\ req[r].kind \in {"assign", "unassign"} /\ req[r].at = "findRow"
        /\ \/ Finish(r)
           \/ /\ Remember(r, "saveRow", NoAccount, NoOne, row)
              /\ req[r].kind = "unassign" => row # "none"
        /\ UNCHANGED <<tables, histories>>
    BY <1>4 DEF FindRow, At
  <2>2. row \in Assignment /\ NoOne \in Someone /\ NoAccount \in Account
    BY <1>1, <2>1 DEF Good, TypeOK, Someone, Assignment, NoAccount, Account
  <2>3. ASSUME req[r].kind = "unassign" => row # "none"
        PROVE  \A q \in Request :
           /\ q.kind = req[r].kind /\ q.at = "saveRow" /\ q.actor = req[r].actor
           /\ q.other = req[r].other /\ q.v = req[r].v /\ q.copy = NoAccount
           /\ q.owned = NoOne /\ q.row = row /\ q.after = req[r].after
           => Good(q)
    BY <1>1, <2>1, <2>3 DEF Good
  <2> HIDE DEF row
  <2> QED BY <2>1, <2>2, <2>3, FinishStep, RememberStep
<1>5. CASE LoadVenue(r)
  <2> DEFINE o == owner[req[r].v]
  <2>1. /\ req[r].kind \in {"updateVenue", "deleteVenue"} /\ req[r].at = "loadVenue"
        /\ Remember(r, "saveCopy", NoAccount, o, "none")
        /\ UNCHANGED <<tables, histories>>
    BY <1>5 DEF LoadVenue, At
  <2>2. o \in Someone /\ "none" \in Assignment /\ NoAccount \in Account
    BY <1>1, <2>1 DEF Good, TypeOK, Someone, Assignment, NoAccount, Account
  <2>3. o \in {NoOne, founder[req[r].v]}
    BY <1>1, <2>1 DEF Good, Facts, VenueStaysRemoved
  <2> HIDE DEF o
  <2>4. \A q \in Request :
           /\ q.kind = req[r].kind /\ q.at = "saveCopy" /\ q.actor = req[r].actor
           /\ q.other = req[r].other /\ q.v = req[r].v /\ q.copy = NoAccount
           /\ q.owned = o /\ q.row = "none" /\ q.after = req[r].after
           => Good(q)
    BY <1>1, <2>1, <2>3 DEF Good
  <2> QED BY <2>1, <2>2, <2>4, RememberStep
<1> QED BY <1>2, <1>3, <1>4, <1>5

-------------------------------------------------------------------------------
(* Steps that write. *)

\* The request that writes is done with, or goes on by one step.
LEMMA WriteEnds ==
    ASSUME TeamInv, NEW r \in Requests, Finish(r), Advance, TypeOK', Facts',
           \A v \in Venues : parts'[v] # parts[v] =>
               req[r].kind = "createVenue" /\ req[r].v = v
    PROVE  TeamInv'
<1>1. req' = [req EXCEPT ![r] = Idle]
  BY DEF Finish
<1>2. Idle \in Request /\ Good(Idle)' /\ Progress(Idle)' /\ Idle.kind = "none"
  BY IdleIsGood, GoodStays DEF Progress
<1> HIDE DEF Idle
<1>3. PICK q \in Request : q = Idle
  BY <1>2
<1>4. Good(q)' /\ Progress(q)' /\ q.kind = "none" /\ req' = [req EXCEPT ![r] = q]
  BY <1>1, <1>2, <1>3 DEF Good, Progress, Known, Exists
<1>5. /\ OneCreator'
      /\ \A x \in Requests : Good(req[x])' /\ Progress(req[x])'
  BY <1>4, Moves
<1> QED BY <1>5 DEF TeamInv

\* Saving a row of business_users.
LEMMA AccountWrites ==
    ASSUME TeamInv, NEW r \in Requests, NEW a \in Accounts, NEW row \in Account,
           SaveAccount(a, row), UNCHANGED <<owner, parts, roster>>,
           UNCHANGED <<founder, ended, late, intruders, removed, restored>>,
           revived \subseteq revived', revived' \subseteq revived \cup {a},
           row.active => acct[a].active \/ a \in revived' \/ a \notin ended,
           \/ /\ row.role = acct[a].role /\ row.boss = acct[a].boss
              /\ Exists(a)
              /\ row.active => acct[a].active \/ a \in revived'
           \/ /\ ~Exists(a)
              /\ \/ row.role = "owner" /\ row.boss = NoOne
                 \/ row.role = "staff" /\ row.boss \in Accounts
    PROVE  /\ Advance
           /\ acct' \in [Accounts -> Account] /\ revived' \subseteq Accounts
           /\ Facts'
<1>1. acct \in [Accounts -> Account] /\ revived \subseteq Accounts /\ Facts
      /\ roster \in [Accounts -> [Venues -> Assignment]]
      /\ founder \in [Venues -> Someone]
  BY DEF TeamInv, TypeOK
<1>2. /\ acct' \in [Accounts -> Account] /\ acct'[a] = row
      /\ \A b \in Accounts : b # a => acct'[b] = acct[b]
  BY <1>1 DEF SaveAccount
<1>3. Advance
  BY <1>1, <1>2 DEF Advance, Exists
<1>4. AccountsInv'
  BY <1>1, <1>2, TeamAssumption DEF Facts, AccountsInv, Exists
<1>5. RosterIsOfOneBusiness'
  BY <1>1, <1>2 DEF Facts, RosterIsOfOneBusiness, Exists
<1>6. VenuesInv' /\ VenueStaysRemoved' /\ LoggedVenueIsWhole' /\ RemovedStaysOut'
  BY <1>1 DEF Facts, VenuesInv, VenueStaysRemoved, LoggedVenueIsWhole, RemovedStaysOut
<1> QED BY <1>1, <1>2, <1>3, <1>4, <1>5, <1>6 DEF Facts

LEMMA InsertsStep ==
    ASSUME TeamInv, NEW r \in Requests, InsertOwner(r) \/ InsertStaff(r)
    PROVE  TeamInv'
<1> DEFINE a == req[r].other
           row == IF req[r].kind = "register" THEN NewOwner ELSE NewStaff(req[r].actor)
<1>1. /\ req[r].kind \in {"register", "createStaff"}
      /\ Finish(r) /\ UNCHANGED <<owner, parts, roster, histories>>
      /\ IF Exists(a) THEN UNCHANGED acct ELSE SaveAccount(a, row)
  BY DEF InsertOwner, InsertStaff, At
<1>2. Good(req[r]) /\ TypeOK
  BY DEF TeamInv
<1>3. a \in Accounts /\ row \in Account
      /\ \/ row.role = "owner" /\ row.boss = NoOne
         \/ row.role = "staff" /\ row.boss \in Accounts
  BY <1>1, <1>2 DEF Good, Account, NewOwner, NewStaff, Someone
<1>4. CASE Exists(a)
  BY <1>1, <1>4, FinishStep DEF tables
<1>5. CASE ~Exists(a)
  <2> HIDE DEF a, row
  <2>1. a \notin ended
    BY <1>3, <1>5 DEF TeamInv, Facts, AccountsInv, Exists
  <2>2. SaveAccount(a, row)
    BY <1>1, <1>5
  <2>3. UNCHANGED <<founder, ended, revived, late, intruders, removed, restored>>
    BY <1>1 DEF histories
  <2>4. Advance /\ Facts' /\ acct' \in [Accounts -> Account]
    BY <1>1, <1>3, <1>5, <2>1, <2>2, <2>3, AccountWrites
  <2>5. TypeOK'
    <3>1. req' \in [Requests -> Request]
      BY <1>1, <1>2, IdleIsGood DEF Finish, TypeOK
    <3> QED BY <1>1, <1>2, <2>3, <2>4, <3>1 DEF TypeOK
  <2> QED BY <1>1, <2>4, <2>5, WriteEnds
<1> QED BY <1>4, <1>5

LEMMA SaveCopyStep ==
    ASSUME TeamInv, NEW r \in Requests, SaveCopy(r)
    PROVE  TeamInv'
<1> DEFINE a == req[r].actor
           row == req[r].copy
<1>1. /\ req[r].kind \in {"profile", "reset"} /\ req[r].at = "saveAccount"
      /\ Finish(r) /\ SaveAccount(a, row)
      /\ revived' = IF row.active /\ ~acct[a].active THEN revived \cup {a} ELSE revived
      /\ UNCHANGED <<owner, parts, roster>>
      /\ UNCHANGED <<founder, ended, late, intruders, removed, restored>>
  BY DEF SaveCopy, At
<1>2. Good(req[r]) /\ TypeOK /\ req[r] \in Request
  BY DEF TeamInv, TypeOK
<1>3. a \in Accounts /\ row \in Account /\ Known(a, row)
  BY <1>1, <1>2 DEF Good, Request
<1> HIDE DEF a, row
<1>4. /\ revived \subseteq revived' /\ revived' \subseteq revived \cup {a}
      /\ row.active => acct[a].active \/ a \in revived'
  BY <1>1
<1>5. row.role = acct[a].role /\ row.boss = acct[a].boss /\ Exists(a)
  BY <1>3 DEF Known
<1>6. /\ Advance /\ Facts'
      /\ acct' \in [Accounts -> Account] /\ revived' \subseteq Accounts
  BY <1>1, <1>3, <1>4, <1>5, AccountWrites
<1>7. TypeOK'
  <2>1. req' \in [Requests -> Request]
    BY <1>1, <1>2, IdleIsGood DEF Finish, TypeOK
  <2> QED BY <1>1, <1>2, <1>6, <2>1 DEF TypeOK
<1> QED BY <1>1, <1>6, <1>7, WriteEnds

\* The account is written before the roster is, so that the account of the copy
\* is inactive by the time its staff member counts as gone.
LEMMA EndAccountStep ==
    ASSUME TeamInv, NEW r \in Requests, EndAccount(r)
    PROVE  TeamInv'
<1> DEFINE a == req[r].other
           row == [req[r].copy EXCEPT !.active = FALSE]
<1>1. /\ req[r].kind = "deactivate" /\ req[r].at = "endAccount"
      /\ Goto(r, "endRoster") /\ SaveAccount(a, row)
      /\ UNCHANGED <<owner, parts, roster, histories>>
  BY DEF EndAccount, At
<1>2. Good(req[r]) /\ TypeOK /\ req[r] \in Request
  BY DEF TeamInv, TypeOK
<1>3. a \in Accounts /\ Known(a, req[r].copy) /\ req[r].copy \in Account
      /\ req[r].copy.role = "staff"
  BY <1>1, <1>2 DEF Good, Request
<1>4. /\ row \in Account /\ row.role = req[r].copy.role
      /\ row.boss = req[r].copy.boss /\ ~row.active
  BY <1>3 DEF Account
<1>5. row.role = acct[a].role /\ row.boss = acct[a].boss /\ Exists(a) /\ row.role = "staff"
  BY <1>3, <1>4 DEF Known
<1> HIDE DEF row
<1>6. Advance /\ Facts' /\ acct' \in [Accounts -> Account]
  <2> HIDE DEF a
  <2>1. UNCHANGED <<founder, ended, revived, late, intruders, removed, restored>>
    BY <1>1 DEF histories
  <2> QED BY <1>1, <1>3, <1>4, <1>5, <2>1, AccountWrites
<1>7. PICK q \in Request :
               /\ req' = [req EXCEPT ![r] = q]
               /\ q.kind = req[r].kind /\ q.at = "endRoster" /\ q.actor = req[r].actor
               /\ q.other = req[r].other /\ q.v = req[r].v /\ q.copy = req[r].copy
               /\ q.owned = req[r].owned /\ q.row = req[r].row
               /\ q.after = req[r].after
  BY <1>1, <1>2, GotoMoves DEF Steps
<1>8. acct'[a] = row
  BY <1>1, <1>2, <1>3 DEF SaveAccount, TypeOK
<1>9. Good(q)' /\ Progress(q)' /\ q.kind # "createVenue"
  <2>1. q.after => q.actor \in ended'
    BY <1>1, <1>2, <1>7 DEF Good, histories
  <2> QED BY <1>1, <1>2, <1>4, <1>5, <1>7, <1>8, <2>1 DEF Good, Progress
<1>10. /\ OneCreator'
       /\ req' \in [Requests -> Request]
       /\ \A x \in Requests : Good(req[x])' /\ Progress(req[x])'
  BY <1>1, <1>6, <1>7, <1>9, Moves
<1>11. TypeOK'
  BY <1>1, <1>2, <1>6, <1>10 DEF TypeOK, histories
<1> QED BY <1>6, <1>10, <1>11 DEF TeamInv

LEMMA EndRosterStep ==
    ASSUME TeamInv, NEW r \in Requests, EndRoster(r)
    PROVE  TeamInv'
<1> DEFINE a == req[r].other
<1>1. /\ req[r].kind = "deactivate" /\ req[r].at = "endRoster"
      /\ Finish(r) /\ ended' = ended \cup {a}
      /\ roster' = [roster EXCEPT ![a] =
                        [v \in Venues |-> IF @[v] = "none" THEN "none" ELSE "off"]]
      /\ UNCHANGED <<acct, owner, parts>>
      /\ UNCHANGED <<founder, revived, late, intruders, removed, restored>>
  BY DEF EndRoster, At
<1>2. Good(req[r]) /\ TypeOK /\ Facts /\ req[r] \in Request
  BY DEF TeamInv, TypeOK
<1>3. /\ a \in Accounts /\ acct[a].role = "staff"
      /\ acct[a].active => a \in revived
  BY <1>1, <1>2 DEF Good
<1> HIDE DEF a
<1>4. /\ roster' \in [Accounts -> [Venues -> Assignment]]
      /\ \A v \in Venues : roster'[a][v] = IF roster[a][v] = "none" THEN "none" ELSE "off"
      /\ \A b \in Accounts : b # a => roster'[b] = roster[b]
  BY <1>1, <1>2, <1>3 DEF TypeOK, Assignment
<1>5. Advance
  BY <1>1, <1>2, <1>4 DEF Advance
<1>6. AccountsInv'
  BY <1>1, <1>2, <1>3, <1>4 DEF Facts, AccountsInv
<1>7. RosterIsOfOneBusiness'
  BY <1>1, <1>2, <1>4 DEF Facts, RosterIsOfOneBusiness
<1>8. VenuesInv' /\ VenueStaysRemoved' /\ LoggedVenueIsWhole' /\ RemovedStaysOut'
  BY <1>1, <1>2 DEF Facts, VenuesInv, VenueStaysRemoved, LoggedVenueIsWhole, RemovedStaysOut
<1>9. TypeOK'
  <2>1. req' \in [Requests -> Request]
    BY <1>1, <1>2, IdleIsGood DEF Finish, TypeOK
  <2> QED BY <1>1, <1>2, <1>3, <1>4, <2>1 DEF TypeOK
<1> QED BY <1>1, <1>5, <1>6, <1>7, <1>8, <1>9, WriteEnds DEF Facts

LEMMA SaveAssignmentStep ==
    ASSUME TeamInv, NEW r \in Requests, SaveAssignment(r)
    PROVE  TeamInv'
<1> DEFINE s == req[r].other
           w == req[r].v
<1>1. /\ req[r].kind = "assign" /\ req[r].at = "saveRow"
      /\ Finish(r)
      /\ \/ /\ SaveRoster(s, w, "on")
            /\ late' = IF s \in ended THEN late \cup {<<s, w>>} ELSE late
         \/ UNCHANGED <<roster, late>>
      /\ UNCHANGED <<acct, owner, parts>>
      /\ UNCHANGED <<founder, ended, revived, intruders, removed, restored>>
  BY DEF SaveAssignment, At
<1>2. Good(req[r]) /\ TypeOK /\ Facts /\ req[r] \in Request
  BY DEF TeamInv, TypeOK
<1>3. /\ s \in Accounts /\ w \in Venues
      /\ acct[s].role = "staff" /\ acct[s].boss = founder[w]
  BY <1>1, <1>2 DEF Good
<1>4. CASE UNCHANGED <<roster, late>>
  BY <1>1, <1>4, FinishStep DEF tables, histories
<1>5. CASE /\ SaveRoster(s, w, "on")
           /\ late' = IF s \in ended THEN late \cup {<<s, w>>} ELSE late
  <2> HIDE DEF s, w
  <2>1. /\ roster' \in [Accounts -> [Venues -> Assignment]]
        /\ roster'[s][w] = "on"
        /\ \A v \in Venues : v # w => roster'[s][v] = roster[s][v]
        /\ \A b \in Accounts : b # s => roster'[b] = roster[b]
    BY <1>2, <1>3, <1>5 DEF SaveRoster, TypeOK, Assignment
  <2>2. Advance
    BY <1>1, <2>1 DEF Advance
  <2>3. AccountsInv'
    BY <1>1, <1>2, <1>5, <2>1 DEF Facts, AccountsInv
  <2>4. RosterIsOfOneBusiness'
    BY <1>1, <1>2, <1>3, <2>1 DEF Facts, RosterIsOfOneBusiness
  <2>5. RemovedStaysOut'
    BY <1>1, <1>2, <1>5 DEF Facts, RemovedStaysOut
  <2>6. VenuesInv' /\ VenueStaysRemoved' /\ LoggedVenueIsWhole'
    BY <1>1, <1>2 DEF Facts, VenuesInv, VenueStaysRemoved, LoggedVenueIsWhole
  <2>7. TypeOK'
    <3>1. req' \in [Requests -> Request]
      BY <1>1, <1>2, IdleIsGood DEF Finish, TypeOK
    <3>2. late' \subseteq Accounts \X Venues
      BY <1>2, <1>3, <1>5 DEF TypeOK
    <3> QED BY <1>1, <1>2, <2>1, <3>1, <3>2 DEF TypeOK
  <2> QED BY <1>1, <2>2, <2>3, <2>4, <2>5, <2>6, <2>7, WriteEnds DEF Facts
<1> QED BY <1>1, <1>4, <1>5

LEMMA EndAssignmentStep ==
    ASSUME TeamInv, NEW r \in Requests, EndAssignment(r)
    PROVE  TeamInv'
<1> DEFINE s == req[r].other
           w == req[r].v
<1>1. /\ req[r].kind = "unassign" /\ req[r].at = "saveRow"
      /\ Finish(r) /\ SaveRoster(s, w, "off")
      /\ UNCHANGED <<acct, owner, parts>>
      /\ UNCHANGED <<founder, ended, revived, late, intruders, removed, restored>>
  BY DEF EndAssignment, At, histories
<1>2. Good(req[r]) /\ TypeOK /\ Facts /\ req[r] \in Request
  BY DEF TeamInv, TypeOK
<1>3. s \in Accounts /\ w \in Venues /\ roster[s][w] # "none"
  BY <1>1, <1>2 DEF Good
<1> HIDE DEF s, w
<1>4. /\ roster' \in [Accounts -> [Venues -> Assignment]]
      /\ roster'[s][w] = "off"
      /\ \A v \in Venues : v # w => roster'[s][v] = roster[s][v]
      /\ \A b \in Accounts : b # s => roster'[b] = roster[b]
  BY <1>1, <1>2, <1>3 DEF SaveRoster, TypeOK, Assignment
<1>5. Advance
  BY <1>1, <1>4 DEF Advance
<1>6. AccountsInv'
  BY <1>1, <1>2, <1>4 DEF Facts, AccountsInv
<1>7. RosterIsOfOneBusiness'
  BY <1>1, <1>2, <1>3, <1>4 DEF Facts, RosterIsOfOneBusiness
<1>8. VenuesInv' /\ VenueStaysRemoved' /\ LoggedVenueIsWhole' /\ RemovedStaysOut'
  BY <1>1, <1>2 DEF Facts, VenuesInv, VenueStaysRemoved, LoggedVenueIsWhole, RemovedStaysOut
<1>9. TypeOK'
  <2>1. req' \in [Requests -> Request]
    BY <1>1, <1>2, IdleIsGood DEF Finish, TypeOK
  <2> QED BY <1>1, <1>2, <1>4, <2>1 DEF TypeOK
<1> QED BY <1>1, <1>5, <1>6, <1>7, <1>8, <1>9, WriteEnds DEF Facts

\* A venue that is created was nobody's and on nobody's roster.
LEMMA SaveVenueStep ==
    ASSUME TeamInv, NEW r \in Requests, SaveVenue(r)
    PROVE  TeamInv'
<1> DEFINE a == req[r].actor
           w == req[r].v
<1>1. /\ req[r].kind = "createVenue" /\ req[r].at = "saveVenue"
      /\ Goto(r, "saveBusyness")
      /\ owner' = [owner EXCEPT ![w] = a]
      /\ founder' = [founder EXCEPT ![w] = a]
      /\ parts' = [parts EXCEPT ![w] = {"venue"}]
      /\ UNCHANGED <<acct, roster>>
      /\ UNCHANGED <<ended, revived, late, intruders, removed, restored>>
  BY DEF SaveVenue, At
<1>2. Good(req[r]) /\ Progress(req[r]) /\ TypeOK /\ Facts /\ req[r] \in Request
  BY DEF TeamInv, TypeOK
<1>3. a \in Accounts /\ w \in Venues /\ parts[w] = {}
  BY <1>1, <1>2 DEF Good, Progress
<1>4. PICK q \in Request :
               /\ req' = [req EXCEPT ![r] = q]
               /\ q.kind = req[r].kind /\ q.at = "saveBusyness" /\ q.actor = req[r].actor
               /\ q.other = req[r].other /\ q.v = req[r].v /\ q.copy = req[r].copy
               /\ q.owned = req[r].owned /\ q.row = req[r].row
               /\ q.after = req[r].after
  BY <1>1, <1>2, GotoMoves DEF Steps
<1>5. q.kind = "createVenue" /\ q.at = "saveBusyness" /\ q.v = w /\ q.actor = a
      /\ (q.after => a \in ended)
  BY <1>1, <1>2, <1>4 DEF Good
<1>6. \A x \in Requests : x # r /\ req[x].kind = "createVenue" => req[x].v # w
  BY <1>1 DEF TeamInv, OneCreator
<1> HIDE DEF a, w
<1>7. /\ owner'[w] = a /\ founder'[w] = a /\ parts'[w] = {"venue"}
      /\ \A v \in Venues : v # w =>
             owner'[v] = owner[v] /\ founder'[v] = founder[v] /\ parts'[v] = parts[v]
      /\ owner' \in [Venues -> Someone] /\ founder' \in [Venues -> Someone]
      /\ parts' \in [Venues -> SUBSET VenueParts]
  BY <1>1, <1>2, <1>3 DEF TypeOK, Someone, VenueParts
<1>8. Advance
  BY <1>1, <1>3, <1>7 DEF Advance
<1>9. /\ OneCreator'
      /\ req' \in [Requests -> Request]
      /\ \A x \in Requests : Good(req[x])' /\ Progress(req[x])'
  <2>1. Good(q)' /\ Progress(q)'
    BY <1>1, <1>3, <1>5, <1>7 DEF Good, Progress
  <2>2. \A v \in Venues : parts'[v] # parts[v] =>
            req[r].kind = "createVenue" /\ req[r].v = v
    BY <1>1, <1>4, <1>5, <1>7
  <2> QED BY <1>4, <1>5, <1>6, <1>8, <2>1, <2>2, Moves
<1>10. AccountsInv' /\ RemovedStaysOut'
  BY <1>1, <1>2 DEF Facts, AccountsInv, RemovedStaysOut
<1>11. RosterIsOfOneBusiness'
  <2>1. \A s \in Accounts : roster[s][w] = "none"
    BY <1>2, <1>3, TeamAssumption
       DEF Facts, RosterIsOfOneBusiness, VenuesInv, AccountsInv
  <2> QED BY <1>1, <1>2, <1>7, <2>1 DEF Facts, RosterIsOfOneBusiness
<1>12. VenuesInv' /\ VenueStaysRemoved'
  BY <1>1, <1>2, <1>3, <1>7 DEF Facts, VenuesInv, VenueStaysRemoved
<1>13. LoggedVenueIsWhole'
  BY <1>2, <1>7 DEF Facts, LoggedVenueIsWhole
<1>14. TypeOK'
  BY <1>1, <1>2, <1>7, <1>9 DEF TypeOK
<1> QED BY <1>9, <1>10, <1>11, <1>12, <1>13, <1>14 DEF TeamInv, Facts

\* The rows that follow, in their order.
LEMMA VenuePartsStep ==
    ASSUME TeamInv, NEW r \in Requests, SaveBusyness(r) \/ SaveVibe(r) \/ LogVenue(r)
    PROVE  TeamInv'
<1> DEFINE w == req[r].v
           part == IF req[r].at = "saveBusyness" THEN "busyness"
                   ELSE IF req[r].at = "saveVibe" THEN "vibe" ELSE "log"
           step == IF req[r].at = "saveBusyness" THEN "saveVibe" ELSE "log"
<1>1. /\ req[r].kind = "createVenue"
      /\ req[r].at \in {"saveBusyness", "saveVibe", "log"}
      /\ IF req[r].at = "log" THEN Finish(r) ELSE Goto(r, step)
      /\ parts' = [parts EXCEPT ![w] = @ \cup {part}]
      /\ UNCHANGED <<acct, owner, roster>>
      /\ UNCHANGED <<founder, ended, revived, late, intruders, removed, restored>>
  BY DEF SaveBusyness, SaveVibe, LogVenue, At, histories
<1>2. Good(req[r]) /\ Progress(req[r]) /\ TypeOK /\ Facts /\ req[r] \in Request
  BY DEF TeamInv, TypeOK
<1>3. w \in Venues
  BY <1>1, <1>2 DEF Good
<1>4. /\ parts'[w] = parts[w] \cup {part}
      /\ \A v \in Venues : v # w => parts'[v] = parts[v]
      /\ parts' \in [Venues -> SUBSET VenueParts]
  <2>1. part \in VenueParts
    BY DEF VenueParts
  <2> HIDE DEF part
  <2> QED BY <1>1, <1>2, <1>3, <2>1 DEF TypeOK
<1>5. Advance
  BY <1>1, <1>4 DEF Advance
<1>6. AccountsInv' /\ RemovedStaysOut' /\ RosterIsOfOneBusiness' /\ VenueStaysRemoved'
  BY <1>1, <1>2 DEF Facts, AccountsInv, RemovedStaysOut, RosterIsOfOneBusiness,
                     VenueStaysRemoved
<1>7. VenuesInv' /\ LoggedVenueIsWhole'
  <2>1. parts[w] # {} /\ ("log" \in parts'[w] => parts'[w] = VenueParts)
    BY <1>1, <1>2, <1>4 DEF Progress, VenueParts
  <2> HIDE DEF w, part
  <2> QED BY <1>1, <1>2, <1>4, <2>1 DEF Facts, VenuesInv, LoggedVenueIsWhole
<1>8. \A v \in Venues : parts'[v] # parts[v] =>
          req[r].kind = "createVenue" /\ req[r].v = v
  BY <1>1, <1>4
<1>9. CASE req[r].at = "log"
  <2>1. Finish(r)
    BY <1>1, <1>9
  <2>2. TypeOK'
    <3>1. req' \in [Requests -> Request]
      BY <1>2, <2>1, IdleIsGood DEF Finish, TypeOK
    <3> QED BY <1>1, <1>2, <1>4, <3>1 DEF TypeOK
  <2> QED BY <1>5, <1>6, <1>7, <1>8, <2>1, <2>2, WriteEnds DEF Facts
<1>10. CASE req[r].at # "log"
  <2>1. Goto(r, step) /\ step \in Steps
    BY <1>1, <1>10 DEF Steps
  <2>2. PICK q \in Request :
               /\ req' = [req EXCEPT ![r] = q]
               /\ q.kind = req[r].kind /\ q.at = step /\ q.actor = req[r].actor
               /\ q.other = req[r].other /\ q.v = req[r].v /\ q.copy = req[r].copy
               /\ q.owned = req[r].owned /\ q.row = req[r].row
               /\ q.after = req[r].after
    <3> HIDE DEF step
    <3> QED BY <1>2, <2>1, GotoMoves
  <2>3. Progress(q)'
    BY <1>1, <1>2, <1>4, <1>10, <2>2 DEF Progress
  <2>4. Good(q)'
    <3>1. /\ q.kind = "createVenue" /\ q.actor \in Accounts /\ q.v \in Venues
          /\ (q.after => q.actor \in ended')
      BY <1>1, <1>2, <2>2 DEF Good
    <3> QED BY <3>1 DEF Good
  <2>5. \A x \in Requests : x # r /\ req[x].kind = "createVenue" => req[x].v # q.v
    BY <1>1, <2>2 DEF TeamInv, OneCreator
  <2> HIDE DEF step, part, w
  <2>6. /\ OneCreator'
        /\ req' \in [Requests -> Request]
        /\ \A x \in Requests : Good(req[x])' /\ Progress(req[x])'
    BY <1>5, <1>8, <2>2, <2>3, <2>4, <2>5, Moves
  <2>7. TypeOK'
    BY <1>1, <1>2, <1>4, <2>6 DEF TypeOK
  <2> QED BY <1>6, <1>7, <2>6, <2>7 DEF TeamInv, Facts
<1> QED BY <1>9, <1>10

\* A copy of a venue names its founder, or nobody.
LEMMA VenueCopiesStep ==
    ASSUME TeamInv, NEW r \in Requests, UpdateVenue(r) \/ DropVenue(r)
    PROVE  TeamInv'
<1> DEFINE w == req[r].v
           o == IF req[r].kind = "updateVenue" THEN req[r].owned ELSE NoOne
<1>1. /\ req[r].kind \in {"updateVenue", "deleteVenue"} /\ req[r].at = "saveCopy"
      /\ Finish(r) /\ owner' = [owner EXCEPT ![w] = o]
      /\ UNCHANGED <<acct, parts, roster>>
      /\ UNCHANGED <<founder, ended, revived, late, intruders>>
      /\ \/ removed' = removed \cup {w} /\ o = NoOne /\ UNCHANGED restored
         \/ /\ UNCHANGED removed
            /\ restored' = IF owner[w] # o THEN restored \cup {w} ELSE restored
  BY DEF UpdateVenue, DropVenue, At
<1>2. Good(req[r]) /\ TypeOK /\ Facts /\ req[r] \in Request
  BY DEF TeamInv, TypeOK
<1>3. w \in Venues /\ parts[w] # {} /\ o \in {NoOne, founder[w]}
  BY <1>1, <1>2 DEF Good
<1> HIDE DEF w, o
<1>4. /\ owner'[w] = o
      /\ \A v \in Venues : v # w => owner'[v] = owner[v]
      /\ owner' \in [Venues -> Someone]
  BY <1>1, <1>2, <1>3 DEF TypeOK, Someone
<1>5. Advance
  BY <1>1 DEF Advance
<1>6. AccountsInv' /\ RosterIsOfOneBusiness' /\ LoggedVenueIsWhole' /\ RemovedStaysOut'
  BY <1>1, <1>2 DEF Facts, AccountsInv, RosterIsOfOneBusiness, LoggedVenueIsWhole,
                     RemovedStaysOut
<1>7. VenuesInv' /\ VenueStaysRemoved'
  BY <1>1, <1>2, <1>3, <1>4 DEF Facts, VenuesInv, VenueStaysRemoved
<1>8. TypeOK'
  <2>1. req' \in [Requests -> Request]
    BY <1>1, <1>2, IdleIsGood DEF Finish, TypeOK
  <2> QED BY <1>1, <1>2, <1>3, <1>4, <2>1 DEF TypeOK
<1> QED BY <1>1, <1>5, <1>6, <1>7, <1>8, WriteEnds DEF Facts

\* Who is let in after their deactivation is a staff member with both accidents
\* behind them.
LEMMA WorkVenuesStep ==
    ASSUME TeamInv, NEW r \in Requests, WorkVenues(r)
    PROVE  TeamInv'
<1> DEFINE a == req[r].actor
           w == req[r].v
<1>1. /\ req[r].kind = "work" /\ req[r].at = "venues"
      /\ Finish(r)
      /\ intruders' = IF WorksAt(a, w) /\ req[r].after
                      THEN intruders \cup {<<a, w>>} ELSE intruders
      /\ UNCHANGED <<acct, owner, parts, roster>>
      /\ UNCHANGED <<founder, ended, revived, late, removed, restored>>
  BY DEF WorkVenues, At, tables
<1>2. Good(req[r]) /\ TypeOK /\ Facts /\ req[r] \in Request
  BY DEF TeamInv, TypeOK
<1>3. /\ a \in Accounts /\ w \in Venues
      /\ req[r].after => a \in ended /\ a \in revived
  BY <1>1, <1>2 DEF Good
<1> HIDE DEF a, w
<1>4. WorksAt(a, w) /\ req[r].after => <<a, w>> \in late
  BY <1>2, <1>3 DEF WorksAt, Facts, AccountsInv
<1>5. RemovedStaysOut' /\ intruders' \subseteq Accounts \X Venues
  <2>1. intruders \subseteq Accounts \X Venues /\ <<a, w>> \in Accounts \X Venues
    BY <1>2, <1>3 DEF TypeOK
  <2>2. intruders' = intruders
        \/ (intruders' = intruders \cup {<<a, w>>} /\ <<a, w>> \in late /\ a \in revived)
    BY <1>1, <1>3, <1>4
  <2>3. (\A x \in intruders : x[1] \in revived /\ x \in late) /\ UNCHANGED <<late, revived>>
    BY <1>1, <1>2 DEF Facts, RemovedStaysOut
  <2>4. \A x \in intruders' : x[1] \in revived' /\ x \in late'
    BY <2>2, <2>3
  <2>5. intruders' \subseteq Accounts \X Venues
    BY <2>1, <2>2
  <2> QED BY <2>4, <2>5 DEF RemovedStaysOut
<1>6. Advance
  BY <1>1 DEF Advance
<1>7. AccountsInv' /\ RosterIsOfOneBusiness' /\ LoggedVenueIsWhole'
      /\ VenuesInv' /\ VenueStaysRemoved'
  BY <1>1, <1>2 DEF Facts, AccountsInv, RosterIsOfOneBusiness, LoggedVenueIsWhole,
                     VenuesInv, VenueStaysRemoved
<1>8. TypeOK'
  <2>1. req' \in [Requests -> Request]
    BY <1>1, <1>2, IdleIsGood DEF Finish, TypeOK
  <2> QED BY <1>1, <1>2, <1>5, <2>1 DEF TypeOK
<1> QED BY <1>1, <1>5, <1>6, <1>7, <1>8, WriteEnds DEF Facts

-------------------------------------------------------------------------------
(* The invariant and what follows from it. *)

LEMMA InitHolds == Init => TeamInv
<1> SUFFICES ASSUME Init PROVE TeamInv
  OBVIOUS
<1>1. TypeOK
  <2>1. acct \in [Accounts -> Account]
    BY TeamAssumption DEF Init, Account, NewOwner, NoAccount, Someone
  <2>2. req \in [Requests -> Request]
    BY IdleIsGood DEF Init
  <2> QED BY <2>1, <2>2 DEF Init, TypeOK, Someone, Assignment, VenueParts
<1>2. AccountsInv
  BY TeamAssumption DEF Init, AccountsInv, NewOwner, NoAccount
<1>3. VenuesInv /\ RosterIsOfOneBusiness /\ VenueStaysRemoved /\ LoggedVenueIsWhole
      /\ RemovedStaysOut
  BY DEF Init, VenuesInv, RosterIsOfOneBusiness, VenueStaysRemoved,
         LoggedVenueIsWhole, RemovedStaysOut
<1>4. OneCreator /\ \A r \in Requests : Good(req[r]) /\ Progress(req[r])
  <2>1. \A r \in Requests : req[r] = Idle
    BY DEF Init
  <2>2. \A r \in Requests : Good(req[r]) /\ Progress(req[r])
    BY <2>1, IdleIsGood
  <2> QED BY <2>1, <2>2, IdleIsGood DEF OneCreator
<1> QED BY <1>1, <1>2, <1>3, <1>4 DEF TeamInv, Facts

LEMMA StepHolds == TeamInv /\ [Next]_vars => TeamInv'
<1> SUFFICES ASSUME TeamInv, [Next]_vars PROVE TeamInv'
  OBVIOUS
<1>1. CASE UNCHANGED vars
  <2>1. UNCHANGED <<tables, histories>> /\ req' = req
    BY <1>1 DEF vars
  <2>2. Facts' /\ Advance
    BY <2>1, FactsStay DEF TeamInv, Advance, tables, histories
  <2>3. ASSUME NEW x \in Requests
        PROVE  Good(req[x])' /\ Progress(req[x])'
    <3>1. PICK p \in Request : p = req[x]
      BY DEF TeamInv, TypeOK
    <3>2. Good(p) /\ Progress(p) /\ req'[x] = p
      BY <2>1, <3>1 DEF TeamInv
    <3>3. Good(p)' /\ Progress(p)'
      BY <2>1, <2>2, <3>2, GoodStays DEF Progress, tables
    <3> QED BY <3>2, <3>3 DEF Good, Progress, Known, Exists
  <2>4. TypeOK' /\ OneCreator'
    BY <2>1 DEF TeamInv, TypeOK, OneCreator, tables, histories
  <2> QED BY <2>2, <2>3, <2>4 DEF TeamInv
<1>2. ASSUME NEW r \in Requests, TeamStep(r)
      PROVE  TeamInv'
  BY <1>2, StartsStep, ChecksStep, LoadsStep, InsertsStep, SaveCopyStep,
     EndAccountStep, EndRosterStep, SaveAssignmentStep, EndAssignmentStep
     DEF TeamStep
<1>3. ASSUME NEW r \in Requests, VenueStep(r)
      PROVE  TeamInv'
  BY <1>3, StartsStep, ChecksStep, LoadsStep, SaveVenueStep, VenuePartsStep,
     VenueCopiesStep, WorkVenuesStep
     DEF VenueStep
<1>4. ASSUME NEW r \in Requests, Fail(r)
      PROVE  TeamInv'
  BY <1>4, ChecksStep
<1> QED BY <1>1, <1>2, <1>3, <1>4 DEF Next

\* The tables, the requests and the histories keep their types, and every
\* request keeps what it has made sure of.
THEOREM TeamInvariant == Spec => []TeamInv
BY InitHolds, StepHolds, PTL DEF Spec

\* No request of a deactivated staff member is let in anywhere, but for the two
\* accidents RemovedStaysOut names.
THEOREM RemovedStaffStaysOut == Spec => []RemovedStaysOut
<1>1. TeamInv => RemovedStaysOut
  BY DEF TeamInv, Facts
<1> QED BY <1>1, TeamInvariant, PTL

\* No venue's roster ever names another business's staff.
THEOREM RostersStayApart == Spec => []RosterIsOfOneBusiness
<1>1. TeamInv => RosterIsOfOneBusiness
  BY DEF TeamInv, Facts
<1> QED BY <1>1, TeamInvariant, PTL

\* A venue belongs to its founder or to nobody, and comes back to its founder
\* only with an old copy.
THEOREM RemovedVenueStaysRemoved == Spec => []VenueStaysRemoved
<1>1. TeamInv => VenueStaysRemoved
  BY DEF TeamInv, Facts
<1> QED BY <1>1, TeamInvariant, PTL

\* The activity log names no half venue.
THEOREM LoggedVenuesAreWhole == Spec => []LoggedVenueIsWhole
<1>1. TeamInv => LoggedVenueIsWhole
  BY DEF TeamInv, Facts
<1> QED BY <1>1, TeamInvariant, PTL

-------------------------------------------------------------------------------
(* The same without the requests that save an old account. *)

\* Nobody has been let in after their deactivation, and nothing is on its way
\* that could bring an account back.
Quiet == /\ revived = {} /\ intruders = {}
         /\ \A r \in Requests : req[r].kind \in Handlers \cup {"none"}

\* A request keeps its kind to its end, and only the two saves of an old account
\* touch the history of accounts that came back.
LEMMA KindsStay ==
    ASSUME TypeOK, NEW r \in Requests, TeamStep(r) \/ VenueStep(r) \/ Fail(r)
    PROVE  /\ revived' # revived => req[r].kind \in {"profile", "reset"}
           /\ \A x \in Requests :
                  req'[x].kind \in {req[x].kind, "none"} \cup Handlers
<1>1. req \in [Requests -> Request]
  BY DEF TypeOK
<1>2. ASSUME NEW step, Goto(r, step)
      PROVE  \A x \in Requests : req'[x].kind \in {req[x].kind, "none"} \cup Handlers
  BY <1>1, <1>2 DEF Goto, Request
<1>3. ASSUME Finish(r)
      PROVE  \A x \in Requests : req'[x].kind \in {req[x].kind, "none"} \cup Handlers
  BY <1>1, <1>3 DEF Finish, Idle
<1>4. ASSUME NEW step, NEW copy, NEW owned, NEW row, Remember(r, step, copy, owned, row)
      PROVE  \A x \in Requests : req'[x].kind \in {req[x].kind, "none"} \cup Handlers
  BY <1>1, <1>4 DEF Remember
<1>5. ASSUME NEW kind, NEW step, NEW a, NEW b, NEW v, Start(r, kind, step, a, b, v)
      PROVE  /\ revived' = revived
             /\ \A x \in Requests : req'[x].kind \in {req[x].kind, "none"} \cup Handlers
  BY <1>1, <1>5 DEF Start, histories
<1>6. CASE \/ RegisterStart(r) \/ CreateStaffStart(r) \/ DeactivateStart(r)
           \/ ProfileStart(r) \/ ResetStart(r) \/ AssignStart(r) \/ UnassignStart(r)
           \/ CreateVenueStart(r) \/ UpdateVenueStart(r) \/ DeleteVenueStart(r)
           \/ WorkStart(r)
  BY <1>5, <1>6 DEF RegisterStart, CreateStaffStart, DeactivateStart, ProfileStart,
     ResetStart, AssignStart, UnassignStart, CreateVenueStart, UpdateVenueStart,
     DeleteVenueStart, WorkStart
<1>7. CASE \/ CheckActor(r) \/ FindEmail(r) \/ FindVenue(r) \/ FindUser(r)
           \/ VerifyOwnership(r) \/ WorkActor(r) \/ Fail(r)
  BY <1>2, <1>3, <1>7 DEF CheckActor, FindEmail, FindVenue, FindUser,
     VerifyOwnership, WorkActor, Fail, Pass, histories
<1>8. CASE FindStaff(r) \/ LoadAccount(r) \/ FindRow(r) \/ LoadVenue(r)
  BY <1>3, <1>4, <1>8 DEF FindStaff, LoadAccount, FindRow, LoadVenue, histories
<1>9. CASE SaveCopy(r)
  BY <1>3, <1>9 DEF SaveCopy, At
<1>10. CASE \/ InsertOwner(r) \/ InsertStaff(r) \/ EndAccount(r) \/ EndRoster(r)
            \/ SaveAssignment(r) \/ EndAssignment(r)
  BY <1>2, <1>3, <1>10 DEF InsertOwner, InsertStaff, EndAccount, EndRoster,
     SaveAssignment, EndAssignment, histories
<1>11. CASE \/ SaveVenue(r) \/ SaveBusyness(r) \/ SaveVibe(r) \/ LogVenue(r)
            \/ UpdateVenue(r) \/ DropVenue(r) \/ WorkVenues(r)
  BY <1>2, <1>3, <1>11 DEF SaveVenue, SaveBusyness, SaveVibe, LogVenue,
     UpdateVenue, DropVenue, WorkVenues, histories
<1> QED BY <1>6, <1>7, <1>8, <1>9, <1>10, <1>11 DEF TeamStep, VenueStep

\* Were the two saves of an old account not there, a deactivated staff member
\* would never be let in again, whatever races the assignments run.
THEOREM NobodyComesBack ==
    ASSUME Handlers \cap {"profile", "reset"} = {}
    PROVE  Spec => [](intruders = {})
<1>1. Init => Quiet
  BY DEF Init, Quiet, Idle
<1>2. TeamInv /\ TeamInv' /\ Quiet /\ [Next]_vars => Quiet'
  <2> SUFFICES ASSUME TeamInv, TeamInv', Quiet, [Next]_vars PROVE Quiet'
    OBVIOUS
  <2>1. CASE UNCHANGED vars
    BY <2>1 DEF vars, histories, Quiet
  <2>2. ASSUME NEW r \in Requests, TeamStep(r) \/ VenueStep(r) \/ Fail(r)
        PROVE  Quiet'
    <3>1. req[r].kind \notin {"profile", "reset"}
      BY DEF Quiet
    <3>2. revived' = {}
      BY <2>2, <3>1, KindsStay DEF TeamInv, Quiet
    <3>3. \A x \in Requests : req'[x].kind \in Handlers \cup {"none"}
      BY <2>2, KindsStay DEF TeamInv, Quiet
    <3>4. intruders' = {}
      BY <3>2 DEF TeamInv, Facts, RemovedStaysOut, TypeOK
    <3> QED BY <3>2, <3>3, <3>4 DEF Quiet
  <2> QED BY <2>1, <2>2 DEF Next
<1>3. Quiet => intruders = {}
  BY DEF Quiet
<1> QED BY <1>1, <1>2, <1>3, TeamInvariant, PTL DEF Spec
================================================================================
