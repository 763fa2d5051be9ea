--------------------------------- MODULE Team ---------------------------------
(***************************************************************************)
(* Business accounts, their venues and the staff that works there: who may *)
(* act at which venue, and since when.  An owner registers, creates and    *)
(* gives up venues, opens and closes staff accounts and puts staff on a    *)
(* venue's roster; a staff member works at the venues the roster names.    *)
(* Every handler is a sequence of awaited database calls, one action each, *)
(* and a row saved with save() is written back as it was read.             *)
(*                                                                         *)
(* A business token is verified by its signature only, so a request may    *)
(* come from any account that exists.  Nothing in src/ makes a manager     *)
(* with an employer, and the branch for managers is left out.              *)
(***************************************************************************)
EXTENDS Integers, FiniteSets

CONSTANTS
    Accounts,    \* business accounts, named by their e-mail address
    NoOne,
    Venues,      \* the ids createVenue can still hand out
    Requests,    \* the requests the server can work on at once
    Registered,  \* the owners there are to begin with
    Handlers     \* the endpoints in use

ASSUME TeamAssumption == NoOne \notin Accounts /\ Registered \subseteq Accounts

VARIABLES
    acct,       \* the business_users table
    owner,      \* businessUserId of each venue
    parts,      \* the rows createVenue has saved for each venue
    roster,     \* the venue_assignments table
    req,        \* what each request is about to do, and what it has read
    founder,    \* history: who created each venue
    ended,      \* history: staff whose deactivation was carried through
    revived,    \* history: accounts a save of an old copy made active again
    late,       \* history: roster entries saved for staff in ended
    intruders,  \* history: who was let in where after their deactivation
    removed,    \* history: venues deleteVenue has taken from their owner
    restored    \* history: venues a save of an old copy gave back

tables == <<acct, owner, parts, roster>>
histories == <<founder, ended, revived, late, intruders, removed, restored>>
vars == <<tables, req, histories>>

Someone == Accounts \cup {NoOne}

Account == [role : {"none", "owner", "staff"}, boss : Someone, active : BOOLEAN]
NoAccount == [role |-> "none", boss |-> NoOne, active |-> FALSE]
NewOwner == [role |-> "owner", boss |-> NoOne, active |-> TRUE]
NewStaff(a) == [role |-> "staff", boss |-> a, active |-> TRUE]

Assignment == {"none", "on", "off"}
VenueParts == {"venue", "busyness", "vibe", "log"}

Kinds == {"register", "createStaff", "deactivate", "profile", "reset", "assign",
          "unassign", "createVenue", "updateVenue", "deleteVenue", "work"}
Steps == {"actor", "findEmail", "insert", "findStaff", "endAccount", "endRoster",
          "loadAccount", "saveAccount", "findVenue", "findUser", "findRow",
          "saveRow", "saveVenue", "saveBusyness", "saveVibe", "log", "owns",
          "loadVenue", "saveCopy", "venues"}

\* actor sends it, about the account other or the venue v; copy, owned and row
\* are what it has read; after: it was sent after its actor's deactivation.
Request == [kind : Kinds \cup {"none"}, at : Steps \cup {"idle"},
            actor : Someone, other : Someone, v : Venues \cup {NoOne},
            copy : Account, owned : Someone, row : Assignment, after : BOOLEAN]

Idle == [kind |-> "none", at |-> "idle", actor |-> NoOne, other |-> NoOne,
         v |-> NoOne, copy |-> NoAccount, owned |-> NoOne, row |-> "none",
         after |-> FALSE]

TypeOK ==
    /\ acct \in [Accounts -> Account]
    /\ owner \in [Venues -> Someone]
    /\ parts \in [Venues -> SUBSET VenueParts]
    /\ roster \in [Accounts -> [Venues -> Assignment]]
    /\ req \in [Requests -> Request]
    /\ founder \in [Venues -> Someone]
    /\ ended \subseteq Accounts /\ revived \subseteq Accounts
    /\ late \subseteq Accounts \X Venues /\ intruders \subseteq Accounts \X Venues
    /\ removed \subseteq Venues /\ restored \subseteq Venues

Init ==
    /\ acct = [a \in Accounts |-> IF a \in Registered THEN NewOwner ELSE NoAccount]
    /\ owner = [v \in Venues |-> NoOne]
    /\ parts = [v \in Venues |-> {}]
    /\ roster = [a \in Accounts |-> [v \in Venues |-> "none"]]
    /\ req = [r \in Requests |-> Idle]
    /\ founder = [v \in Venues |-> NoOne]
    /\ ended = {} /\ revived = {} /\ late = {} /\ intruders = {}
    /\ removed = {} /\ restored = {}
-------------------------------------------------------------------------------
(* Helpers. *)

Exists(a) == acct[a].role # "none"

Start(r, kind, step, actor, other, v) ==
    /\ kind \in Handlers
    /\ req[r] = Idle
    /\ req' = [req EXCEPT ![r] =
                  [kind |-> kind, at |-> step, actor |-> actor, other |-> other,
                   v |-> v, copy |-> NoAccount, owned |-> NoOne, row |-> "none",
                   after |-> actor \in ended]]
    /\ UNCHANGED <<tables, histories>>

At(r, kinds, step) == req[r].kind \in kinds /\ req[r].at = step
Goto(r, step) == req' = [req EXCEPT ![r].at = step]
Finish(r) == req' = [req EXCEPT ![r] = Idle]

\* Goes on to a step with what the request has just read.
Remember(r, step, copy, owned, row) ==
    req' = [req EXCEPT ![r] =
               [kind |-> @.kind, at |-> step, actor |-> @.actor,
                other |-> @.other, v |-> @.v, copy |-> copy, owned |-> owned,
                row |-> row, after |-> @.after]]

\* Goes on if the row that was read lets it, is refused otherwise.
Pass(r, ok, step) == IF ok THEN Goto(r, step) ELSE Finish(r)

\* The account of the row a request saves back.
SaveAccount(a, row) == acct' = [acct EXCEPT ![a] = row]
SaveRoster(a, v, to) == roster' = [roster EXCEPT ![a] = [@ EXCEPT ![v] = to]]

\* Whether the account that was read is one to manage the team.
MayManage(a) == acct[a].active /\ acct[a].role = "owner"
-------------------------------------------------------------------------------
(* Slips of the code below, each refused by a property: see PROJECT.json. *)

\* getAssignedVenues without the check of isActive.
WorkUncheckedActor(r) ==
    /\ At(r, {"work"}, "actor")
    /\ Goto(r, "venues")
    /\ UNCHANGED <<tables, histories>>

\* businessUserId is set to undefined, which save() leaves out.
DropVenueUndefined(r) ==
    /\ At(r, {"deleteVenue"}, "saveCopy")
    /\ removed' = removed \cup {req[r].v}
    /\ Finish(r)
    /\ UNCHANGED <<tables, founder, ended, revived, late, intruders, restored>>

\* The activity is logged before the vibe row is saved.
SaveBusynessThenLog(r) ==
    /\ At(r, {"createVenue"}, "saveBusyness")
    /\ parts' = [parts EXCEPT ![req[r].v] = @ \cup {"busyness"}]
    /\ Goto(r, "log")
    /\ UNCHANGED <<acct, owner, roster, histories>>
-------------------------------------------------------------------------------
(* POST auth/business/register and POST worker/staff. *)

RegisterStart(r) ==
    \E e \in Accounts : Start(r, "register", "findEmail", NoOne, e, NoOne)

CreateStaffStart(r) ==
    \E a, e \in Accounts :
        Exists(a) /\ Start(r, "createStaff", "actor", a, e, NoOne)

\* getBusinessUser for every handler that manages the team.
CheckActor(r) ==
    /\ At(r, {"createStaff", "deactivate", "assign", "unassign"}, "actor")
    /\ Pass(r, MayManage(req[r].actor),
            CASE req[r].kind = "createStaff" -> "findEmail"
              [] req[r].kind = "deactivate" -> "findStaff"
              [] OTHER -> "findVenue")
    /\ UNCHANGED <<tables, histories>>

FindEmail(r) ==
    /\ At(r, {"register", "createStaff"}, "findEmail")
    /\ Pass(r, ~Exists(req[r].other), "insert")
    /\ UNCHANGED <<tables, histories>>

\* The address is unique: an insert that comes second fails.
InsertOwner(r) ==
    /\ At(r, {"register"}, "insert")
    /\ IF Exists(req[r].other)
       THEN UNCHANGED acct
       ELSE SaveAccount(req[r].other, NewOwner)
    /\ Finish(r)
    /\ UNCHANGED <<owner, parts, roster, histories>>

InsertStaff(r) ==
    /\ At(r, {"createStaff"}, "insert")
    /\ IF Exists(req[r].other)
       THEN UNCHANGED acct
       ELSE SaveAccount(req[r].other, NewStaff(req[r].actor))
    /\ Finish(r)
    /\ UNCHANGED <<owner, parts, roster, histories>>
-------------------------------------------------------------------------------
(* DELETE worker/staff/:staffId. *)

DeactivateStart(r) ==
    \E a, s \in Accounts :
        Exists(a) /\ Start(r, "deactivate", "actor", a, s, NoOne)

FindStaff(r) ==
    /\ At(r, {"deactivate"}, "findStaff")
    /\ LET s == acct[req[r].other]
       IN  IF s.boss = req[r].actor
           THEN Remember(r, "endAccount", s, NoOne, "none")
           ELSE Finish(r)
    /\ UNCHANGED <<tables, histories>>

EndAccount(r) ==
    /\ At(r, {"deactivate"}, "endAccount")
    /\ SaveAccount(req[r].other, [req[r].copy EXCEPT !.active = FALSE])
    /\ Goto(r, "endRoster")
    /\ UNCHANGED <<owner, parts, roster, histories>>

EndRoster(r) ==
    /\ At(r, {"deactivate"}, "endRoster")
    /\ roster' = [roster EXCEPT ![req[r].other] =
                     [v \in Venues |-> IF @[v] = "none" THEN "none" ELSE "off"]]
    /\ ended' = ended \cup {req[r].other}
    /\ Finish(r)
    /\ UNCHANGED <<acct, owner, parts, founder, revived, late, intruders,
                   removed, restored>>
-------------------------------------------------------------------------------
(* PUT business/profile and POST auth/business/reset-password: neither asks *)
(* whether the account is active.                                           *)

ProfileStart(r) ==
    \E a \in Accounts : Exists(a) /\ Start(r, "profile", "loadAccount", a, a, NoOne)

ResetStart(r) ==
    \E a \in Accounts : Exists(a) /\ Start(r, "reset", "loadAccount", a, a, NoOne)

LoadAccount(r) ==
    /\ At(r, {"profile", "reset"}, "loadAccount")
    /\ Remember(r, "saveAccount", acct[req[r].actor], NoOne, "none")
    /\ UNCHANGED <<tables, histories>>

SaveCopy(r) ==
    /\ At(r, {"profile", "reset"}, "saveAccount")
    /\ LET a == req[r].actor
       IN  /\ SaveAccount(a, req[r].copy)
           /\ revived' = IF req[r].copy.active /\ ~acct[a].active
                         THEN revived \cup {a} ELSE revived
    /\ Finish(r)
    /\ UNCHANGED <<owner, parts, roster, founder, ended, late, intruders,
                   removed, restored>>
-------------------------------------------------------------------------------
(* POST and DELETE worker/venues/:venueId/assignments. *)

AssignStart(r) ==
    \E a, s \in Accounts, v \in Venues :
        Exists(a) /\ Start(r, "assign", "actor", a, s, v)

UnassignStart(r) ==
    \E a, s \in Accounts, v \in Venues :
        Exists(a) /\ Start(r, "unassign", "actor", a, s, v)

FindVenue(r) ==
    /\ At(r, {"assign", "unassign"}, "findVenue")
    /\ Pass(r, owner[req[r].v] = req[r].actor,
            IF req[r].kind = "assign" THEN "findUser" ELSE "findRow")
    /\ UNCHANGED <<tables, histories>>

FindUser(r) ==
    /\ At(r, {"assign"}, "findUser")
    /\ LET s == acct[req[r].other]
       IN  Pass(r, s.role = "staff" /\ s.active /\ s.boss = req[r].actor, "findRow")
    /\ UNCHANGED <<tables, histories>>

FindRow(r) ==
    /\ At(r, {"assign", "unassign"}, "findRow")
    /\ LET row == roster[req[r].other][req[r].v]
       IN  IF row \in (IF req[r].kind = "assign" THEN {"none", "off"} ELSE {"on", "off"})
           THEN Remember(r, "saveRow", NoAccount, NoOne, row)
           ELSE Finish(r)
    /\ UNCHANGED <<tables, histories>>

\* A row that was found is saved; a new one is inserted, unless another request
\* inserted it since, for user and venue are unique together.
SaveAssignment(r) ==
    /\ At(r, {"assign"}, "saveRow")
    /\ LET s == req[r].other
           v == req[r].v
       IN  IF req[r].row = "off" \/ roster[s][v] = "none"
           THEN /\ SaveRoster(s, v, "on")
                /\ late' = IF s \in ended THEN late \cup {<<s, v>>} ELSE late
           ELSE UNCHANGED <<roster, late>>
    /\ Finish(r)
    /\ UNCHANGED <<acct, owner, parts, founder, ended, revived, intruders,
                   removed, restored>>

EndAssignment(r) ==
    /\ At(r, {"unassign"}, "saveRow")
    /\ SaveRoster(req[r].other, req[r].v, "off")
    /\ Finish(r)
    /\ UNCHANGED <<acct, owner, parts, histories>>
-------------------------------------------------------------------------------
(* POST, PUT and DELETE business/venues. *)

CreateVenueStart(r) ==
    \E a \in Accounts, v \in Venues :
        /\ Exists(a)
        /\ parts[v] = {} /\ \A q \in Requests : req[q].v # v
        /\ Start(r, "createVenue", "saveVenue", a, NoOne, v)

SaveVenue(r) ==
    /\ At(r, {"createVenue"}, "saveVenue")
    /\ owner' = [owner EXCEPT ![req[r].v] = req[r].actor]
    /\ founder' = [founder EXCEPT ![req[r].v] = req[r].actor]
    /\ parts' = [parts EXCEPT ![req[r].v] = {"venue"}]
    /\ Goto(r, "saveBusyness")
    /\ UNCHANGED <<acct, roster, ended, revived, late, intruders, removed, restored>>

SaveBusyness(r) ==
    /\ At(r, {"createVenue"}, "saveBusyness")
    /\ parts' = [parts EXCEPT ![req[r].v] = @ \cup {"busyness"}]
    /\ Goto(r, "saveVibe")
    /\ UNCHANGED <<acct, owner, roster, histories>>

SaveVibe(r) ==
    /\ At(r, {"createVenue"}, "saveVibe")
    /\ parts' = [parts EXCEPT ![req[r].v] = @ \cup {"vibe"}]
    /\ Goto(r, "log")
    /\ UNCHANGED <<acct, owner, roster, histories>>

LogVenue(r) ==
    /\ At(r, {"createVenue"}, "log")
    /\ parts' = [parts EXCEPT ![req[r].v] = @ \cup {"log"}]
    /\ Finish(r)
    /\ UNCHANGED <<acct, owner, roster, histories>>

UpdateVenueStart(r) ==
    \E a \in Accounts, v \in Venues :
        Exists(a) /\ parts[v] # {} /\ Start(r, "updateVenue", "owns", a, NoOne, v)

DeleteVenueStart(r) ==
    \E a \in Accounts, v \in Venues :
        Exists(a) /\ parts[v] # {} /\ Start(r, "deleteVenue", "owns", a, NoOne, v)

VerifyOwnership(r) ==
    /\ At(r, {"updateVenue", "deleteVenue"}, "owns")
    /\ Pass(r, owner[req[r].v] = req[r].actor, "loadVenue")
    /\ UNCHANGED <<tables, histories>>

LoadVenue(r) ==
    /\ At(r, {"updateVenue", "deleteVenue"}, "loadVenue")
    /\ Remember(r, "saveCopy", NoAccount, owner[req[r].v], "none")
    /\ UNCHANGED <<tables, histories>>

\* The owner comes back with the copy when deleteVenue was served in between.
UpdateVenue(r) ==
    /\ At(r, {"updateVenue"}, "saveCopy")
    /\ LET v == req[r].v
       IN  /\ owner' = [owner EXCEPT ![v] = req[r].owned]
           /\ restored' = IF owner[v] # req[r].owned
                          THEN restored \cup {v} ELSE restored
    /\ Finish(r)
    /\ UNCHANGED <<acct, parts, roster, founder, ended, revived, late,
                   intruders, removed>>

DropVenue(r) ==
    /\ At(r, {"deleteVenue"}, "saveCopy")
    /\ owner' = [owner EXCEPT ![req[r].v] = NoOne]
    /\ removed' = removed \cup {req[r].v}
    /\ Finish(r)
    /\ UNCHANGED <<acct, parts, roster, founder, ended, revived, late,
                   intruders, restored>>
-------------------------------------------------------------------------------
(* A worker's request at a venue: status, live-info or scan, up to the point *)
(* where assertVenueAccess lets it in.                                       *)

WorkStart(r) ==
    \E a \in Accounts, v \in Venues :
        Exists(a) /\ parts[v] # {} /\ Start(r, "work", "actor", a, NoOne, v)

WorkActor(r) ==
    /\ At(r, {"work"}, "actor")
    /\ Pass(r, acct[req[r].actor].active, "venues")
    /\ UNCHANGED <<tables, histories>>

WorksAt(a, v) == IF acct[a].role = "owner" THEN owner[v] = a ELSE roster[a][v] = "on"

WorkVenues(r) ==
    /\ At(r, {"work"}, "venues")
    /\ intruders' = IF WorksAt(req[r].actor, req[r].v) /\ req[r].after
                    THEN intruders \cup {<<req[r].actor, req[r].v>>} ELSE intruders
    /\ Finish(r)
    /\ UNCHANGED <<tables, founder, ended, revived, late, removed, restored>>
-------------------------------------------------------------------------------
\* A database call fails, or the server stops (which fails all at once): what
\* the request has saved stays, and nothing of it follows.
Fail(r) ==
    /\ req[r] # Idle
    /\ Finish(r)
    /\ UNCHANGED <<tables, histories>>

TeamStep(r) ==
    \/ RegisterStart(r) \/ CreateStaffStart(r) \/ CheckActor(r) \/ FindEmail(r)
    \/ InsertOwner(r) \/ InsertStaff(r)
    \/ DeactivateStart(r) \/ FindStaff(r) \/ EndAccount(r) \/ EndRoster(r)
    \/ ProfileStart(r) \/ ResetStart(r) \/ LoadAccount(r) \/ SaveCopy(r)
    \/ AssignStart(r) \/ UnassignStart(r) \/ FindVenue(r) \/ FindUser(r)
    \/ FindRow(r) \/ SaveAssignment(r) \/ EndAssignment(r)

VenueStep(r) ==
    \/ CreateVenueStart(r) \/ SaveVenue(r) \/ SaveBusyness(r) \/ SaveVibe(r)
    \/ LogVenue(r)
    \/ UpdateVenueStart(r) \/ DeleteVenueStart(r) \/ VerifyOwnership(r)
    \/ LoadVenue(r) \/ UpdateVenue(r) \/ DropVenue(r)
    \/ WorkStart(r) \/ WorkActor(r) \/ WorkVenues(r)

Next == \E r \in Requests : TeamStep(r) \/ VenueStep(r) \/ Fail(r)

Spec == Init /\ [][Next]_vars
-------------------------------------------------------------------------------
(* Properties. *)

\* Whoever was let in at a venue by a request made after deactivateStaff was
\* done with them owes it to two accidents together: a profile or password
\* request saved an old copy of the account, which made it active again, and an
\* assignment was saved after the roster had been cleared.
RemovedStaysOut ==
    \A x \in intruders : x[1] \in revived /\ x \in late

\* A venue's roster names only staff of the account that created the venue,
\* however its owner, its staff and its assignments change meanwhile.
RosterIsOfOneBusiness ==
    \A s \in Accounts, v \in Venues :
        roster[s][v] # "none" => acct[s].role = "staff" /\ acct[s].boss = founder[v]

\* A venue its owner has removed has an owner again only where updateVenue has
\* saved a copy it had read before; and it is never anybody else's.
VenueStaysRemoved ==
    \A v \in Venues :
        /\ owner[v] \in {NoOne, founder[v]}
        /\ v \in removed /\ owner[v] # NoOne => v \in restored

\* A venue in the activity log has all its rows, so the log tells the venues
\* createVenue has finished from those a failure left without busyness or vibe.
LoggedVenueIsWhole ==
    \A v \in Venues : "log" \in parts[v] => parts[v] = VenueParts
================================================================================
