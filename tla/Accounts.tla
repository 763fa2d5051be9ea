------------------------------- MODULE Accounts -------------------------------
(***************************************************************************)
(* Customer accounts and their sessions: sign-up and the three sign-ins,   *)
(* rotating refresh tokens, passwords, e-mail verification, the profile    *)
(* writes that share the users row, and deleting the account.              *)
(*                                                                         *)
(* A users row or a refresh_tokens row is read by one call and saved whole *)
(* by a later one: save() writes back what was read, and INSERTS the row   *)
(* again when it has been deleted in between.  One action is one call.     *)
(*                                                                         *)
(* Expiry (a link, an access token, a session of 7 days) only refuses, and *)
(* a refused request changes nothing, so no clock is kept for it.          *)
(***************************************************************************)
EXTENDS Integers, Sequences

CONSTANTS
    Users,         \* the ids of users rows: an id is drawn once and never again
    EmailOf,       \* the e-mail address a row is stored with, NoEmail for a guest
    NoEmail,
    Requests,      \* the requests the server can work on at once
    Handlers,      \* the endpoints in use
    MaxPassword,   \* passwords ever chosen
    MaxSessions,   \* sessions ever opened
    MaxRestarts    \* crashes of the server

ASSUME ConstantsAssumption ==
    MaxPassword \in Nat /\ MaxSessions \in Nat /\ MaxRestarts \in Nat

VARIABLES
    account,    \* the users table
    session,    \* the refresh_tokens table, in the order of insertion
    req,        \* what each request is about to do, and the row it has read
    links,      \* users with a reset link in their mailbox
    chosen,     \* how many passwords have been chosen
    replaced,   \* history: passwords that a change or reset has answered to replace
    cut,        \* history: sessions there were when changePassword last revoked all
    restarts    \* how many times the server has crashed

vars == <<account, session, req, links, chosen, replaced, cut, restarts>>

NoPassword == 0

\* A row of users; the columns only the profile writes touch are left out.
UserRow == [status : {"free", "stored", "removed"}, password : 0..MaxPassword,
            verified : BOOLEAN]
NoRow(status) == [status |-> status, password |-> NoPassword, verified |-> FALSE]

\* A row of refresh_tokens; "parent" is the session it was rotated from, 0 for a sign-in.
\* "token" is the text a client holds, named by the first row that was stored with it: a JWT
\* of the user and of the second it is signed in, so two rows of a user may bear the same.
SessionRow == [user : Users, state : {"live", "revoked", "deleted"},
               parent : 0..MaxSessions, token : 1..MaxSessions]

Steps == {"insertUser", "mint", "saveSession", "findOwner", "retire",
          "saveReset", "saveChange", "revokeAll", "saveVerified", "saveProfile",
          "deleteSessions", "removeUser"}

Request == [at : {"idle"} \cup Steps, user : Users, copy : UserRow,
            session : 0..MaxSessions, password : 0..MaxPassword]

NoRequest == [at |-> "idle"]

TypeOK ==
    /\ account \in [Users -> UserRow]
    /\ session \in Seq(SessionRow) /\ Len(session) <= MaxSessions
    /\ req \in [Requests -> Request \cup {NoRequest}]
    /\ links \subseteq Users
    /\ chosen \in 0..MaxPassword
    /\ replaced \subseteq 1..MaxPassword
    /\ cut \in [Users -> 0..MaxSessions]
    /\ restarts \in 0..MaxRestarts

Init ==
    /\ account = [u \in Users |-> NoRow("free")]
    /\ session = <<>>
    /\ req = [r \in Requests |-> NoRequest]
    /\ links = {}
    /\ chosen = 0
    /\ replaced = {}
    /\ cut = [u \in Users |-> 0]
    /\ restarts = 0
-------------------------------------------------------------------------------
(* Helpers. *)

At(r, step) == req[r].at = step
Goto(r, step) ==
    req' = [req EXCEPT ![r] = [at |-> step, user |-> req[r].user, copy |-> req[r].copy,
                               session |-> req[r].session, password |-> req[r].password]]
Finish(r) == req' = [req EXCEPT ![r] = NoRequest]

\* The first call of a handler: "copy" is the row it has read, or is going to insert.
Start(r, handler, step, u, copy, s, p) ==
    /\ handler \in Handlers
    /\ req[r] = NoRequest
    /\ req' = [req EXCEPT ![r] = [at |-> step, user |-> u, copy |-> copy,
                                  session |-> s, password |-> p]]

Stored(u) == account[u].status = "stored"

\* users.email is unique; guests have none.
EmailTaken(u) ==
    /\ EmailOf[u] # NoEmail
    /\ \E w \in Users \ {u} : Stored(w) /\ EmailOf[w] = EmailOf[u]

\* repository.save(): the row as it was read with the handler's change, over whatever is
\* there now; a row that was removed is inserted again, unless its address is taken.
Savable(r) == Stored(req[r].user) \/ ~EmailTaken(req[r].user)
Save(r, password, verified) ==
    account' = [account EXCEPT ![req[r].user] =
        [status |-> "stored", password |-> password, verified |-> verified]]

Live(i) == session[i].state = "live"
With(i, state) == [user |-> session[i].user, state |-> state,
                   parent |-> session[i].parent, token |-> session[i].token]
Bearing(token) == {i \in DOMAIN session : session[i].token = token}

\* save() of a session that was read: inserts it again if it was deleted, which the foreign
\* key refuses once its user is gone.
Retire(i) == session' = [session EXCEPT ![i] = With(i, "revoked")]

\* The token is signed in a second of its own, or in that of other tokens of the user: two
\* requests may sign in one order and store in the other, so it may be that of any of them.
Signable(u) ==
    {Len(session) + 1} \cup {session[i].token : i \in {j \in DOMAIN session : session[j].user = u}}

NewSession(r, token) == [user |-> req[r].user, state |-> "live",
                         parent |-> req[r].session, token |-> token]

\* generateTokens' row; the foreign key wants its user to be there still.
StoreSession(r) ==
    IF Stored(req[r].user)
    THEN \E token \in Signable(req[r].user) : session' = Append(session, NewSession(r, token))
    ELSE UNCHANGED session

tables == <<account, session>>
histories == <<links, chosen, replaced, cut, restarts>>
-------------------------------------------------------------------------------
(* Slips of the code below: PROJECT.json names the property that refuses each. *)

\* The new pair is issued first, and the old token is revoked afterwards.
RefreshRetireLast(r) ==
    /\ At(r, "retire")
    /\ IF Stored(req[r].user) /\ Len(session) < MaxSessions
       THEN StoreSession(r) /\ Goto(r, "saveSession")
       ELSE Finish(r) /\ UNCHANGED session
    /\ UNCHANGED <<account, histories>>

\* The session is saved as it was read.
LogoutSaveAsRead(r) ==
    /\ At(r, "saveSession")
    /\ session' = [session EXCEPT ![req[r].session] = With(req[r].session, "live")]
    /\ Finish(r)
    /\ UNCHANGED <<account, histories>>

\* Only the sessions opened by signing in are revoked, not those refreshed since.
RevokeAllSignIns(r) ==
    /\ At(r, "revokeAll")
    /\ session' = [i \in DOMAIN session |->
           IF session[i].user = req[r].user /\ Live(i) /\ session[i].parent = 0
           THEN With(i, "revoked") ELSE session[i]]
    /\ replaced' = replaced \cup {req[r].copy.password}
    /\ cut' = [cut EXCEPT ![req[r].user] = Len(session)]
    /\ Finish(r)
    /\ UNCHANGED <<account, links, chosen, restarts>>

\* changePassword answers once the new password is stored.
ChangeSaveOnly(r) ==
    /\ At(r, "saveChange")
    /\ Savable(r)
    /\ Save(r, req[r].password, req[r].copy.verified)
    /\ Finish(r)
    /\ UNCHANGED <<session, histories>>

\* Signing in also saves the user, to note the time.
MintTouchesUser(r) ==
    /\ At(r, "mint")
    /\ Len(session) < MaxSessions
    /\ StoreSession(r)
    /\ IF req[r].copy.status = "stored"
       THEN Save(r, req[r].copy.password, req[r].copy.verified) ELSE UNCHANGED account
    /\ Finish(r)
    /\ UNCHANGED histories

\* A sign-up trusts the look-up it began with.
SignUpInsertUnchecked(r) ==
    /\ At(r, "insertUser")
    /\ account' = [account EXCEPT ![req[r].user] = req[r].copy]
    /\ Goto(r, "mint")
    /\ UNCHANGED <<session, histories>>
-------------------------------------------------------------------------------
(* POST auth/register, google, apple, guest, login. *)

NewUser(password, verified) ==
    [status |-> "stored", password |-> password, verified |-> verified]

Fresh(u) ==
    /\ account[u].status = "free"
    /\ \A q \in Requests : At(q, "insertUser") => req[q].user # u

RegisterStart(r, u) ==
    /\ Fresh(u) /\ EmailOf[u] # NoEmail /\ ~EmailTaken(u)
    /\ chosen < MaxPassword
    /\ chosen' = chosen + 1
    /\ Start(r, "register", "insertUser", u, NewUser(chosen + 1, FALSE), 0, 0)
    /\ UNCHANGED <<tables, links, replaced, cut, restarts>>

\* Google and Apple vouch for the address; a known one signs in, whoever registered it.
SocialStart(r, u) ==
    /\ EmailOf[u] # NoEmail
    /\ \/ Stored(u) /\ Start(r, "social", "mint", u, account[u], 0, 0)
       \/ /\ Fresh(u) /\ ~EmailTaken(u)
          /\ Start(r, "social", "insertUser", u, NewUser(NoPassword, TRUE), 0, 0)
    /\ UNCHANGED <<tables, histories>>

GuestStart(r, u) ==
    /\ Fresh(u) /\ EmailOf[u] = NoEmail
    /\ Start(r, "guest", "insertUser", u, NewUser(NoPassword, FALSE), 0, 0)
    /\ UNCHANGED <<tables, histories>>

\* The slower of two sign-ups with one address is refused by the unique index.
SignUpInsert(r) ==
    /\ At(r, "insertUser")
    /\ IF EmailTaken(req[r].user)
       THEN Finish(r) /\ UNCHANGED account
       ELSE /\ account' = [account EXCEPT ![req[r].user] = req[r].copy]
            /\ Goto(r, "mint")
    /\ UNCHANGED <<session, histories>>

LoginStart(r, u) ==
    /\ Stored(u) /\ EmailOf[u] # NoEmail /\ account[u].password # NoPassword
    /\ Start(r, "login", "mint", u, account[u], 0, 0)
    /\ UNCHANGED <<tables, histories>>

\* (MaxSessions: a request that would open one more is never answered.)
Mint(r) ==
    /\ At(r, "mint")
    /\ Len(session) < MaxSessions
    /\ StoreSession(r)
    /\ Finish(r)
    /\ UNCHANGED <<account, histories>>
-------------------------------------------------------------------------------
(* POST auth/logout and auth/refresh-token *)

\* Both look the token up, and find any of the rows that bear it; logout changes nothing
\* when it finds one that has ended.
Found(token) == {i \in Bearing(token) : Live(i)}

LogoutStart(r, token) ==
    /\ \E i \in Found(token) :
           Start(r, "logout", "saveSession", session[i].user, NoRow("free"), i, 0)
    /\ UNCHANGED <<tables, histories>>

LogoutSave(r) ==
    /\ At(r, "saveSession")
    /\ IF Stored(req[r].user) THEN Retire(req[r].session) ELSE UNCHANGED session
    /\ Finish(r)
    /\ UNCHANGED <<account, histories>>

RefreshStart(r, token) ==
    /\ \E i \in Found(token) :
           Start(r, "refresh", "findOwner", session[i].user, NoRow("free"), i, 0)
    /\ UNCHANGED <<tables, histories>>

RefreshOwner(r) ==
    /\ At(r, "findOwner")
    /\ IF Stored(req[r].user) THEN Goto(r, "retire") ELSE Finish(r)
    /\ UNCHANGED <<tables, histories>>

RefreshRetire(r) ==
    /\ At(r, "retire")
    /\ IF Stored(req[r].user)
       THEN Retire(req[r].session) /\ Goto(r, "mint")
       ELSE Finish(r) /\ UNCHANGED session
    /\ UNCHANGED <<account, histories>>
-------------------------------------------------------------------------------
(* POST auth/forgot-password, reset-password, change-password; GET auth/verify-email *)

\* A link names the row, and is not used up by the reset it serves.
ForgotPassword(u) ==
    /\ "resetPassword" \in Handlers
    /\ Stored(u) /\ EmailOf[u] # NoEmail
    /\ links' = links \cup {u}
    /\ UNCHANGED <<tables, req, chosen, replaced, cut, restarts>>

\* The caller of changePassword gives the password the account has when it is read.
PasswordStart(r, u) ==
    /\ Stored(u) /\ chosen < MaxPassword
    /\ \/ /\ account[u].password # NoPassword
          /\ Start(r, "changePassword", "saveChange", u, account[u], 0, chosen + 1)
       \/ /\ u \in links
          /\ Start(r, "resetPassword", "saveReset", u, account[u], 0, chosen + 1)
    /\ chosen' = chosen + 1
    /\ UNCHANGED <<tables, links, replaced, cut, restarts>>

ResetSave(r) ==
    /\ At(r, "saveReset")
    /\ IF Savable(r)
       THEN /\ Save(r, req[r].password, req[r].copy.verified)
            /\ replaced' = replaced \cup ({req[r].copy.password} \ {NoPassword})
       ELSE UNCHANGED <<account, replaced>>
    /\ Finish(r)
    /\ UNCHANGED <<session, links, chosen, cut, restarts>>

ChangeSave(r) ==
    /\ At(r, "saveChange")
    /\ IF Savable(r)
       THEN /\ Save(r, req[r].password, req[r].copy.verified)
            /\ Goto(r, "revokeAll")
       ELSE Finish(r) /\ UNCHANGED account
    /\ UNCHANGED <<session, histories>>

\* One UPDATE over the user's sessions, and the answer.
RevokeAll(r) ==
    /\ At(r, "revokeAll")
    /\ session' = [i \in DOMAIN session |->
           IF session[i].user = req[r].user /\ Live(i)
           THEN With(i, "revoked") ELSE session[i]]
    /\ replaced' = replaced \cup {req[r].copy.password}
    /\ cut' = [cut EXCEPT ![req[r].user] = Len(session)]
    /\ Finish(r)
    /\ UNCHANGED <<account, links, chosen, restarts>>

\* The link of the sign-up mail: only register sends one.
VerifyStart(r, u) ==
    /\ Stored(u) /\ EmailOf[u] # NoEmail /\ ~account[u].verified
    /\ Start(r, "verifyEmail", "saveVerified", u, account[u], 0, 0)
    /\ UNCHANGED <<tables, histories>>

VerifySave(r) ==
    /\ At(r, "saveVerified")
    /\ IF Savable(r) THEN Save(r, req[r].copy.password, TRUE)
                     ELSE UNCHANGED account
    /\ Finish(r)
    /\ UNCHANGED <<session, histories>>
-------------------------------------------------------------------------------
(* The profile writes: city, locale, preferences, saved venues, profile, app state; each *)
(* saves the columns of this model as it has read them.                                  *)

ProfileStart(r, u) ==
    /\ Stored(u)
    /\ Start(r, "profile", "saveProfile", u, account[u], 0, 0)
    /\ UNCHANGED <<tables, histories>>

ProfileSave(r) ==
    /\ At(r, "saveProfile")
    /\ IF Savable(r) THEN Save(r, req[r].copy.password, req[r].copy.verified)
                     ELSE UNCHANGED account
    /\ Finish(r)
    /\ UNCHANGED <<session, histories>>
-------------------------------------------------------------------------------
(* DELETE users/account: the dependent tables one by one, then the user. *)

DeleteStart(r, u) ==
    /\ Stored(u)
    /\ Start(r, "deleteAccount", "deleteSessions", u, account[u], 0, 0)
    /\ UNCHANGED <<tables, histories>>

DeleteSessions(r) ==
    /\ At(r, "deleteSessions")
    /\ session' = [i \in DOMAIN session |->
           IF session[i].user = req[r].user THEN With(i, "deleted") ELSE session[i]]
    /\ Goto(r, "removeUser")
    /\ UNCHANGED <<account, histories>>

\* The foreign key refuses to remove a user who has a session again; a row that is gone
\* already is removed without complaint.
DeleteUser(r) ==
    /\ At(r, "removeUser")
    /\ IF \E i \in DOMAIN session : session[i].user = req[r].user /\ session[i].state # "deleted"
       THEN UNCHANGED account
       ELSE account' = [account EXCEPT ![req[r].user] = NoRow("removed")]
    /\ Finish(r)
    /\ UNCHANGED <<session, histories>>
-------------------------------------------------------------------------------
\* The process stops: what it was working on is forgotten, the tables stay.
Restart ==
    /\ restarts < MaxRestarts
    /\ restarts' = restarts + 1
    /\ req' = [r \in Requests |-> NoRequest]
    /\ UNCHANGED <<tables, links, chosen, replaced, cut>>

Begin(r) ==
    \/ \E u \in Users :
           \/ RegisterStart(r, u) \/ SocialStart(r, u) \/ GuestStart(r, u)
           \/ LoginStart(r, u) \/ PasswordStart(r, u) \/ VerifyStart(r, u)
           \/ ProfileStart(r, u) \/ DeleteStart(r, u)
    \/ \E token \in {session[i].token : i \in DOMAIN session} :
           LogoutStart(r, token) \/ RefreshStart(r, token)

Continue(r) ==
    \/ SignUpInsert(r) \/ Mint(r) \/ LogoutSave(r)
    \/ RefreshOwner(r) \/ RefreshRetire(r)
    \/ ResetSave(r) \/ ChangeSave(r) \/ RevokeAll(r)
    \/ VerifySave(r) \/ ProfileSave(r)
    \/ DeleteSessions(r) \/ DeleteUser(r)

Next ==
    \/ \E r \in Requests : Begin(r) \/ Continue(r)
    \/ \E u \in Users : ForgotPassword(u)
    \/ Restart

\* A begun request runs to its end; nobody has to begin one.
Spec == Init /\ [][Next]_vars /\ \A r \in Requests : WF_vars(Continue(r))
-------------------------------------------------------------------------------
(* Properties. *)

\* One address, one account: of two sign-ups that both found the address free, one is
\* refused, and a save that inserts a removed row again never doubles an address
\* (AuthService.register, googleAuth, appleAuth against the re-INSERT of save()).
OneAccountPerEmail ==
    \A u, w \in Users : Stored(u) /\ Stored(w) /\ EmailOf[u] = EmailOf[w] /\ u # w
                        => EmailOf[u] = NoEmail

\* A refresh token that has been exchanged for a new pair is accepted again only if another
\* session of its user was given the same token, signed in the same second; no logout, change
\* of password or deletion that runs at the same time brings it back (AuthService.refreshToken
\* looks up the token, ends the row it finds and issues the pair; the column is not unique).
Exchanged == {session[i].parent : i \in {j \in DOMAIN session : session[j].parent # 0}}
SpentTokenHasACause ==
    \A i \in Exchanged : Found(session[i].token) # {} =>
        \E j \in Bearing(session[i].token) \ {i} : session[j].user = session[i].user

\* "Revoke old token": an exchanged token is refused (AuthService.refreshToken).  It is false
\* of a token that was signed twice within a second.
SpentTokenIsRefused == \A i \in Exchanged : Found(session[i].token) = {}

\* Sessions that a finished changePassword has ended stay ended, though logouts and
\* refreshes that read them before save them afterwards (AuthService.changePassword).  It is
\* about the rows: a sign-in within the second of an ended one gives out its token again.
ChangeEndsSessions ==
    \A i \in DOMAIN session : i <= cut[session[i].user] => ~Live(i)

\* No step brings a revoked or a deleted session back to life.
EndedStaysEnded ==
    [][\A i \in DOMAIN session : ~Live(i) => session'[i].state # "live"]_vars

\* A changePassword that has begun ends every session its user has by then, whatever it
\* races with, unless the server goes down between saving the password and revoking
\* (AuthService.changePassword: two statements and no transaction).
Ended(i) == i \in DOMAIN session /\ ~Live(i)
Changing(i) ==
    /\ i \in DOMAIN session
    /\ \E r \in Requests : At(r, "saveChange") /\ req[r].user = session[i].user
ChangeSettles == \A i \in 1..MaxSessions : Changing(i) ~> (Ended(i) \/ restarts > 0)

\* A password that a change or a reset has answered to replace opens the account no more,
\* whatever changes, resets and removals race (AuthService.changePassword, resetPassword).
\* Only among themselves: next to a profile write or an e-mail verification it is false.
PasswordSticks ==
    \A u \in Users : Stored(u) => account[u].password \notin replaced

\* "Password changed - all sessions invalidated": no live session was exchanged for one
\* that a finished change of password ended (AuthController.changePassword).  It is false
\* while a refresh is between reading its token and storing the new one.
ChangeEndsDescendants ==
    \A i \in DOMAIN session :
        Live(i) /\ session[i].parent # 0 => session[i].parent > cut[session[i].user]
===============================================================================
