---------------------------- MODULE AccountsProofs ----------------------------
(***************************************************************************)
(* Proofs about Accounts, for any users, addresses, requests and endpoints *)
(* in use: types, one account per address, the life of a session, and,     *)
(* without profile writes, of a password.                                  *)
(***************************************************************************)
EXTENDS Accounts, SequenceTheorems, TLAPS

-------------------------------------------------------------------------------
(* The inductive invariant about sessions. *)

\* The session a request remembers is there; one that was exchanged for a new one is not
\* live any more when that one is stored; and who changes a password had one.
Recalls(r) ==
    /\ req[r].at \in {"saveSession", "findOwner", "retire"} => req[r].session \in DOMAIN session
    /\ req[r].at = "mint" /\ req[r].session # 0
           => req[r].session \in DOMAIN session /\ ~Live(req[r].session)
    /\ req[r].at = "insertUser" => req[r].session = 0
    /\ req[r].at \in {"saveChange", "revokeAll"} => req[r].copy.password # NoPassword

Remembered == \A r \in Requests : Recalls(r)

ParentsBefore == \A i \in DOMAIN session : session[i].parent < i

CutsPast == \A u \in Users : cut[u] <= Len(session)

\* The row a token was found in when it was exchanged has ended.
SpentEnded == \A i \in DOMAIN session : session[i].parent # 0 => ~Live(session[i].parent)

\* A token is named by a row there is, and is the token of one user.
TokensOwned ==
    \A i \in DOMAIN session :
        /\ session[i].token <= Len(session)
        /\ \A j \in DOMAIN session :
               session[i].token = session[j].token => session[i].user = session[j].user

SessionInv ==
    /\ TypeOK /\ Remembered /\ ParentsBefore /\ CutsPast
    /\ SpentEnded /\ TokensOwned /\ ChangeEndsSessions
-------------------------------------------------------------------------------
(* Requests. *)

LEMMA NoRequestIdle == NoRequest.at = "idle" /\ "idle" \notin Steps
  BY DEF NoRequest, Steps

LEMMA RequestTyped ==
    ASSUME TypeOK, NEW r \in Requests, NEW step \in Steps, At(r, step)
    PROVE  req[r] \in Request
  BY NoRequestIdle DEF TypeOK, At

LEMMA FinishTyped ==
    ASSUME TypeOK, NEW r \in Requests, Finish(r)
    PROVE  /\ req' \in [Requests -> Request \cup {NoRequest}]
           /\ req'[r].at = "idle"
           /\ \A q \in Requests \ {r} : req'[q] = req[q]
  BY NoRequestIdle DEF TypeOK, Finish

LEMMA GotoTyped ==
    ASSUME TypeOK, NEW r \in Requests, NEW step \in Steps, NEW next \in Steps,
           At(r, step), Goto(r, next)
    PROVE  /\ req' \in [Requests -> Request \cup {NoRequest}]
           /\ req'[r].at = next /\ req'[r].user = req[r].user /\ req'[r].copy = req[r].copy
           /\ req'[r].session = req[r].session /\ req'[r].password = req[r].password
           /\ \A q \in Requests \ {r} : req'[q] = req[q]
<1>. DEFINE new == [at |-> next, user |-> req[r].user, copy |-> req[r].copy,
                    session |-> req[r].session, password |-> req[r].password]
<1>1. req[r] \in Request
  BY RequestTyped
<1>2. new \in Request
  BY <1>1 DEF Request
<1>3. req' = [req EXCEPT ![r] = new] /\ req \in [Requests -> Request \cup {NoRequest}]
  BY DEF TypeOK, Goto
<1>4. req'[r] = new
  BY <1>3
<1>. QED
  BY <1>2, <1>3, <1>4

\* The record that Start writes.
Begun(step, u, copy, n, p) ==
    [at |-> step, user |-> u, copy |-> copy, session |-> n, password |-> p]

LEMMA BegunTyped ==
    ASSUME NEW step \in Steps, NEW u \in Users, NEW copy \in UserRow,
           NEW n \in 0..MaxSessions, NEW p \in 0..MaxPassword
    PROVE  Begun(step, u, copy, n, p) \in Request
  BY DEF Request, Begun

LEMMA RequestMoves ==
    ASSUME TypeOK, NEW r \in Requests, NEW q \in Request, req' = [req EXCEPT ![r] = q]
    PROVE  /\ req' \in [Requests -> Request \cup {NoRequest}]
           /\ req'[r] = q
           /\ \A x \in Requests \ {r} : req'[x] = req[x]
  BY DEF TypeOK

LEMMA NoRowTyped == NoRow("free") \in UserRow /\ NoRow("removed") \in UserRow
  BY ConstantsAssumption DEF NoRow, UserRow, NoPassword

LEMMA SaveTyped ==
    ASSUME TypeOK, NEW r \in Requests, NEW p \in 0..MaxPassword, NEW v \in BOOLEAN,
           Save(r, p, v)
    PROVE  account' \in [Users -> UserRow]
<1>1. [status |-> "stored", password |-> p, verified |-> v] \in UserRow
  BY DEF UserRow
<1>. QED
  BY <1>1 DEF TypeOK, Save
-------------------------------------------------------------------------------
(* Sessions. *)

LEMMA SessionsTyped ==
    ASSUME TypeOK
    PROVE  /\ Len(session) \in Nat /\ Len(session) <= MaxSessions
           /\ DOMAIN session = 1..Len(session)
           /\ session \in [1..Len(session) -> SessionRow]
  BY DEF TypeOK

\* The table keeps its length, its owners and its parents, and wakes nobody up.
Kept(i) ==
    /\ session'[i].user = session[i].user
    /\ session'[i].parent = session[i].parent
    /\ session'[i].token = session[i].token
    /\ ~Live(i) => session'[i].state # "live"

Moved ==
    /\ session' \in Seq(SessionRow)
    /\ Len(session') = Len(session)
    /\ \A i \in DOMAIN session : Kept(i)

LEMMA StillMoves ==
    ASSUME TypeOK, UNCHANGED session PROVE Moved
  BY SessionsTyped DEF Moved, Kept, TypeOK, Live

LEMMA WithTyped ==
    ASSUME TypeOK, NEW i \in DOMAIN session, NEW state \in {"revoked", "deleted"}
    PROVE  /\ With(i, state) \in SessionRow
           /\ With(i, state).user = session[i].user
           /\ With(i, state).parent = session[i].parent
           /\ With(i, state).token = session[i].token
           /\ With(i, state).state = state
<1>1. session[i] \in SessionRow
  BY SessionsTyped
<1>. QED
  BY <1>1 DEF With, SessionRow

\* Any of the sessions are given another end.
LEMMA EndingMoves ==
    ASSUME TypeOK, NEW ended, NEW state \in {"revoked", "deleted"},
           session' = [i \in DOMAIN session |->
                           IF i \in ended THEN With(i, state) ELSE session[i]]
    PROVE  /\ Moved
           /\ \A i \in DOMAIN session \cap ended : session'[i].state = state
<1>1. \A i \in DOMAIN session : session[i] \in SessionRow
  BY SessionsTyped
<1>2. session' \in [1..Len(session) -> SessionRow]
  BY <1>1, SessionsTyped, WithTyped
<1>3. session' \in Seq(SessionRow) /\ Len(session') = Len(session)
  BY <1>2, SessionsTyped, SeqDef, LenProperties
<1>4. \A i \in DOMAIN session : Kept(i)
  BY WithTyped DEF Kept, Live
<1>5. \A i \in DOMAIN session \cap ended : session'[i].state = state
  BY WithTyped
<1>. QED
  BY <1>3, <1>4, <1>5 DEF Moved

LEMMA RetireMoves ==
    ASSUME TypeOK, NEW i \in DOMAIN session, Retire(i)
    PROVE  Moved /\ session'[i].state = "revoked"
<1>1. session' = [j \in DOMAIN session |->
                      IF j \in {i} THEN With(j, "revoked") ELSE session[j]]
  BY SessionsTyped DEF Retire
<1>. QED
  BY <1>1, EndingMoves

LEMMA AppendGrows ==
    ASSUME TypeOK, Len(session) < MaxSessions, NEW x \in SessionRow,
           session' = Append(session, x)
    PROVE  /\ session' \in Seq(SessionRow) /\ Len(session') = Len(session) + 1
           /\ \A i \in DOMAIN session : session'[i] = session[i]
           /\ session'[Len(session) + 1] = x
  BY SessionsTyped, AppendProperties DEF TypeOK

\* logout and refreshToken go on with a live row that bears the token.
LEMMA TokenStarts ==
    ASSUME NEW r \in Requests, NEW token, LogoutStart(r, token) \/ RefreshStart(r, token)
    PROVE  /\ \E i \in DOMAIN session, step \in {"saveSession", "findOwner"} :
                  /\ req[r] = NoRequest
                  /\ req' = [req EXCEPT ![r] =
                                Begun(step, session[i].user, NoRow("free"), i, 0)]
           /\ UNCHANGED <<tables, histories>>
<1>1. PICK i \in Found(token), step \in {"saveSession", "findOwner"} :
          /\ req[r] = NoRequest
          /\ req' = [req EXCEPT ![r] = Begun(step, session[i].user, NoRow("free"), i, 0)]
  <2>1. CASE LogoutStart(r, token)
    BY <2>1 DEF LogoutStart, Start, Begun
  <2>2. CASE RefreshStart(r, token)
    BY <2>2 DEF RefreshStart, Start, Begun
  <2>. QED
    BY <2>1, <2>2
<1>2. i \in DOMAIN session
  BY DEF Found, Bearing
<1>3. UNCHANGED <<tables, histories>>
  BY DEF LogoutStart, RefreshStart
<1>. QED
  BY <1>1, <1>2, <1>3

\* The row Mint stores bears a token of its own or one of its user's.
LEMMA SignableTyped ==
    ASSUME TypeOK, Len(session) < MaxSessions, NEW u \in Users, NEW token \in Signable(u)
    PROVE  /\ token \in 1..MaxSessions
           /\ \/ token = Len(session) + 1
              \/ \E i \in DOMAIN session : session[i].user = u /\ session[i].token = token
<1>1. \A i \in DOMAIN session : session[i].token \in 1..MaxSessions
  BY SessionsTyped DEF SessionRow
<1>2. Len(session) + 1 \in 1..MaxSessions
  BY SessionsTyped, ConstantsAssumption
<1>. QED
  BY <1>1, <1>2 DEF Signable
-------------------------------------------------------------------------------
(* Types. *)

LEMMA TypeInit == Init => TypeOK
<1>. SUFFICES ASSUME Init PROVE TypeOK
  OBVIOUS
<1>1. account \in [Users -> UserRow]
  BY NoRowTyped DEF Init
<1>2. session \in Seq(SessionRow) /\ Len(session) <= MaxSessions
  BY ConstantsAssumption DEF Init
<1>. QED
  BY <1>1, <1>2, ConstantsAssumption DEF Init, TypeOK

\* What a step has to show: every table keeps its type, and sessions only grow by one.
LEMMA TypeStep ==
    ASSUME TypeOK, Remembered, [Next]_vars
    PROVE  TypeOK'
<1>. USE DEF tables, histories, Steps
<1>. DEFINE Good == req' \in [Requests -> Request \cup {NoRequest}]
<1>0. ASSUME Good, UNCHANGED <<links, chosen, replaced, cut, restarts>>,
             account' \in [Users -> UserRow],
             session' \in Seq(SessionRow) /\ Len(session') <= MaxSessions
      PROVE  TypeOK'
  BY <1>0 DEF TypeOK
<1>a. \A u \in Users : account[u] \in UserRow
  BY DEF TypeOK
<1>b. NoPassword \in 0..MaxPassword
  BY ConstantsAssumption DEF NoPassword
<1>1. ASSUME NEW r \in Requests, NEW u \in Users, RegisterStart(r, u) PROVE TypeOK'
  <2>1. chosen + 1 \in 0..MaxPassword
    BY <1>1, ConstantsAssumption DEF RegisterStart, TypeOK
  <2>2. PICK copy \in UserRow : copy = NewUser(chosen + 1, FALSE)
    BY <2>1 DEF NewUser, UserRow
  <2>4. Begun("insertUser", u, copy, 0, 0) \in Request
    BY BegunTyped, ConstantsAssumption
  <2>3. Good
    BY <1>1, <2>2, <2>4, RequestMoves DEF RegisterStart, Start, Begun, NewUser
  <2>. QED
    BY <1>1, <2>1, <2>3 DEF RegisterStart, TypeOK
<1>2. ASSUME NEW r \in Requests, NEW u \in Users, SocialStart(r, u) PROVE TypeOK'
  <2>1. PICK copy \in UserRow : copy = NewUser(NoPassword, TRUE)
    BY <1>b DEF NewUser, UserRow
  <2>2. /\ Begun("insertUser", u, copy, 0, 0) \in Request
        /\ Begun("mint", u, account[u], 0, 0) \in Request
    BY <1>a, BegunTyped, ConstantsAssumption
  <2>3. Good
    BY <1>2, <2>1, <2>2, RequestMoves DEF SocialStart, Start, Begun, NewUser
  <2>. QED
    BY <1>2, <2>3 DEF SocialStart, TypeOK
<1>3. ASSUME NEW r \in Requests, NEW u \in Users, GuestStart(r, u) PROVE TypeOK'
  <2>1. PICK copy \in UserRow : copy = NewUser(NoPassword, FALSE)
    BY <1>b DEF NewUser, UserRow
  <2>2. Begun("insertUser", u, copy, 0, 0) \in Request
    BY BegunTyped, ConstantsAssumption
  <2>3. Good
    BY <1>3, <2>1, <2>2, RequestMoves DEF GuestStart, Start, Begun, NewUser
  <2>. QED
    BY <1>3, <2>3 DEF GuestStart, TypeOK
<1>4. ASSUME NEW r \in Requests, NEW u \in Users,
             LoginStart(r, u) \/ VerifyStart(r, u) \/ ProfileStart(r, u) \/ DeleteStart(r, u)
      PROVE  TypeOK'
  <2>1. \A step \in Steps : Begun(step, u, account[u], 0, 0) \in Request
    BY <1>a, BegunTyped, ConstantsAssumption
  <2>2. Good
    BY <1>4, <2>1, RequestMoves DEF LoginStart, VerifyStart, ProfileStart, DeleteStart, Start, Begun
  <2>. QED
    BY <1>4, <2>2 DEF LoginStart, VerifyStart, ProfileStart, DeleteStart, TypeOK
<1>5. ASSUME NEW r \in Requests, NEW u \in Users, PasswordStart(r, u) PROVE TypeOK'
  <2>1. chosen + 1 \in 0..MaxPassword
    BY <1>5, ConstantsAssumption DEF PasswordStart, TypeOK
  <2>2. \A step \in Steps : Begun(step, u, account[u], 0, chosen + 1) \in Request
    BY <1>a, <2>1, BegunTyped, ConstantsAssumption
  <2>3. Good
    BY <1>5, <2>2, RequestMoves DEF PasswordStart, Start, Begun
  <2>. QED
    BY <1>5, <2>1, <2>3 DEF PasswordStart, TypeOK
<1>6. ASSUME NEW r \in Requests, NEW token, LogoutStart(r, token) \/ RefreshStart(r, token)
      PROVE  TypeOK'
  <2>0. PICK i \in DOMAIN session, step \in {"saveSession", "findOwner"} :
            req' = [req EXCEPT ![r] = Begun(step, session[i].user, NoRow("free"), i, 0)]
    BY <1>6, TokenStarts
  <2>1. i \in 0..MaxSessions /\ session[i].user \in Users
    BY SessionsTyped, ConstantsAssumption DEF SessionRow
  <2>2. Begun(step, session[i].user, NoRow("free"), i, 0) \in Request
    BY <2>1, NoRowTyped, BegunTyped, ConstantsAssumption
  <2>3. Good
    BY <2>0, <2>2, RequestMoves
  <2>. QED
    BY <1>6, <2>3, TokenStarts DEF TypeOK
<1>7. ASSUME NEW r \in Requests, SignUpInsert(r) PROVE TypeOK'
  <2>1. req[r].copy \in UserRow
    BY <1>7, RequestTyped DEF SignUpInsert, Request
  <2>2. Good /\ account' \in [Users -> UserRow]
    BY <1>7, <2>1, GotoTyped, FinishTyped DEF SignUpInsert, TypeOK
  <2>. QED
    BY <1>7, <2>2 DEF SignUpInsert, TypeOK
<1>8. ASSUME NEW r \in Requests, Mint(r) PROVE TypeOK'
  <2>1. \A token \in Signable(req[r].user) : NewSession(r, token) \in SessionRow
    BY <1>8, RequestTyped, SignableTyped DEF Mint, NewSession, SessionRow, Request
  <2>2. session' \in Seq(SessionRow) /\ Len(session') <= MaxSessions
    BY <1>8, <2>1, AppendGrows, SessionsTyped, ConstantsAssumption
       DEF Mint, StoreSession, TypeOK
  <2>3. Good
    BY <1>8, FinishTyped DEF Mint
  <2>. QED
    BY <1>8, <2>2, <2>3 DEF Mint, TypeOK
<1>9. ASSUME NEW r \in Requests, LogoutSave(r) PROVE TypeOK'
  <2>1. req[r].session \in DOMAIN session
    BY <1>9 DEF LogoutSave, Remembered, Recalls, At
  <2>2. Moved
    BY <1>9, <2>1, RetireMoves, StillMoves DEF LogoutSave
  <2>3. Good
    BY <1>9, FinishTyped DEF LogoutSave
  <2>. QED
    BY <1>9, <2>2, <2>3 DEF LogoutSave, TypeOK, Moved
<1>10. ASSUME NEW r \in Requests, RefreshOwner(r) PROVE TypeOK'
  <2>1. Good
    BY <1>10, GotoTyped, FinishTyped DEF RefreshOwner
  <2>. QED
    BY <1>10, <2>1 DEF RefreshOwner, TypeOK
<1>11. ASSUME NEW r \in Requests, RefreshRetire(r) PROVE TypeOK'
  <2>1. req[r].session \in DOMAIN session
    BY <1>11 DEF RefreshRetire, Remembered, Recalls, At
  <2>2. Moved
    BY <1>11, <2>1, RetireMoves, StillMoves DEF RefreshRetire
  <2>3. Good
    BY <1>11, GotoTyped, FinishTyped DEF RefreshRetire
  <2>. QED
    BY <1>11, <2>2, <2>3 DEF RefreshRetire, TypeOK, Moved
<1>12. ASSUME NEW r \in Requests, ResetSave(r) PROVE TypeOK'
  <2>1. /\ req[r].password \in 0..MaxPassword /\ req[r].copy.verified \in BOOLEAN
        /\ req[r].copy.password \in 0..MaxPassword
    BY <1>12, RequestTyped DEF ResetSave, Request, UserRow
  <2>2. account' \in [Users -> UserRow]
    BY <1>12, <2>1, SaveTyped DEF ResetSave, TypeOK
  <2>3. replaced' \subseteq 1..MaxPassword
    <3>1. {req[r].copy.password} \ {0} \subseteq 1..MaxPassword
      BY <2>1, ConstantsAssumption
    <3>. QED
      BY <1>12, <3>1 DEF ResetSave, TypeOK, NoPassword
  <2>4. Good
    BY <1>12, FinishTyped DEF ResetSave
  <2>. QED
    BY <1>12, <2>2, <2>3, <2>4 DEF ResetSave, TypeOK
<1>13. ASSUME NEW r \in Requests, ChangeSave(r) PROVE TypeOK'
  <2>1. req[r].password \in 0..MaxPassword /\ req[r].copy.verified \in BOOLEAN
    BY <1>13, RequestTyped DEF ChangeSave, Request, UserRow
  <2>2. account' \in [Users -> UserRow]
    BY <1>13, <2>1, SaveTyped DEF ChangeSave, TypeOK
  <2>3. Good
    BY <1>13, GotoTyped, FinishTyped DEF ChangeSave
  <2>. QED
    BY <1>13, <2>2, <2>3 DEF ChangeSave, TypeOK
<1>14. ASSUME NEW r \in Requests, RevokeAll(r) PROVE TypeOK'
  <2>1. Moved
    <3>. DEFINE ended == {i \in DOMAIN session : session[i].user = req[r].user /\ Live(i)}
    <3>1. session' = [i \in DOMAIN session |-> IF i \in ended THEN With(i, "revoked") ELSE session[i]]
      BY <1>14 DEF RevokeAll
    <3>. QED
      BY <3>1, EndingMoves
  <2>2. req[r].copy.password \in 1..MaxPassword
    BY <1>14, RequestTyped DEF RevokeAll, Request, UserRow, Remembered, Recalls, At, NoPassword
  <2>3. cut' \in [Users -> 0..MaxSessions]
    <3>1. Len(session) \in 0..MaxSessions
      BY SessionsTyped, ConstantsAssumption
    <3>. QED
      BY <1>14, <3>1 DEF RevokeAll, TypeOK
  <2>4. Good
    BY <1>14, FinishTyped DEF RevokeAll
  <2>. QED
    BY <1>14, <2>1, <2>2, <2>3, <2>4 DEF RevokeAll, TypeOK, Moved
<1>15. ASSUME NEW r \in Requests, VerifySave(r) \/ ProfileSave(r) PROVE TypeOK'
  <2>1. req[r].copy.password \in 0..MaxPassword /\ req[r].copy.verified \in BOOLEAN
    BY <1>15, RequestTyped DEF VerifySave, ProfileSave, Request, UserRow
  <2>2. account' \in [Users -> UserRow]
    BY <1>15, <2>1, SaveTyped DEF VerifySave, ProfileSave, TypeOK
  <2>3. Good
    BY <1>15, FinishTyped DEF VerifySave, ProfileSave
  <2>. QED
    BY <1>15, <2>2, <2>3 DEF VerifySave, ProfileSave, TypeOK
<1>16. ASSUME NEW r \in Requests, DeleteSessions(r) PROVE TypeOK'
  <2>1. Moved
    <3>. DEFINE ended == {i \in DOMAIN session : session[i].user = req[r].user}
    <3>1. session' = [i \in DOMAIN session |-> IF i \in ended THEN With(i, "deleted") ELSE session[i]]
      BY <1>16 DEF DeleteSessions
    <3>. QED
      BY <3>1, EndingMoves
  <2>2. Good
    BY <1>16, GotoTyped DEF DeleteSessions
  <2>. QED
    BY <1>16, <2>1, <2>2 DEF DeleteSessions, TypeOK, Moved
<1>17. ASSUME NEW r \in Requests, DeleteUser(r) PROVE TypeOK'
  <2>1. account' \in [Users -> UserRow]
    BY <1>17, NoRowTyped DEF DeleteUser, TypeOK
  <2>2. Good
    BY <1>17, FinishTyped DEF DeleteUser
  <2>. QED
    BY <1>17, <2>1, <2>2 DEF DeleteUser, TypeOK
<1>18. ASSUME NEW u \in Users, ForgotPassword(u) PROVE TypeOK'
  BY <1>18 DEF ForgotPassword, TypeOK
<1>19. ASSUME Restart PROVE TypeOK'
  BY <1>19, ConstantsAssumption DEF Restart, TypeOK
<1>20. ASSUME UNCHANGED vars PROVE TypeOK'
  BY <1>20 DEF vars, TypeOK
<1>. QED
  BY <1>1, <1>2, <1>3, <1>4, <1>5, <1>6, <1>7, <1>8, <1>9, <1>10, <1>11, <1>12, <1>13,
     <1>14, <1>15, <1>16, <1>17, <1>18, <1>19, <1>20 DEF Next, Begin, Continue
-------------------------------------------------------------------------------
(* Sessions end, and stay ended. *)

\* What every step does to the sessions there are.
Grown ==
    /\ DOMAIN session \subseteq DOMAIN session'
    /\ \A i \in DOMAIN session : Kept(i)

LEMMA MovedGrown ==
    ASSUME TypeOK, Moved PROVE Grown /\ DOMAIN session' = DOMAIN session
  BY SessionsTyped DEF Moved, Grown

\* One request goes on; the others remember what they did.
LEMMA RememberedStep ==
    ASSUME SessionInv, Grown, NEW r \in Requests,
           \A q \in Requests \ {r} : req'[q] = req[q],
           Recalls(r)'
    PROVE  Remembered'
<1>1. ASSUME NEW q \in Requests \ {r} PROVE Recalls(q)'
  <2>1. req'[q] = req[q] /\ Recalls(q)
    BY DEF SessionInv, Remembered
  <2>. QED
    BY <2>1 DEF Recalls, Grown, Kept, Live
<1>. QED
  BY <1>1 DEF Remembered

LEMMA MovedKeeps ==
    ASSUME SessionInv, Moved, UNCHANGED cut
    PROVE  ParentsBefore' /\ CutsPast' /\ SpentEnded' /\ TokensOwned' /\ ChangeEndsSessions'
<1>1. DOMAIN session' = DOMAIN session /\ DOMAIN session = 1..Len(session)
  BY MovedGrown, SessionsTyped DEF SessionInv
<1>2. \A i \in DOMAIN session : session[i] \in SessionRow
  BY SessionsTyped DEF SessionInv
<1>3. ParentsBefore'
  BY <1>1 DEF SessionInv, ParentsBefore, Moved, Kept
<1>4. CutsPast'
  BY DEF SessionInv, CutsPast, Moved
<1>5. SpentEnded'
  <2>. SUFFICES ASSUME NEW i \in DOMAIN session', session'[i].parent # 0
                PROVE  session'[session'[i].parent].state # "live"
    BY DEF SpentEnded, Live
  <2>1. session'[i].parent = session[i].parent /\ session[i].parent < i /\ session[i].parent \in Nat
    BY <1>1, <1>2, ConstantsAssumption DEF SessionInv, ParentsBefore, Moved, Kept, SessionRow
  <2>2. session[i].parent \in DOMAIN session /\ ~Live(session[i].parent)
    BY <1>1, <2>1, SessionsTyped DEF SessionInv, SpentEnded
  <2>. QED
    BY <2>1, <2>2 DEF Moved, Kept
<1>6. ChangeEndsSessions'
  BY <1>1 DEF SessionInv, ChangeEndsSessions, Moved, Kept, Live
<1>7. TokensOwned'
  BY <1>1 DEF SessionInv, TokensOwned, Moved, Kept
<1>. QED
  BY <1>3, <1>4, <1>5, <1>6, <1>7

\* The steps that leave the cuts alone and move one request over moved sessions.
LEMMA MovedStep ==
    ASSUME SessionInv, TypeOK', Moved, UNCHANGED cut, NEW r \in Requests,
           \A q \in Requests \ {r} : req'[q] = req[q],
           Recalls(r)'
    PROVE  SessionInv' /\ Grown
  BY MovedGrown, RememberedStep, MovedKeeps DEF SessionInv

LEMMA RecallsNothing ==
    ASSUME NEW r \in Requests, req'[r].at = "idle" PROVE Recalls(r)'
  BY DEF Recalls

LEMMA BeginStep ==
    ASSUME SessionInv, TypeOK', NEW r \in Requests, Begin(r)
    PROVE  SessionInv' /\ Grown
<1>. USE DEF tables, histories
<1>1. UNCHANGED <<session, cut>>
  BY DEF Begin, RegisterStart, SocialStart, GuestStart, LoginStart, PasswordStart, VerifyStart,
         ProfileStart, DeleteStart, LogoutStart, RefreshStart
<1>2. req \in [Requests -> Request \cup {NoRequest}] /\ Moved
  BY <1>1, StillMoves DEF SessionInv, TypeOK
<1>3. /\ \A q \in Requests \ {r} : req'[q] = req[q]
      /\ Recalls(r)'
  <2>1. ASSUME NEW u \in Users, RegisterStart(r, u) \/ SocialStart(r, u) \/ GuestStart(r, u)
        PROVE  <1>3!1 /\ <1>3!2
    BY <1>1, <1>2, <2>1 DEF RegisterStart, SocialStart, GuestStart, Start, NewUser, Recalls
  <2>2. ASSUME NEW u \in Users,
               LoginStart(r, u) \/ VerifyStart(r, u) \/ ProfileStart(r, u) \/ DeleteStart(r, u)
        PROVE  <1>3!1 /\ <1>3!2
    BY <1>1, <1>2, <2>2 DEF LoginStart, VerifyStart, ProfileStart, DeleteStart, Start, Recalls
  <2>3. ASSUME NEW u \in Users, PasswordStart(r, u)
        PROVE  <1>3!1 /\ <1>3!2
    BY <1>1, <1>2, <2>3 DEF PasswordStart, Start, Recalls
  <2>4. ASSUME NEW token, LogoutStart(r, token) \/ RefreshStart(r, token)
        PROVE  <1>3!1 /\ <1>3!2
    <3>1. PICK i \in DOMAIN session, step \in {"saveSession", "findOwner"} :
              req' = [req EXCEPT ![r] = Begun(step, session[i].user, NoRow("free"), i, 0)]
      BY <2>4, TokenStarts
    <3>. QED
      BY <1>1, <1>2, <3>1 DEF Begun, Recalls
  <2>. QED
    BY <2>1, <2>2, <2>3, <2>4 DEF Begin
<1>. QED
  BY <1>1, <1>2, <1>3, MovedStep

LEMMA MintStep ==
    ASSUME SessionInv, TypeOK', NEW r \in Requests, Mint(r)
    PROVE  SessionInv' /\ Grown
<1>. USE DEF tables, histories
<1>. DEFINE n == Len(session) + 1
<1>1. /\ req'[r].at = "idle" /\ \A q \in Requests \ {r} : req'[q] = req[q]
      /\ UNCHANGED cut
  BY FinishTyped DEF Mint, SessionInv
<1>2. CASE ~Stored(req[r].user)
  <2>1. Moved
    BY <1>2, StillMoves DEF Mint, StoreSession, SessionInv
  <2>. QED
    BY <1>1, <2>1, MovedStep, RecallsNothing
<1>3. CASE Stored(req[r].user)
  <2>1. req[r] \in Request /\ req[r].session \in Nat
    BY RequestTyped, ConstantsAssumption DEF Mint, SessionInv, Steps, Request
  <2>0. PICK token \in Signable(req[r].user) : session' = Append(session, NewSession(r, token))
    BY <1>3 DEF Mint, StoreSession
  <2>a. /\ token \in 1..MaxSessions
        /\ \/ token = n
           \/ \E i \in DOMAIN session : session[i].user = req[r].user /\ session[i].token = token
    BY <2>1, SignableTyped DEF Mint, SessionInv, Request
  <2>2. NewSession(r, token) \in SessionRow
    BY <2>1, <2>a DEF NewSession, SessionRow, Request
  <2>3. /\ Len(session') = n /\ session'[n] = NewSession(r, token)
        /\ session' \in Seq(SessionRow)
        /\ \A i \in DOMAIN session : session'[i] = session[i]
    BY <2>0, <2>2, AppendGrows DEF Mint, SessionInv
  <2>4. DOMAIN session = 1..Len(session) /\ DOMAIN session' = 1..n /\ Len(session) \in Nat
        /\ \A i \in DOMAIN session : session[i] \in SessionRow
    BY <2>3, SessionsTyped DEF SessionInv
  <2>5. Grown
    BY <2>3, <2>4 DEF Grown, Kept, Live
  <2>6. \/ req[r].session = 0
        \/ req[r].session \in DOMAIN session /\ ~Live(req[r].session)
    BY DEF SessionInv, Remembered, Recalls, Mint, At
  <2>7. /\ session'[n].parent = req[r].session /\ session'[n].user = req[r].user
        /\ session'[n].token = token
    BY <2>3 DEF NewSession
  <2>8. ParentsBefore'
    BY <2>3, <2>4, <2>6, <2>7 DEF SessionInv, ParentsBefore
  <2>9. CutsPast'
    BY <1>1, <2>3, <2>4 DEF SessionInv, CutsPast, TypeOK
  <2>10. SpentEnded'
    <3>. SUFFICES ASSUME NEW i \in 1..n, session'[i].parent # 0
                  PROVE  session'[session'[i].parent].state # "live"
      BY <2>4 DEF SpentEnded, Live
    <3>1. CASE i = n
      BY <2>3, <2>6, <2>7, <3>1 DEF Live
    <3>2. CASE i # n
      <4>1. i \in DOMAIN session /\ session'[i] = session[i]
        BY <2>3, <2>4, <3>2
      <4>2. session[i].parent \in Nat /\ session[i].parent < i
        BY <2>4, <4>1, ConstantsAssumption DEF SessionInv, ParentsBefore, SessionRow
      <4>3. session[i].parent \in DOMAIN session /\ ~Live(session[i].parent)
        BY <2>4, <4>1, <4>2 DEF SessionInv, SpentEnded
      <4>. QED
        BY <2>3, <4>1, <4>3 DEF Live
    <3>. QED
      BY <3>1, <3>2
  <2>11. ChangeEndsSessions'
    <3>. SUFFICES ASSUME NEW i \in 1..n, i <= cut[session'[i].user]
                  PROVE  session'[i].state # "live"
      BY <1>1, <2>4 DEF ChangeEndsSessions, Live
    <3>1. i # n
      BY <2>1, <2>4, <2>7 DEF SessionInv, CutsPast, TypeOK, Request
    <3>. QED
      BY <2>3, <2>4, <3>1 DEF SessionInv, ChangeEndsSessions, Live
  <2>12. TokensOwned'
    <3>1. \A i \in DOMAIN session : session[i].token \in Nat /\ session[i].token <= Len(session)
      BY <2>4 DEF SessionInv, TokensOwned, SessionRow
    <3>2. ASSUME NEW i \in DOMAIN session, session[i].token = token
          PROVE  session[i].user = req[r].user
      BY <2>4, <2>a, <3>1, <3>2 DEF SessionInv, TokensOwned
    <3>3. token \in Nat /\ token <= n
      BY <2>4, <2>a, <3>1
    <3>4. \A i \in 1..n : session'[i].token <= n
      BY <2>3, <2>4, <2>7, <3>1, <3>3
    <3>5. ASSUME NEW i \in 1..n, NEW j \in 1..n, session'[i].token = session'[j].token
          PROVE  session'[i].user = session'[j].user
      <4>1. CASE i # n /\ j # n
        BY <2>3, <2>4, <3>5, <4>1 DEF SessionInv, TokensOwned
      <4>2. CASE i = n \/ j = n
        BY <2>3, <2>4, <2>7, <3>2, <3>5, <4>2
      <4>. QED
        BY <4>1, <4>2
    <3>. QED
      BY <2>3, <2>4, <3>4, <3>5 DEF TokensOwned
  <2>. QED
    BY <1>1, <2>5, <2>8, <2>9, <2>10, <2>11, <2>12, RememberedStep, RecallsNothing DEF SessionInv
<1>. QED
  BY <1>2, <1>3

\* The steps that end a request without a word about sessions.
LEMMA QuietStep ==
    ASSUME SessionInv, TypeOK', NEW r \in Requests,
           \/ SignUpInsert(r) \/ RefreshOwner(r) \/ ResetSave(r) \/ ChangeSave(r)
           \/ VerifySave(r) \/ ProfileSave(r) \/ DeleteUser(r)
    PROVE  SessionInv' /\ Grown
<1>. USE DEF tables, histories, Steps
<1>1. UNCHANGED <<session, cut>>
  BY DEF SignUpInsert, RefreshOwner, ResetSave, ChangeSave, VerifySave, ProfileSave, DeleteUser
<1>2. TypeOK /\ Recalls(r) /\ Moved
  BY <1>1, StillMoves DEF SessionInv, Remembered
<1>3. \/ Finish(r)
      \/ At(r, "insertUser") /\ Goto(r, "mint")
      \/ At(r, "findOwner") /\ Goto(r, "retire")
      \/ At(r, "saveChange") /\ Goto(r, "revokeAll")
  BY DEF SignUpInsert, RefreshOwner, ResetSave, ChangeSave, VerifySave, ProfileSave, DeleteUser
<1>4. CASE Finish(r)
  BY <1>1, <1>2, <1>4, FinishTyped, RecallsNothing, MovedStep
<1>5. CASE At(r, "insertUser") /\ Goto(r, "mint")
  <2>3. req[r].session = 0
    BY <1>2, <1>5 DEF Recalls, At
  <2>1. /\ req'[r].at = "mint" /\ req'[r].session = 0
        /\ \A q \in Requests \ {r} : req'[q] = req[q]
    BY <1>2, <1>5, <2>3, GotoTyped
  <2>2. Recalls(r)'
    BY <2>1 DEF Recalls
  <2>. QED
    BY <1>1, <1>2, <2>1, <2>2, MovedStep
<1>6. CASE At(r, "findOwner") /\ Goto(r, "retire")
  <2>3. req[r].session \in DOMAIN session
    BY <1>2, <1>6 DEF Recalls, At
  <2>1. /\ req'[r].at = "retire" /\ req'[r].session = req[r].session
        /\ req[r].session \in DOMAIN session
        /\ \A q \in Requests \ {r} : req'[q] = req[q]
    BY <1>2, <1>6, <2>3, GotoTyped
  <2>2. Recalls(r)'
    BY <1>1, <2>1 DEF Recalls
  <2>. QED
    BY <1>1, <1>2, <2>1, <2>2, MovedStep
<1>7. CASE At(r, "saveChange") /\ Goto(r, "revokeAll")
  <2>3. req[r].copy.password # NoPassword
    BY <1>2, <1>7 DEF Recalls, At
  <2>1. /\ req'[r].at = "revokeAll" /\ req'[r].copy = req[r].copy
        /\ req[r].copy.password # NoPassword
        /\ \A q \in Requests \ {r} : req'[q] = req[q]
    BY <1>2, <1>7, <2>3, GotoTyped
  <2>2. Recalls(r)'
    BY <2>1 DEF Recalls
  <2>. QED
    BY <1>1, <1>2, <2>1, <2>2, MovedStep
<1>. QED
  BY <1>3, <1>4, <1>5, <1>6, <1>7

\* The steps that end sessions.
LEMMA EndingStep ==
    ASSUME SessionInv, TypeOK', NEW r \in Requests,
           LogoutSave(r) \/ RefreshRetire(r) \/ DeleteSessions(r)
    PROVE  SessionInv' /\ Grown
<1>. USE DEF tables, histories, Steps
<1>1. TypeOK /\ Recalls(r)
  BY DEF SessionInv, Remembered
<1>2. CASE LogoutSave(r)
  <2>1. req[r].session \in DOMAIN session
    BY <1>1, <1>2 DEF LogoutSave, Recalls, At
  <2>2. Moved /\ UNCHANGED cut
    BY <1>1, <1>2, <2>1, RetireMoves, StillMoves DEF LogoutSave
  <2>. QED
    BY <1>1, <1>2, <2>2, FinishTyped, RecallsNothing, MovedStep DEF LogoutSave
<1>3. CASE RefreshRetire(r)
  <2>1. req[r].session \in DOMAIN session
    BY <1>1, <1>3 DEF RefreshRetire, Recalls, At
  <2>2. CASE Stored(req[r].user)
    <3>1. Moved /\ session'[req[r].session].state = "revoked" /\ UNCHANGED cut
      BY <1>1, <1>3, <2>1, <2>2, RetireMoves DEF RefreshRetire
    <3>2. /\ req'[r].at = "mint" /\ req'[r].session = req[r].session
          /\ \A q \in Requests \ {r} : req'[q] = req[q]
      BY <1>1, <1>3, <2>2, GotoTyped DEF RefreshRetire
    <3>3. Recalls(r)'
      BY <1>1, <2>1, <3>1, <3>2, MovedGrown DEF Recalls, Live
    <3>. QED
      BY <3>1, <3>2, <3>3, MovedStep
  <2>3. CASE ~Stored(req[r].user)
    <3>1. Moved /\ Finish(r) /\ UNCHANGED cut
      BY <1>1, <1>3, <2>3, StillMoves DEF RefreshRetire
    <3>. QED
      BY <1>1, <3>1, FinishTyped, RecallsNothing, MovedStep
  <2>. QED
    BY <2>2, <2>3
<1>4. CASE DeleteSessions(r)
  <2>. DEFINE ended == {i \in DOMAIN session : session[i].user = req[r].user}
  <2>1. session' = [i \in DOMAIN session |-> IF i \in ended THEN With(i, "deleted") ELSE session[i]]
    BY <1>4 DEF DeleteSessions
  <2>2. Moved /\ UNCHANGED cut
    BY <1>1, <1>4, <2>1, EndingMoves DEF DeleteSessions
  <2>3. /\ req'[r].at = "removeUser"
        /\ \A q \in Requests \ {r} : req'[q] = req[q]
    BY <1>1, <1>4, GotoTyped DEF DeleteSessions
  <2>4. Recalls(r)'
    BY <2>3 DEF Recalls
  <2>. QED
    BY <2>2, <2>3, <2>4, MovedStep
<1>. QED
  BY <1>2, <1>3, <1>4

LEMMA RevokeStep ==
    ASSUME SessionInv, TypeOK', NEW r \in Requests, RevokeAll(r)
    PROVE  SessionInv' /\ Grown
<1>. DEFINE ended == {i \in DOMAIN session : session[i].user = req[r].user /\ Live(i)}
<1>1. session' = [i \in DOMAIN session |-> IF i \in ended THEN With(i, "revoked") ELSE session[i]]
  BY DEF RevokeAll
<1>2. Moved /\ \A i \in ended : session'[i].state = "revoked"
  BY <1>1, EndingMoves DEF SessionInv
<1>3. Grown /\ DOMAIN session' = DOMAIN session /\ DOMAIN session = 1..Len(session)
      /\ Len(session) \in Nat
  BY <1>2, MovedGrown, SessionsTyped DEF SessionInv
<1>4. cut' = [cut EXCEPT ![req[r].user] = Len(session)] /\ cut \in [Users -> 0..MaxSessions]
  BY DEF RevokeAll, SessionInv, TypeOK
<1>5. /\ req'[r].at = "idle" /\ \A q \in Requests \ {r} : req'[q] = req[q]
  BY FinishTyped DEF RevokeAll, SessionInv
<1>6. Remembered'
  BY <1>3, <1>5, RecallsNothing, RememberedStep
<1>7. ParentsBefore'
  BY <1>2, <1>3 DEF SessionInv, ParentsBefore, Moved, Kept
<1>8. CutsPast'
  BY <1>2, <1>3, <1>4 DEF SessionInv, CutsPast, Moved
<1>9. SpentEnded'
  <2>. SUFFICES ASSUME NEW i \in DOMAIN session, session'[i].parent # 0
                PROVE  session'[session'[i].parent].state # "live"
    BY <1>3 DEF SpentEnded, Live
  <2>1. session[i] \in SessionRow
    BY SessionsTyped DEF SessionInv
  <2>2. session'[i].parent = session[i].parent /\ session[i].parent < i /\ session[i].parent \in Nat
    BY <1>2, <2>1, ConstantsAssumption DEF SessionInv, ParentsBefore, Moved, Kept, SessionRow
  <2>3. session[i].parent \in DOMAIN session /\ ~Live(session[i].parent)
    BY <1>3, <2>2 DEF SessionInv, SpentEnded
  <2>. QED
    BY <1>2, <2>2, <2>3 DEF Moved, Kept
<1>10. ChangeEndsSessions'
  <2>. SUFFICES ASSUME NEW i \in DOMAIN session, i <= cut'[session'[i].user]
                PROVE  session'[i].state # "live"
    BY <1>3 DEF ChangeEndsSessions, Live
  <2>1. session'[i].user = session[i].user
    BY <1>2 DEF Moved, Kept
  <2>2. CASE session[i].user = req[r].user /\ Live(i)
    BY <1>2, <2>2
  <2>3. CASE session[i].user = req[r].user /\ ~Live(i)
    BY <1>2, <2>3 DEF Moved, Kept
  <2>4. CASE session[i].user # req[r].user
    <3>1. cut'[session[i].user] = cut[session[i].user]
      BY <1>4, <2>4, SessionsTyped DEF SessionInv, SessionRow
    <3>2. ~Live(i)
      BY <2>1, <3>1 DEF SessionInv, ChangeEndsSessions
    <3>. QED
      BY <1>2, <3>2 DEF Moved, Kept
  <2>. QED
    BY <2>2, <2>3, <2>4
<1>11. TokensOwned'
  BY <1>2, <1>3 DEF SessionInv, TokensOwned, Moved, Kept
<1>. QED
  BY <1>3, <1>6, <1>7, <1>8, <1>9, <1>10, <1>11 DEF SessionInv

LEMMA SessionStep ==
    ASSUME SessionInv, [Next]_vars PROVE SessionInv' /\ Grown
<1>. USE DEF tables, histories
<1>1. TypeOK'
  BY TypeStep DEF SessionInv
<1>2. ASSUME NEW r \in Requests, Begin(r) PROVE SessionInv' /\ Grown
  BY <1>1, <1>2, BeginStep
<1>3. ASSUME NEW r \in Requests, Continue(r) PROVE SessionInv' /\ Grown
  BY <1>1, <1>3, MintStep, QuietStep, EndingStep, RevokeStep DEF Continue
<1>4. ASSUME UNCHANGED <<session, req, cut>> PROVE SessionInv' /\ Grown
  <2>1. Moved
    BY <1>4, StillMoves DEF SessionInv
  <2>2. Remembered'
    BY <1>4 DEF SessionInv, Remembered, Recalls, Live
  <2>. QED
    BY <1>1, <1>4, <2>1, <2>2, MovedKeeps, MovedGrown DEF SessionInv
<1>5. ASSUME NEW u \in Users, ForgotPassword(u) PROVE SessionInv' /\ Grown
  BY <1>4, <1>5 DEF ForgotPassword
<1>6. ASSUME Restart PROVE SessionInv' /\ Grown
  <2>1. Moved /\ UNCHANGED cut
    BY <1>6, StillMoves DEF Restart, SessionInv
  <2>2. \A r \in Requests : req'[r].at = "idle"
    BY <1>6, NoRequestIdle DEF Restart
  <2>3. Remembered'
    BY <2>2, RecallsNothing DEF Remembered
  <2>. QED
    BY <1>1, <2>1, <2>3, MovedKeeps, MovedGrown DEF SessionInv
<1>. QED
  BY <1>2, <1>3, <1>4, <1>5, <1>6 DEF Next, vars

LEMMA SessionInit == Init => SessionInv
<1>. SUFFICES ASSUME Init PROVE SessionInv
  OBVIOUS
<1>1. TypeOK /\ DOMAIN session = {} /\ Len(session) = 0
  BY TypeInit DEF Init
<1>2. \A r \in Requests : req[r].at = "idle"
  BY NoRequestIdle DEF Init
<1>3. ASSUME NEW r \in Requests PROVE Recalls(r)
  <2>1. req[r].at = "idle"
    BY <1>2
  <2>. QED
    BY <2>1 DEF Recalls
<1>4. CutsPast
  <2>1. \A u \in Users : cut[u] = 0
    BY DEF Init
  <2>2. Len(session) = 0
    BY <1>1
  <2>3. ASSUME NEW u \in Users PROVE cut[u] <= Len(session)
    <3>1. cut[u] = 0
      BY <2>1
    <3>. QED
      BY <3>1, <2>2, 0 <= 0
  <2>. QED
    BY <2>3 DEF CutsPast
<1>5. ParentsBefore /\ SpentEnded /\ TokensOwned /\ ChangeEndsSessions
  BY <1>1 DEF ParentsBefore, SpentEnded, TokensOwned, ChangeEndsSessions
<1>. QED
  BY <1>1, <1>3, <1>4, <1>5 DEF SessionInv, Remembered

\* The inductive invariant holds in every reachable state, for any users, addresses,
\* requests, endpoints and bounds.
THEOREM SessionInvariant == Spec => []SessionInv
<1>1. SessionInv /\ [Next]_vars => SessionInv'
  BY SessionStep
<1>. QED
  BY SessionInit, <1>1, PTL DEF Spec

\* Every table, request and history keeps its type.
THEOREM TypeCorrect == Spec => []TypeOK
<1>1. SessionInv => TypeOK
  BY DEF SessionInv
<1>. QED
  BY <1>1, SessionInvariant, PTL

\* A refresh token that was exchanged for a new pair is accepted again only if another
\* session of its user was given the same token (AuthService.refreshToken).
THEOREM SpentTokens == Spec => []SpentTokenHasACause
<1>1. ASSUME SessionInv PROVE SpentTokenHasACause
  <2>. SUFFICES ASSUME NEW i \in Exchanged, Found(session[i].token) # {}
                PROVE  \E j \in Bearing(session[i].token) \ {i} : session[j].user = session[i].user
    BY DEF SpentTokenHasACause
  <2>1. PICK k \in DOMAIN session : session[k].parent = i /\ i # 0
    BY DEF Exchanged
  <2>2. i \in DOMAIN session /\ ~Live(i)
    <3>1. session[k].parent < k /\ session[k].parent \in Nat
      BY <1>1, SessionsTyped, ConstantsAssumption DEF SessionInv, ParentsBefore, SessionRow
    <3>. QED
      BY <1>1, <2>1, <3>1, SessionsTyped DEF SessionInv, SpentEnded
  <2>3. PICK j \in DOMAIN session : session[j].token = session[i].token /\ Live(j)
    BY DEF Found, Bearing
  <2>4. j # i /\ session[j].user = session[i].user
    BY <1>1, <2>2, <2>3 DEF SessionInv, TokensOwned
  <2>. QED
    BY <2>3, <2>4 DEF Bearing
<1>. QED
  BY <1>1, SessionInvariant, PTL

\* The sessions a finished changePassword has ended stay ended (AuthService.changePassword).
THEOREM EndedByChange == Spec => []ChangeEndsSessions
<1>1. SessionInv => ChangeEndsSessions
  BY DEF SessionInv
<1>. QED
  BY <1>1, SessionInvariant, PTL

\* No step brings a session back to life, saves of copies read before its end included.
THEOREM EndedForGood == Spec => EndedStaysEnded
<1>1. SessionInv /\ [Next]_vars
          => [\A i \in DOMAIN session : ~Live(i) => session'[i].state # "live"]_vars
  BY SessionStep DEF Grown, Kept
<1>. QED
  BY <1>1, SessionInvariant, PTL DEF Spec, EndedStaysEnded
-------------------------------------------------------------------------------
(* One account per address. *)

\* A row is stored where it was stored already, or where its address is free.
LEMMA EmailStep ==
    ASSUME TypeOK, OneAccountPerEmail, NEW u \in Users, NEW row,
           account' = [account EXCEPT ![u] = row],
           row.status = "stored" => Stored(u) \/ ~EmailTaken(u)
    PROVE  OneAccountPerEmail'
<1>1. \A w \in Users : account'[w] = IF w = u THEN row ELSE account[w]
  BY DEF TypeOK
<1>2. \A w \in Users : account'[w].status = "stored" => w = u \/ Stored(w)
  BY <1>1 DEF Stored
<1>3. ASSUME NEW w \in Users \ {u}, Stored(w), row.status = "stored", EmailOf[u] = EmailOf[w]
      PROVE  EmailOf[u] = NoEmail
  BY <1>3 DEF OneAccountPerEmail, EmailTaken
<1>. QED
  BY <1>1, <1>2, <1>3 DEF OneAccountPerEmail, Stored

LEMMA EmailStill ==
    ASSUME OneAccountPerEmail, UNCHANGED account PROVE OneAccountPerEmail'
  BY DEF OneAccountPerEmail, Stored

LEMMA EmailSave ==
    ASSUME TypeOK, OneAccountPerEmail, NEW r \in Requests, req[r].user \in Users,
           NEW p, NEW v, Savable(r), Save(r, p, v)
    PROVE  OneAccountPerEmail'
<1>. DEFINE row == [status |-> "stored", password |-> p, verified |-> v]
<1>1. account' = [account EXCEPT ![req[r].user] = row]
  BY DEF Save
<1>. QED
  BY <1>1, EmailStep DEF Savable

\* Only inserts and saves store a row, and both look at the addresses in the same call.
LEMMA AccountStep ==
    ASSUME SessionInv, OneAccountPerEmail, [Next]_vars PROVE OneAccountPerEmail'
<1>. USE DEF tables, histories, Steps
<1>0. TypeOK
  BY DEF SessionInv
<1>1. ASSUME NEW r \in Requests, Begin(r) PROVE OneAccountPerEmail'
  <2>1. UNCHANGED account
    BY <1>1 DEF Begin, RegisterStart, SocialStart, GuestStart, LoginStart, PasswordStart, VerifyStart,
                ProfileStart, DeleteStart, LogoutStart, RefreshStart
  <2>. QED
    BY <2>1, EmailStill
<1>2. ASSUME NEW r \in Requests, SignUpInsert(r) PROVE OneAccountPerEmail'
  <2>1. req[r].user \in Users
    BY <1>0, <1>2, RequestTyped DEF SignUpInsert, Request
  <2>2. CASE EmailTaken(req[r].user)
    BY <1>2, <2>2, EmailStill DEF SignUpInsert
  <2>3. CASE ~EmailTaken(req[r].user)
    BY <1>0, <1>2, <2>1, <2>3, EmailStep DEF SignUpInsert
  <2>. QED
    BY <2>2, <2>3
<1>3. ASSUME NEW r \in Requests,
             ResetSave(r) \/ ChangeSave(r) \/ VerifySave(r) \/ ProfileSave(r)
      PROVE  OneAccountPerEmail'
  <2>1. req[r].user \in Users
    BY <1>0, <1>3, RequestTyped DEF ResetSave, ChangeSave, VerifySave, ProfileSave, Request
  <2>2. UNCHANGED account \/ Savable(r)
    BY <1>3 DEF ResetSave, ChangeSave, VerifySave, ProfileSave
  <2>3. UNCHANGED account \/ \E p, v : Save(r, p, v)
    BY <1>3 DEF ResetSave, ChangeSave, VerifySave, ProfileSave
  <2>. QED
    BY <1>0, <2>1, <2>2, <2>3, EmailSave, EmailStill
<1>4. ASSUME NEW r \in Requests, DeleteUser(r) PROVE OneAccountPerEmail'
  <2>1. req[r].user \in Users
    BY <1>0, <1>4, RequestTyped DEF DeleteUser, Request
  <2>2. NoRow("removed").status = "removed"
    BY DEF NoRow
  <2>3. UNCHANGED account \/ account' = [account EXCEPT ![req[r].user] = NoRow("removed")]
    BY <1>4 DEF DeleteUser
  <2>. QED
    BY <1>0, <2>1, <2>2, <2>3, EmailStep, EmailStill
<1>5. ASSUME NEW r \in Requests,
             Mint(r) \/ LogoutSave(r) \/ RefreshOwner(r) \/ RefreshRetire(r)
             \/ RevokeAll(r) \/ DeleteSessions(r)
      PROVE  OneAccountPerEmail'
  BY <1>5, EmailStill DEF Mint, LogoutSave, RefreshOwner, RefreshRetire, RevokeAll, DeleteSessions
<1>6. ASSUME (\E u \in Users : ForgotPassword(u)) \/ Restart \/ UNCHANGED vars
      PROVE  OneAccountPerEmail'
  BY <1>6, EmailStill DEF ForgotPassword, Restart, vars
<1>. QED
  BY <1>1, <1>2, <1>3, <1>4, <1>5, <1>6 DEF Next, Continue

\* No two stored users share an address, for any interleaving of sign-ups, removals and
\* saves that insert a removed row again (AuthService.register, googleAuth, appleAuth).
THEOREM OneAccount == Spec => []OneAccountPerEmail
<1>1. Init => OneAccountPerEmail
  BY DEF Init, OneAccountPerEmail, Stored, NoRow
<1>2. SessionInv /\ OneAccountPerEmail /\ [Next]_vars => OneAccountPerEmail'
  BY AccountStep
<1>. QED
  BY <1>1, <1>2, SessionInvariant, PTL DEF Spec
-------------------------------------------------------------------------------
(* Passwords.  A replaced password is dead as long as the only handlers that *)
(* save a users row are those that set the password in it: next to           *)
(* verifyEmail or a profile write it comes back.                             *)

PasswordWritersOnly == Handlers \cap {"verifyEmail", "profile"} = {}

-------------------------------------------------------------------------------
(* The inductive invariant. *)

\* The password a request is going to store, and the one it is replacing; 0 for none.
Pending(r) ==
    IF req[r].at \in {"saveReset", "saveChange"} THEN req[r].password
    ELSE IF req[r].at = "insertUser" THEN req[r].copy.password ELSE 0

Replacing(r) ==
    IF req[r].at \in {"saveReset", "saveChange", "revokeAll"} THEN req[r].copy.password ELSE 0

Password(u) == account[u].password

Numbered ==
    /\ \A u \in Users : Password(u) \in 0..chosen
    /\ \A r \in Requests : Pending(r) \in 0..chosen /\ Replacing(r) \in 0..chosen
    /\ replaced \subseteq 1..chosen

\* No two accounts have one password: every one is chosen anew.
OwnPasswords == \A u, w \in Users : Password(u) # 0 /\ Password(u) = Password(w) => u = w

\* The password a request is going to store is known to nobody else yet.
PendingIsNew ==
    \A r \in Requests : Pending(r) # 0 =>
        /\ Pending(r) \notin replaced
        /\ \A u \in Users : Password(u) # Pending(r)
        /\ \A q \in Requests : Replacing(q) # Pending(r) /\ (q # r => Pending(q) # Pending(r))

\* The password a request is replacing is its own user's, and gone once the new one is stored.
ReplacingIsOwn ==
    \A r \in Requests, w \in Users :
        Replacing(r) # 0 /\ Password(w) = Replacing(r)
            => w = req[r].user /\ req[r].at # "revokeAll"

DeadPasswords == \A u \in Users : Password(u) \notin replaced

\* Nobody is in the middle of a write that leaves the password as it was read.
Writers ==
    \A r \in Requests :
        /\ req[r].at \notin {"saveVerified", "saveProfile"}
        /\ req[r].at \in {"saveReset", "saveChange"} => req[r].password # 0

PasswordInv ==
    /\ SessionInv /\ Numbered /\ OwnPasswords /\ PendingIsNew /\ ReplacingIsOwn
    /\ DeadPasswords /\ Writers

Facts == Numbered /\ OwnPasswords /\ PendingIsNew /\ ReplacingIsOwn /\ DeadPasswords
-------------------------------------------------------------------------------
(* The five things a step can do to passwords. *)

\* A request other than r is as it was.
Same(q) ==
    /\ Pending(q)' = Pending(q) /\ Replacing(q)' = Replacing(q)
    /\ req'[q].user = req[q].user /\ req'[q].at = req[q].at

LEMMA SameRequest ==
    ASSUME NEW q \in Requests, req'[q] = req[q] PROVE Same(q)
  BY DEF Same, Pending, Replacing

LEMMA SamePasswords ==
    ASSUME UNCHANGED account PROVE \A u : Password(u)' = Password(u)
  BY DEF Password

\* A request comes to its end, or has nothing to do with passwords.
LEMMA Dropped ==
    ASSUME PasswordInv, TypeOK, UNCHANGED <<account, chosen, replaced>>,
           NEW r \in Requests, \A q \in Requests \ {r} : Same(q),
           Pending(r)' = 0, Replacing(r)' = 0
    PROVE  Facts'
<1>1. \A u : Password(u)' = Password(u)
  BY SamePasswords
<1>2. Numbered'
  BY <1>1, ConstantsAssumption DEF PasswordInv, Numbered, Same, TypeOK
<1>3. OwnPasswords' /\ DeadPasswords'
  BY <1>1 DEF PasswordInv, OwnPasswords, DeadPasswords
<1>4. PendingIsNew'
  BY <1>1 DEF PasswordInv, PendingIsNew, Same
<1>5. ReplacingIsOwn'
  BY <1>1 DEF PasswordInv, ReplacingIsOwn, Same
<1>. QED
  BY <1>2, <1>3, <1>4, <1>5 DEF Facts

\* A new password is chosen, to be stored for user u in the place of what u has, if anything.
LEMMA Chosen ==
    ASSUME PasswordInv, TypeOK, UNCHANGED <<account, replaced>>, chosen' = chosen + 1,
           NEW r \in Requests, NEW u \in Users, \A q \in Requests \ {r} : Same(q),
           Pending(r)' = chosen + 1,
           Replacing(r)' \in {0, Password(u)}, req'[r].user = u, req'[r].at # "revokeAll"
    PROVE  Facts'
<1>1. \A w : Password(w)' = Password(w)
  BY SamePasswords
<1>2. chosen \in Nat
  BY ConstantsAssumption DEF TypeOK
<1>3. Numbered'
  BY <1>1, <1>2 DEF PasswordInv, Numbered, Same
<1>4. OwnPasswords' /\ DeadPasswords'
  BY <1>1 DEF PasswordInv, OwnPasswords, DeadPasswords
<1>5. /\ \A w \in Users : Password(w) # chosen + 1
      /\ \A q \in Requests : Pending(q) # chosen + 1 /\ Replacing(q) # chosen + 1
      /\ chosen + 1 \notin replaced
  BY <1>2 DEF PasswordInv, Numbered
<1>6. PendingIsNew'
  <2>1. Replacing(r)' # chosen + 1
    BY <1>2, <1>5
  <2>. QED
    BY <1>1, <1>5, <2>1 DEF PasswordInv, PendingIsNew, Same
<1>7. ReplacingIsOwn'
  BY <1>1 DEF PasswordInv, ReplacingIsOwn, OwnPasswords, Same
<1>. QED
  BY <1>3, <1>4, <1>6, <1>7 DEF Facts

\* The pending password is stored for the request's own user, and the old one is replaced.
LEMMA StoredPending ==
    ASSUME PasswordInv, TypeOK, UNCHANGED chosen,
           NEW r \in Requests, \A q \in Requests \ {r} : Same(q),
           \A w \in Users : Password(w)' = IF w = req[r].user THEN Pending(r) ELSE Password(w),
           Pending(r)' = 0,
           Pending(r) = 0 => Replacing(r) = 0,
           Replacing(r)' = 0 /\ replaced' = replaced \cup ({Replacing(r)} \ {0})
    PROVE  Facts'
<1>1. chosen \in Nat /\ replaced \subseteq 1..chosen
  BY ConstantsAssumption DEF TypeOK, PasswordInv, Numbered
<1>2. Numbered'
  <2>1. /\ \A w \in Users : Password(w) \in 0..chosen
        /\ \A q \in Requests : Pending(q) \in 0..chosen /\ Replacing(q) \in 0..chosen
    BY DEF PasswordInv, Numbered
  <2>2. \A w \in Users : Password(w)' \in 0..chosen
    BY <2>1
  <2>3. \A q \in Requests : Pending(q)' \in 0..chosen /\ Replacing(q)' \in 0..chosen
    BY <1>1, <2>1 DEF Same
  <2>5. {Replacing(r)} \ {0} \subseteq 1..chosen
    BY <1>1, <2>1
  <2>4. replaced' \subseteq 1..chosen
    <3>. SUFFICES ASSUME NEW x \in replaced' PROVE x \in 1..chosen
      OBVIOUS
    <3>1. x \in replaced \/ x \in {Replacing(r)} \ {0}
      OBVIOUS
    <3>. QED
      BY <1>1, <2>5, <3>1
  <2>. QED
    BY <2>2, <2>3, <2>4 DEF Numbered
<1>3. OwnPasswords'
  BY DEF PasswordInv, OwnPasswords, PendingIsNew
<1>4. Replacing(r) # 0 => Replacing(r) # Pending(r)
  BY DEF PasswordInv, PendingIsNew
<1>5. DeadPasswords'
  BY <1>1, <1>4 DEF PasswordInv, DeadPasswords, PendingIsNew, ReplacingIsOwn
<1>6. PendingIsNew'
  BY DEF PasswordInv, PendingIsNew, Same
<1>7. ReplacingIsOwn'
  BY <1>4 DEF PasswordInv, ReplacingIsOwn, PendingIsNew, Same
<1>. QED
  BY <1>2, <1>3, <1>5, <1>6, <1>7 DEF Facts

\* The pending password is stored, and its request goes on to revoke sessions.
LEMMA StoredFirst ==
    ASSUME PasswordInv, TypeOK, UNCHANGED <<chosen, replaced>>,
           NEW r \in Requests, \A q \in Requests \ {r} : Same(q),
           \A w \in Users : Password(w)' = IF w = req[r].user THEN Pending(r) ELSE Password(w),
           Pending(r)' = 0, req'[r].user = req[r].user,
           Pending(r) # 0, Replacing(r)' = Replacing(r)
    PROVE  Facts'
<1>1. Numbered'
  <2>1. /\ \A w \in Users : Password(w) \in 0..chosen
        /\ \A q \in Requests : Pending(q) \in 0..chosen /\ Replacing(q) \in 0..chosen
        /\ replaced \subseteq 1..chosen /\ chosen \in Nat
    BY ConstantsAssumption DEF TypeOK, PasswordInv, Numbered
  <2>. QED
    BY <2>1 DEF Numbered, Same
<1>2. OwnPasswords'
  BY DEF PasswordInv, OwnPasswords, PendingIsNew
<1>3. Replacing(r) # Pending(r)
  BY DEF PasswordInv, PendingIsNew
<1>4. DeadPasswords'
  BY DEF PasswordInv, DeadPasswords, PendingIsNew
<1>5. PendingIsNew'
  BY DEF PasswordInv, PendingIsNew, Same
<1>6. ReplacingIsOwn'
  BY <1>3 DEF PasswordInv, ReplacingIsOwn, PendingIsNew, Same
<1>. QED
  BY <1>1, <1>2, <1>4, <1>5, <1>6 DEF Facts

\* The session step is done and the old password counts as replaced.
LEMMA CountedReplaced ==
    ASSUME PasswordInv, TypeOK, UNCHANGED <<account, chosen>>,
           NEW r \in Requests, \A q \in Requests \ {r} : Same(q), req[r].at = "revokeAll",
           Pending(r)' = 0, Replacing(r)' = 0,
           Replacing(r) # 0, replaced' = replaced \cup {Replacing(r)}
    PROVE  Facts'
<1>1. \A w : Password(w)' = Password(w)
  BY SamePasswords
<1>2. chosen \in Nat /\ replaced \subseteq 1..chosen
  BY ConstantsAssumption DEF TypeOK, PasswordInv, Numbered
<1>3. Numbered'
  <2>2. Replacing(r) \in 0..chosen
    BY DEF PasswordInv, Numbered
  <2>3. Replacing(r) \in 1..chosen
    BY <1>2, <2>2
  <2>1. replaced' \subseteq 1..chosen
    BY <1>2, <2>3
  <2>. QED
    BY <1>1, <1>2, <2>1 DEF PasswordInv, Numbered, Same
<1>4. OwnPasswords'
  BY <1>1 DEF PasswordInv, OwnPasswords
<1>5. DeadPasswords'
  BY <1>1 DEF PasswordInv, DeadPasswords, ReplacingIsOwn
<1>6. PendingIsNew'
  BY <1>1 DEF PasswordInv, PendingIsNew, Same
<1>7. ReplacingIsOwn'
  BY <1>1 DEF PasswordInv, ReplacingIsOwn, Same
<1>. QED
  BY <1>3, <1>4, <1>5, <1>6, <1>7 DEF Facts

\* A user is removed.
LEMMA Removed ==
    ASSUME PasswordInv, TypeOK, UNCHANGED <<chosen, replaced>>,
           NEW r \in Requests, \A q \in Requests \ {r} : Same(q),
           Pending(r)' = 0, Replacing(r)' = 0,
           NEW u \in Users, \A w \in Users : Password(w)' = IF w = u THEN 0 ELSE Password(w)
    PROVE  Facts'
<1>1. chosen \in Nat /\ replaced \subseteq 1..chosen
  BY ConstantsAssumption DEF TypeOK, PasswordInv, Numbered
<1>2. Numbered'
  BY <1>1 DEF PasswordInv, Numbered, Same
<1>3. OwnPasswords'
  BY DEF PasswordInv, OwnPasswords
<1>4. DeadPasswords'
  BY <1>1 DEF PasswordInv, DeadPasswords
<1>5. PendingIsNew'
  BY DEF PasswordInv, PendingIsNew, Same
<1>6. ReplacingIsOwn'
  BY DEF PasswordInv, ReplacingIsOwn, Same
<1>. QED
  BY <1>2, <1>3, <1>4, <1>5, <1>6 DEF Facts
-------------------------------------------------------------------------------
(* Every step is one of these. *)

LEMMA RequestSame ==
    ASSUME NEW r \in Requests, \A q \in Requests \ {r} : req'[q] = req[q]
    PROVE  \A q \in Requests \ {r} : Same(q)
  BY SameRequest

LEMMA FinishDrops ==
    ASSUME TypeOK, NEW r \in Requests, Finish(r)
    PROVE  /\ Pending(r)' = 0 /\ Replacing(r)' = 0
           /\ \A q \in Requests \ {r} : Same(q)
           /\ req'[r].at = "idle"
<1>1. req'[r].at = "idle" /\ \A q \in Requests \ {r} : req'[q] = req[q]
  BY FinishTyped
<1>2. \A q \in Requests \ {r} : Same(q)
  BY <1>1, RequestSame
<1>. QED
  BY <1>1, <1>2 DEF Pending, Replacing

\* A request that goes on from a step to another, neither about passwords.
LEMMA GotoDrops ==
    ASSUME TypeOK, NEW r \in Requests, NEW step \in Steps,
           NEW next \in {"mint", "retire", "removeUser"}, At(r, step), Goto(r, next)
    PROVE  /\ Pending(r)' = 0 /\ Replacing(r)' = 0
           /\ \A q \in Requests \ {r} : Same(q)
           /\ req'[r].at = next /\ req'[r].user = req[r].user
<1>1. req'[r].at = next /\ req'[r].user = req[r].user /\ \A q \in Requests \ {r} : req'[q] = req[q]
  BY GotoTyped DEF Steps
<1>2. \A q \in Requests \ {r} : Same(q)
  BY <1>1, RequestSame
<1>. QED
  BY <1>1, <1>2 DEF Pending, Replacing

LEMMA SavePassword ==
    ASSUME TypeOK, NEW u \in Users, NEW row, account' = [account EXCEPT ![u] = row]
    PROVE  \A w \in Users : Password(w)' = IF w = u THEN row.password ELSE Password(w)
  BY DEF TypeOK, Password

LEMMA BeginPasswords ==
    ASSUME PasswordInv, PasswordWritersOnly, NEW r \in Requests, Begin(r)
    PROVE  Facts' /\ Writers'
<1>. USE DEF tables, histories, Steps
<1>1. TypeOK /\ Writers /\ req \in [Requests -> Request \cup {NoRequest}]
  BY DEF PasswordInv, SessionInv, TypeOK
<1>2. \A q \in Requests \ {r} : req'[q] = req[q]
  BY <1>1 DEF Begin, RegisterStart, SocialStart, GuestStart, LoginStart, PasswordStart,
              VerifyStart, ProfileStart, DeleteStart, LogoutStart, RefreshStart, Start
<1>3. \A q \in Requests \ {r} : Same(q)
  BY <1>2, RequestSame
<1>4. ASSUME req'[r].at \notin {"saveVerified", "saveProfile"},
             req'[r].at \in {"saveReset", "saveChange"} => req'[r].password # 0
      PROVE  Writers'
  BY <1>1, <1>2, <1>4 DEF Writers
<1>5. ASSUME UNCHANGED <<account, chosen, replaced>>,
             req'[r].at \in {"mint", "deleteSessions", "saveSession", "findOwner"}
      PROVE  Facts' /\ Writers'
  <2>1. Pending(r)' = 0 /\ Replacing(r)' = 0
    BY <1>5 DEF Pending, Replacing
  <2>. QED
    BY <1>1, <1>3, <1>4, <1>5, <2>1, Dropped
<1>6. ASSUME UNCHANGED <<account, chosen, replaced>>,
             req'[r].at = "insertUser", req'[r].copy.password = 0
      PROVE  Facts' /\ Writers'
  <2>1. Pending(r)' = 0 /\ Replacing(r)' = 0
    BY <1>6 DEF Pending, Replacing
  <2>. QED
    BY <1>1, <1>3, <1>4, <1>6, <2>1, Dropped
<1>7. ASSUME NEW u \in Users, RegisterStart(r, u) PROVE Facts' /\ Writers'
  <2>1. /\ req'[r].at = "insertUser" /\ req'[r].user = u
        /\ req'[r].copy.password = chosen + 1
        /\ UNCHANGED <<account, replaced>> /\ chosen' = chosen + 1
    BY <1>1, <1>7 DEF RegisterStart, Start, NewUser
  <2>2. Pending(r)' = chosen + 1 /\ Replacing(r)' = 0
    BY <2>1 DEF Pending, Replacing
  <2>. QED
    BY <1>1, <1>3, <1>4, <2>1, <2>2, Chosen
<1>8. ASSUME NEW u \in Users, SocialStart(r, u) \/ GuestStart(r, u) PROVE Facts' /\ Writers'
  <2>1. /\ UNCHANGED <<account, chosen, replaced>>
        /\ \/ req'[r].at = "mint"
           \/ req'[r].at = "insertUser" /\ req'[r].copy.password = 0
    BY <1>1, <1>8 DEF SocialStart, GuestStart, Start, NewUser, NoPassword
  <2>. QED
    BY <1>5, <1>6, <2>1
<1>9. ASSUME NEW u \in Users, LoginStart(r, u) \/ DeleteStart(r, u) PROVE Facts' /\ Writers'
  <2>1. /\ UNCHANGED <<account, chosen, replaced>>
        /\ req'[r].at \in {"mint", "deleteSessions"}
    BY <1>1, <1>9 DEF LoginStart, DeleteStart, Start
  <2>. QED
    BY <1>5, <2>1
<1>10. ASSUME NEW token, LogoutStart(r, token) \/ RefreshStart(r, token)
       PROVE  Facts' /\ Writers'
  <2>1. /\ UNCHANGED <<account, chosen, replaced>>
        /\ req'[r].at \in {"saveSession", "findOwner"}
    BY <1>1, <1>10, TokenStarts DEF Begun
  <2>. QED
    BY <1>5, <2>1
<1>11. ASSUME NEW u \in Users, PasswordStart(r, u) PROVE Facts' /\ Writers'
  <2>1. /\ req'[r].at \in {"saveChange", "saveReset"} /\ req'[r].user = u
        /\ req'[r].copy = account[u] /\ req'[r].password = chosen + 1
        /\ UNCHANGED <<account, replaced>> /\ chosen' = chosen + 1
    BY <1>1, <1>11 DEF PasswordStart, Start
  <2>2. Pending(r)' = chosen + 1 /\ Replacing(r)' = Password(u)
    BY <2>1 DEF Pending, Replacing, Password
  <2>3. chosen + 1 # 0
    BY <1>1, ConstantsAssumption DEF TypeOK
  <2>4. Facts'
    BY <1>1, <1>3, <2>1, <2>2, Chosen
  <2>. QED
    BY <1>4, <2>1, <2>3, <2>4
<1>12. ASSUME NEW u \in Users, VerifyStart(r, u) \/ ProfileStart(r, u) PROVE FALSE
  BY <1>12 DEF VerifyStart, ProfileStart, Start, PasswordWritersOnly
<1>. QED
  BY <1>7, <1>8, <1>9, <1>10, <1>11, <1>12 DEF Begin

LEMMA ContinuePasswords ==
    ASSUME PasswordInv, NEW r \in Requests, Continue(r)
    PROVE  Facts' /\ Writers'
<1>. USE DEF tables, histories, Steps
<1>1. TypeOK /\ Writers /\ Recalls(r)
  BY DEF PasswordInv, SessionInv, Remembered
<1>3. ASSUME Finish(r), UNCHANGED <<account, chosen, replaced>> PROVE Facts' /\ Writers'
  <2>1. Facts'
    BY <1>1, <1>3, FinishDrops, Dropped
  <2>2. Writers'
    BY <1>1, <1>3, FinishTyped DEF Writers
  <2>. QED
    BY <2>1, <2>2
<1>4. ASSUME NEW step \in Steps, NEW next \in {"mint", "retire", "removeUser"},
             At(r, step), Goto(r, next), UNCHANGED <<account, chosen, replaced>>
      PROVE  Facts' /\ Writers'
  <2>1. Facts'
    BY <1>1, <1>4, GotoDrops, Dropped
  <2>2. req'[r].at = next /\ \A q \in Requests \ {r} : req'[q] = req[q]
    BY <1>1, <1>4, GotoTyped
  <2>3. Writers'
    BY <1>1, <2>2 DEF Writers
  <2>. QED
    BY <2>1, <2>3
<1>5. CASE SignUpInsert(r)
  <2>1. CASE EmailTaken(req[r].user)
    BY <1>3, <1>5, <2>1 DEF SignUpInsert
  <2>2. CASE ~EmailTaken(req[r].user)
    <3>1. req[r].user \in Users /\ At(r, "insertUser") /\ Goto(r, "mint")
      BY <1>1, <1>5, <2>2, RequestTyped DEF SignUpInsert, Request
    <3>2. Pending(r) = req[r].copy.password /\ Replacing(r) = 0
      BY <3>1 DEF Pending, Replacing, At
    <3>3. \A w \in Users : Password(w)' = IF w = req[r].user THEN Pending(r) ELSE Password(w)
      BY <1>1, <1>5, <2>2, <3>1, <3>2, SavePassword DEF SignUpInsert
    <3>4. UNCHANGED <<chosen, replaced>>
      BY <1>5 DEF SignUpInsert
    <3>5. Facts'
      BY <1>1, <3>1, <3>2, <3>3, <3>4, GotoDrops, StoredPending
    <3>6. req'[r].at = "mint" /\ \A q \in Requests \ {r} : req'[q] = req[q]
      BY <1>1, <3>1, GotoTyped
    <3>7. Writers'
      BY <1>1, <3>6 DEF Writers
    <3>. QED
      BY <3>5, <3>7
  <2>. QED
    BY <2>1, <2>2
<1>6. CASE Mint(r) \/ LogoutSave(r)
  BY <1>3, <1>6 DEF Mint, LogoutSave
<1>7. CASE RefreshOwner(r) \/ RefreshRetire(r) \/ DeleteSessions(r)
  <2>1. /\ UNCHANGED <<account, chosen, replaced>>
        /\ \/ Finish(r)
           \/ At(r, "findOwner") /\ Goto(r, "retire")
           \/ At(r, "retire") /\ Goto(r, "mint")
           \/ At(r, "deleteSessions") /\ Goto(r, "removeUser")
    BY <1>7 DEF RefreshOwner, RefreshRetire, DeleteSessions
  <2>. QED
    BY <1>3, <1>4, <2>1
<1>8. CASE ResetSave(r)
  <2>1. CASE ~Savable(r)
    BY <1>3, <1>8, <2>1 DEF ResetSave
  <2>2. CASE Savable(r)
    <3>1. req[r].user \in Users /\ At(r, "saveReset") /\ Finish(r) /\ UNCHANGED chosen
      BY <1>1, <1>8, RequestTyped DEF ResetSave, Request
    <3>2. Pending(r) = req[r].password /\ Replacing(r) = req[r].copy.password /\ Pending(r) # 0
      BY <1>1, <3>1 DEF Pending, Replacing, At, Writers
    <3>3. \A w \in Users : Password(w)' = IF w = req[r].user THEN Pending(r) ELSE Password(w)
      BY <1>1, <1>8, <2>2, <3>1, <3>2, SavePassword DEF ResetSave, Save
    <3>4. replaced' = replaced \cup ({Replacing(r)} \ {0})
      BY <1>8, <2>2, <3>2 DEF ResetSave, NoPassword
    <3>5. Facts'
      BY <1>1, <3>1, <3>2, <3>3, <3>4, FinishDrops, StoredPending
    <3>6. Writers'
      BY <1>1, <3>1, FinishTyped DEF Writers
    <3>. QED
      BY <3>5, <3>6
  <2>. QED
    BY <2>1, <2>2
<1>9. CASE ChangeSave(r)
  <2>1. CASE ~Savable(r)
    BY <1>3, <1>9, <2>1 DEF ChangeSave
  <2>2. CASE Savable(r)
    <3>1. /\ req[r].user \in Users /\ At(r, "saveChange") /\ Goto(r, "revokeAll")
          /\ UNCHANGED <<chosen, replaced>>
      BY <1>1, <1>9, <2>2, RequestTyped DEF ChangeSave, Request
    <3>2. Pending(r) = req[r].password /\ Replacing(r) = req[r].copy.password /\ Pending(r) # 0
      BY <1>1, <3>1 DEF Pending, Replacing, At, Writers
    <3>3. \A w \in Users : Password(w)' = IF w = req[r].user THEN Pending(r) ELSE Password(w)
      BY <1>1, <1>9, <2>2, <3>1, <3>2, SavePassword DEF ChangeSave, Save
    <3>4. /\ req'[r].at = "revokeAll" /\ req'[r].copy = req[r].copy /\ req'[r].user = req[r].user
          /\ \A q \in Requests \ {r} : req'[q] = req[q]
      BY <1>1, <3>1, GotoTyped
    <3>5. Pending(r)' = 0 /\ Replacing(r)' = Replacing(r)
      BY <3>2, <3>4 DEF Pending, Replacing
    <3>6. \A q \in Requests \ {r} : Same(q)
      BY <3>4, RequestSame
    <3>7. Facts'
      BY <1>1, <3>1, <3>2, <3>3, <3>4, <3>5, <3>6, StoredFirst
    <3>8. Writers'
      BY <1>1, <3>4 DEF Writers
    <3>. QED
      BY <3>7, <3>8
  <2>. QED
    BY <2>1, <2>2
<1>10. CASE RevokeAll(r)
  <2>1. req[r].at = "revokeAll" /\ Finish(r) /\ UNCHANGED <<account, chosen>>
    BY <1>10 DEF RevokeAll, At
  <2>2. Replacing(r) = req[r].copy.password /\ Replacing(r) # 0
    BY <1>1, <2>1 DEF Replacing, Recalls, NoPassword
  <2>3. replaced' = replaced \cup {Replacing(r)}
    BY <1>10, <2>2 DEF RevokeAll
  <2>4. Facts'
    BY <1>1, <2>1, <2>2, <2>3, FinishDrops, CountedReplaced
  <2>5. Writers'
    BY <1>1, <2>1, FinishTyped DEF Writers
  <2>. QED
    BY <2>4, <2>5
<1>11. CASE VerifySave(r) \/ ProfileSave(r)
  BY <1>1, <1>11 DEF VerifySave, ProfileSave, Writers, At
<1>12. CASE DeleteUser(r)
  <2>1. CASE UNCHANGED account
    BY <1>3, <1>12, <2>1 DEF DeleteUser
  <2>2. CASE account' = [account EXCEPT ![req[r].user] = NoRow("removed")]
    <3>1. req[r].user \in Users /\ Finish(r) /\ UNCHANGED <<chosen, replaced>>
      BY <1>1, <1>12, RequestTyped DEF DeleteUser, Request
    <3>2. NoRow("removed").password = 0
      BY DEF NoRow, NoPassword
    <3>3. \A w \in Users : Password(w)' = IF w = req[r].user THEN 0 ELSE Password(w)
      BY <1>1, <2>2, <3>1, <3>2, SavePassword
    <3>4. Facts'
      BY <1>1, <3>1, <3>3, FinishDrops, Removed
    <3>5. Writers'
      BY <1>1, <3>1, FinishTyped DEF Writers
    <3>. QED
      BY <3>4, <3>5
  <2>. QED
    BY <1>12, <2>1, <2>2 DEF DeleteUser
<1>. QED
  BY <1>5, <1>6, <1>7, <1>8, <1>9, <1>10, <1>11, <1>12 DEF Continue
-------------------------------------------------------------------------------
(* The theorem. *)

LEMMA PasswordInit == Init => PasswordInv
<1>. SUFFICES ASSUME Init PROVE PasswordInv
  OBVIOUS
<1>1. SessionInv
  BY SessionInit
<1>2. \A u \in Users : Password(u) = 0
  BY DEF Init, Password, NoRow, NoPassword
<1>3. \A r \in Requests : Pending(r) = 0 /\ Replacing(r) = 0 /\ req[r].at = "idle"
  BY DEF Init, Pending, Replacing, NoRequest
<1>4. chosen = 0 /\ replaced = {}
  BY DEF Init
<1>5. Numbered /\ OwnPasswords /\ PendingIsNew /\ ReplacingIsOwn /\ DeadPasswords
  BY <1>2, <1>3, <1>4
     DEF Numbered, OwnPasswords, PendingIsNew, ReplacingIsOwn, DeadPasswords
<1>6. Writers
  BY <1>3 DEF Writers
<1>. QED
  BY <1>1, <1>5, <1>6 DEF PasswordInv

LEMMA PasswordStep ==
    ASSUME PasswordInv, PasswordWritersOnly, [Next]_vars PROVE PasswordInv'
<1>1. SessionInv /\ Writers
  BY DEF PasswordInv
<1>2. SessionInv'
  BY <1>1, SessionStep
<1>3. Facts' /\ Writers'
  <2>1. CASE UNCHANGED <<account, req, chosen, replaced>>
    <3>1. \A u : Password(u)' = Password(u)
      BY <2>1, SamePasswords
    <3>2. \A r \in Requests : Same(r)
      BY <2>1, SameRequest
    <3>3. Facts'
      BY <2>1, <3>1, <3>2 DEF PasswordInv, Facts, Same, Numbered, OwnPasswords,
         PendingIsNew, ReplacingIsOwn, DeadPasswords
    <3>. QED
      BY <1>1, <2>1, <3>3 DEF Writers
  <2>2. CASE Restart
    <3>1. \A r \in Requests : req'[r].at = "idle"
      BY <2>2 DEF Restart, NoRequest
    <3>2. \A r \in Requests : Pending(r)' = 0 /\ Replacing(r)' = 0
      BY <3>1 DEF Pending, Replacing
    <3>3. UNCHANGED <<account, chosen, replaced>>
      BY <2>2 DEF Restart, tables
    <3>4. \A u : Password(u)' = Password(u)
      BY <3>3, SamePasswords
    <3>5. chosen \in Nat
      BY <1>1, ConstantsAssumption DEF SessionInv, TypeOK
    <3>6. Facts'
      BY <3>2, <3>3, <3>4, <3>5 DEF PasswordInv, Facts, Numbered, OwnPasswords,
         PendingIsNew, ReplacingIsOwn, DeadPasswords
    <3>. QED
      BY <3>1, <3>6 DEF Writers
  <2>3. ASSUME NEW u \in Users, ForgotPassword(u) PROVE Facts' /\ Writers'
    BY <2>1, <2>3 DEF ForgotPassword, tables
  <2>4. ASSUME NEW r \in Requests, Begin(r) \/ Continue(r) PROVE Facts' /\ Writers'
    BY <2>4, BeginPasswords, ContinuePasswords
  <2>5. CASE UNCHANGED vars
    BY <2>1, <2>5 DEF vars
  <2>. QED
    BY <2>2, <2>3, <2>4, <2>5 DEF Next
<1>. QED
  BY <1>2, <1>3 DEF PasswordInv, Facts

\* A password that a change or a reset has answered to replace never opens the account
\* again, however logins, changes, resets, deletions and crashes interleave, when no
\* handler that saves a users row for another reason is in use
\* (AuthService.changePassword, resetPassword).
THEOREM DeadForGood ==
    ASSUME PasswordWritersOnly PROVE Spec => []PasswordSticks
<1>1. PasswordInv => PasswordSticks
  BY DEF PasswordInv, DeadPasswords, Password, PasswordSticks
<1>. QED
  BY <1>1, PasswordInit, PasswordStep, PTL DEF Spec
===============================================================================
