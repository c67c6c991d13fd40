--------------------------- MODULE AccountsProofs ---------------------------
(***************************************************************************)
(* Proofs about Accounts for any users, addresses, passwords and bounds.   *)
(***************************************************************************)
EXTENDS Accounts, TLAPS

\* While a request runs, its token is a row of its user that is not marked and
\* was valid when it was looked up.
RequestBacked ==
    gw # Idle =>
        /\ resets[gw.token] # NoRow
        /\ resets[gw.token].user = gw.user
        /\ ~resets[gw.token].used
        /\ gw.at <= resets[gw.token].expires
        /\ users[gw.user] # NoRow

IInv ==
    /\ TypeOK /\ RequestBacked
    /\ SpentOnce /\ ResetOkMeansNewPassword /\ StaleLoginsOverlap

-----------------------------------------------------------------------------
\* The two shapes of a request, and of a login.
LEMMA RequestShape ==
    ASSUME TypeOK
    PROVE  \/ gw = Idle /\ gw.stage = "idle"
           \/ /\ gw # Idle
              /\ gw \in [stage : {"validated", "changed"}, token : Tokens,
                         user : Users, pass : Passwords, at : Nat]
              /\ gw.stage \in {"validated", "changed"} /\ gw.token \in Tokens
              /\ gw.user \in Users /\ gw.pass \in Passwords /\ gw.at \in Nat
BY DEF TypeOK, Idle

LEMMA LoginShape ==
    ASSUME TypeOK, core # NoLogin
    PROVE  core \in [user : Users, pass : Passwords] /\ core.user \in Users
           /\ core.pass \in Passwords
BY DEF TypeOK, NoLogin

LEMMA UserRow ==
    ASSUME TypeOK, NEW u \in Users, users[u] # NoRow
    PROVE  users[u] \in UserRows /\ users[u].email \in Emails /\ users[u].hash \in Hashes
BY DEF TypeOK, UserRows

LEMMA ResetRow ==
    ASSUME TypeOK, NEW t \in Tokens, resets[t] # NoRow
    PROVE  /\ resets[t] \in ResetRows /\ resets[t].user \in Users
           /\ resets[t].expires \in Nat /\ resets[t].used \in BOOLEAN
BY DEF TypeOK, ResetRows

LEMMA HashVerifies ==
    ASSUME NEW i \in {CoreIters, GatewayIters}, NEW p \in Passwords
    PROVE  Hash(i, p) \in Hashes /\ Verify(p, Hash(i, p)) /\ Hash(i, p).pass = p
BY DEF Hash, Hashes, Verify

-----------------------------------------------------------------------------
LEMMA InitHolds == Init => IInv
<1> SUFFICES ASSUME Init PROVE IInv
  OBVIOUS
<1>1. TypeOK
  BY AccountConstants DEF Init, TypeOK
<1>3. gw = Idle /\ gw.stage = "idle" /\ core = NoLogin
  BY DEF Init, Idle
<1>4. SpentOnce
  BY DEF Init, SpentOnce
<1> QED BY <1>1, <1>3, <1>4
           DEF IInv, RequestBacked, ResetOkMeansNewPassword, StaleLoginsOverlap

LEMMA RegisterKeeps ==
    ASSUME IInv, NEW u \in Users, NEW e \in Emails, NEW p \in Passwords,
           Register(u, e, p)
    PROVE  IInv'
<1> DEFINE row == [email |-> e, hash |-> Hash(CoreIters, p)]
<1>1. row \in UserRows /\ row # NoRow
  BY HashVerifies, NoRowIsNoRow DEF UserRows
<1>2. /\ users[u] = NoRow /\ users' = [users EXCEPT ![u] = row]
      /\ UNCHANGED <<resets, now, gw, core, hasSession, coreDb>>
      /\ UNCHANGED <<spent, unmarked, overtaken>>
  BY DEF Register, Exists, coreVars, histVars
<1> HIDE DEF row
<1>3. \A v \in Users : users[v] # NoRow => users'[v] = users[v]
  BY <1>2 DEF IInv, TypeOK
<1>4. TypeOK'
  BY <1>1, <1>2 DEF IInv, TypeOK
<1>6. RequestBacked'
  BY <1>2, <1>3, RequestShape DEF IInv, RequestBacked
<1>7. SpentOnce'
  BY <1>2 DEF IInv, SpentOnce
<1>8. ResetOkMeansNewPassword'
  BY <1>2, <1>3, RequestShape DEF IInv, ResetOkMeansNewPassword, Exists, Idle
<1>9. StaleLoginsOverlap'
  BY <1>2, <1>3, LoginShape DEF IInv, StaleLoginsOverlap, Exists
<1> QED BY <1>4, <1>6, <1>7, <1>8, <1>9 DEF IInv

\* The steps of the Core that leave the tables of the reset alone.
LEMMA CoreKeeps ==
    ASSUME IInv,
           \/ \E u \in Users, p \in Passwords : LoginVerify(u, p)
           \/ LoginGrant \/ LoginFails \/ CoreDbLost \/ CoreRestarts
    PROVE  IInv'
<1>1. UNCHANGED <<users, resets, now, gw, spent, unmarked>>
  BY DEF LoginVerify, LoginGrant, LoginFails, CoreDbLost, CoreRestarts, histVars
<1>2. TypeOK' /\ StaleLoginsOverlap'
  <2>1. CASE \E u \in Users, p \in Passwords : LoginVerify(u, p)
    <3>1. PICK u \in Users, p \in Passwords : LoginVerify(u, p)
      BY <2>1
    <3>2. /\ core' = [user |-> u, pass |-> p] /\ overtaken' = FALSE
          /\ users[u] # NoRow /\ Verify(p, users[u].hash)
          /\ UNCHANGED <<hasSession, coreDb>>
      BY <3>1 DEF LoginVerify, Exists
    <3>3. users[u].hash.pass = p
      BY <3>2 DEF Verify, Hash
    <3> QED BY <1>1, <3>2, <3>3 DEF IInv, TypeOK, StaleLoginsOverlap, Exists
  <2>2. CASE LoginGrant
    <3>1. hasSession' \in [Users -> BOOLEAN]
      BY <2>2, LoginShape DEF IInv, TypeOK, LoginGrant
    <3> QED BY <1>1, <2>2, <3>1
               DEF IInv, TypeOK, StaleLoginsOverlap, LoginGrant, histVars
  <2>3. CASE LoginFails
    BY <1>1, <2>3 DEF IInv, TypeOK, StaleLoginsOverlap, LoginFails, histVars
  <2>4. CASE CoreDbLost
    BY <1>1, <2>4 DEF IInv, TypeOK, StaleLoginsOverlap, CoreDbLost, histVars, Exists
  <2>5. CASE CoreRestarts
    BY <1>1, <2>5 DEF IInv, TypeOK, StaleLoginsOverlap, CoreRestarts, histVars
  <2> QED BY <2>1, <2>2, <2>3, <2>4, <2>5
<1>4. RequestBacked'
  BY <1>1 DEF IInv, RequestBacked
<1>5. SpentOnce' /\ ResetOkMeansNewPassword'
  BY <1>1 DEF IInv, SpentOnce, ResetOkMeansNewPassword, Exists
<1> QED BY <1>2, <1>4, <1>5 DEF IInv

-----------------------------------------------------------------------------
LEMMA ForgotPasswordKeeps ==
    ASSUME IInv, NEW e \in Emails, NEW u \in Users, NEW t \in Tokens,
           ForgotPassword(e, u, t)
    PROVE  IInv'
<1> DEFINE row == [user |-> u, expires |-> now + Hour, used |-> FALSE]
<1>1. row \in ResetRows /\ row # NoRow /\ row.user = u
  <2>1. now + Hour \in Nat
    BY AccountConstants DEF IInv, TypeOK
  <2>2. row \in ResetRows
    BY <2>1, Zenon DEF ResetRows
  <2>3. row # NoRow
    BY <2>2, NoRowIsNoRow
  <2> QED BY <2>2, <2>3
<1>2. /\ gw = Idle /\ resets[t] = NoRow /\ users[u] # NoRow /\ users[u].email = e
      /\ resets' = [resets EXCEPT ![t] = row]
      /\ UNCHANGED <<users, now, gw, core, hasSession, coreDb>>
      /\ UNCHANGED <<spent, unmarked, overtaken>>
  BY DEF ForgotPassword, Free, Exists, coreVars, histVars
<1> HIDE DEF row
<1>3. TypeOK'
  BY <1>1, <1>2 DEF IInv, TypeOK
<1>5. SpentOnce'
  BY <1>2 DEF IInv, TypeOK, SpentOnce, Idle
<1>6. gw' = Idle /\ gw'.stage = "idle"
  BY <1>2 DEF Idle
<1>7. StaleLoginsOverlap'
  BY <1>2 DEF IInv, StaleLoginsOverlap, Exists
<1> QED BY <1>3, <1>5, <1>6, <1>7
           DEF IInv, RequestBacked, ResetOkMeansNewPassword

LEMMA ResetStartKeeps ==
    ASSUME IInv, NEW t \in Tokens, NEW p \in Passwords, ResetStart(t, p)
    PROVE  IInv'
<1>1. /\ resets[t] # NoRow /\ resets[t].user \in Users
      /\ users[resets[t].user] # NoRow
      /\ resets[t].expires \in Nat /\ resets[t].used \in BOOLEAN
  <2>1. resets[t] # NoRow /\ users[resets[t].user] # NoRow
    BY DEF ResetStart, Valid, Exists
  <2> QED BY <2>1, ResetRow DEF IInv
<1>2. /\ now <= resets[t].expires /\ ~resets[t].used /\ gw = Idle
      /\ gw' = [stage |-> "validated", token |-> t, user |-> resets[t].user,
                pass |-> p, at |-> now]
      /\ UNCHANGED <<users, resets, now, core, hasSession, coreDb>>
      /\ UNCHANGED <<spent, unmarked, overtaken>>
  BY DEF ResetStart, Valid, coreVars, histVars
<1>3. /\ gw'.stage = "validated" /\ gw'.token = t /\ gw'.user = resets[t].user
      /\ gw'.at = now
      /\ gw' \in [stage : {"validated", "changed"}, token : Tokens,
                  user : Users, pass : Passwords, at : Nat]
  BY <1>1, <1>2 DEF IInv, TypeOK
<1>4. TypeOK'
  BY <1>2, <1>3 DEF IInv, TypeOK
<1>5. StaleLoginsOverlap'
  BY <1>2 DEF IInv, StaleLoginsOverlap, Exists
<1>6. RequestBacked'
  BY <1>1, <1>2, <1>3 DEF RequestBacked
<1>7. SpentOnce'
  BY <1>2 DEF IInv, SpentOnce, Idle
<1>8. ResetOkMeansNewPassword'
  BY <1>3 DEF ResetOkMeansNewPassword
<1> QED BY <1>4, <1>5, <1>6, <1>7, <1>8 DEF IInv

-----------------------------------------------------------------------------
\* What the UPDATE of the password does to the accounts and to a login on its way.
LEMMA PasswordSetKeeps ==
    ASSUME IInv, PasswordSet
    PROVE  /\ gw # Idle /\ gw.token \in Tokens /\ gw.user \in Users
           /\ users' \in [Users -> UserRows \cup {NoRow}]
           /\ users'[gw.user] # NoRow
           /\ Verify(gw.pass, users'[gw.user].hash)
           /\ \A v \in Users : users[v] # NoRow =>
                 users'[v] # NoRow /\ users'[v].email = users[v].email
           /\ spent' \in [Tokens -> Nat]
           /\ \A t \in Tokens : t # gw.token => spent'[t] = spent[t]
           /\ overtaken' \in BOOLEAN
           /\ StaleLoginsOverlap'
<1> DEFINE h == Hash(GatewayIters, gw.pass)
<1>1. /\ gw # Idle /\ gw.token \in Tokens /\ gw.user \in Users /\ gw.pass \in Passwords
      /\ users[gw.user] # NoRow
  BY RequestShape DEF IInv, PasswordSet, RequestBacked
<1>2. h \in Hashes /\ Verify(gw.pass, h)
  BY <1>1, HashVerifies
<1>3. /\ users' = [users EXCEPT ![gw.user].hash = h]
      /\ spent' = [spent EXCEPT ![gw.token] = @ + 1]
      /\ overtaken' = (overtaken \/ core.user = gw.user)
      /\ UNCHANGED <<resets, now, core, hasSession, coreDb>>
  BY DEF PasswordSet, coreVars
<1> HIDE DEF h
<1>4. users[gw.user] \in UserRows
  BY <1>1, UserRow DEF IInv
<1> DEFINE row == [users[gw.user] EXCEPT !.hash = h]
<1>5. row \in UserRows /\ row.email = users[gw.user].email /\ row.hash = h
  BY <1>2, <1>4 DEF UserRows
<1>6. users' = [users EXCEPT ![gw.user] = row]
  BY <1>3
<1> HIDE DEF row
<1>7. users' \in [Users -> UserRows \cup {NoRow}] /\ users'[gw.user] = row
      /\ row # NoRow /\ \A v \in Users : v # gw.user => users'[v] = users[v]
  BY <1>1, <1>5, <1>6, NoRowIsNoRow DEF IInv, TypeOK
<1>8. \A v \in Users : users[v] # NoRow =>
         users'[v] # NoRow /\ users'[v].email = users[v].email
  BY <1>5, <1>7
<1>9. spent' \in [Tokens -> Nat] /\ \A t \in Tokens : t # gw.token => spent'[t] = spent[t]
  BY <1>1, <1>3 DEF IInv, TypeOK
<1>10. overtaken' \in BOOLEAN
  BY <1>3 DEF IInv, TypeOK
<1>12. StaleLoginsOverlap'
  <2> SUFFICES ASSUME core # NoLogin, ~overtaken'
               PROVE  users'[core.user] # NoRow /\ users'[core.user].hash.pass = core.pass
    BY <1>3 DEF StaleLoginsOverlap, Exists
  <2>1. ~overtaken /\ core.user # gw.user
    BY <1>3
  <2>2. core.user \in Users /\ users[core.user] # NoRow
        /\ users[core.user].hash.pass = core.pass
    BY <2>1, LoginShape DEF IInv, StaleLoginsOverlap, Exists
  <2> QED BY <2>1, <2>2, <1>7
<1> QED BY <1>1, <1>2, <1>5, <1>7, <1>8, <1>9, <1>10, <1>12

LEMMA ChangePasswordKeeps ==
    ASSUME IInv, ChangePassword
    PROVE  IInv'
<1>1. /\ PasswordSet /\ gw' = [gw EXCEPT !.stage = "changed"]
      /\ UNCHANGED <<resets, now, core, hasSession, coreDb, unmarked>>
  BY DEF ChangePassword, PasswordSet, coreVars
<1>2. /\ gw' \in [stage : {"validated", "changed"}, token : Tokens,
                  user : Users, pass : Passwords, at : Nat]
      /\ gw'.stage = "changed" /\ gw'.token = gw.token /\ gw'.user = gw.user
      /\ gw'.pass = gw.pass /\ gw'.at = gw.at
  BY <1>1, RequestShape, PasswordSetKeeps DEF IInv
<1>3. TypeOK'
  BY <1>1, <1>2, PasswordSetKeeps DEF IInv, TypeOK
<1>4. RequestBacked'
  BY <1>1, <1>2, PasswordSetKeeps DEF IInv, RequestBacked
<1>5. SpentOnce'
  BY <1>1, <1>2, PasswordSetKeeps DEF IInv, SpentOnce, PasswordSet
<1>6. ResetOkMeansNewPassword'
  BY <1>2, <1>1, PasswordSetKeeps DEF ResetOkMeansNewPassword, Exists, Verify
<1> QED BY <1>1, <1>3, <1>4, <1>5, <1>6, PasswordSetKeeps DEF IInv

LEMMA ChangePasswordUnknownKeeps ==
    ASSUME IInv, ChangePasswordUnknown
    PROVE  IInv'
<1>1. /\ PasswordSet /\ gw' = Idle /\ gw'.stage = "idle"
      /\ unmarked' = unmarked \cup {gw.token}
      /\ UNCHANGED <<resets, now, core, hasSession, coreDb>>
  BY DEF ChangePasswordUnknown, PasswordSet, coreVars, Idle
<1>2. TypeOK'
  BY <1>1, PasswordSetKeeps DEF IInv, TypeOK
<1>3. SpentOnce'
  BY <1>1, PasswordSetKeeps DEF IInv, SpentOnce, PasswordSet
<1> QED BY <1>1, <1>2, <1>3, PasswordSetKeeps
           DEF IInv, RequestBacked, ResetOkMeansNewPassword

LEMMA ChangePasswordFailsKeeps ==
    ASSUME IInv, ChangePasswordFails
    PROVE  IInv'
<1>1. /\ gw.stage = "validated" /\ gw' = Idle /\ gw'.stage = "idle"
      /\ UNCHANGED <<users, resets, now, core, hasSession, coreDb>>
      /\ UNCHANGED <<spent, unmarked, overtaken>>
  BY DEF ChangePasswordFails, coreVars, histVars, Idle
<1>2. TypeOK'
  BY <1>1 DEF IInv, TypeOK
<1>3. SpentOnce' /\ StaleLoginsOverlap'
  BY <1>1 DEF IInv, SpentOnce, StaleLoginsOverlap, Exists
<1> QED BY <1>1, <1>2, <1>3 DEF IInv, RequestBacked, ResetOkMeansNewPassword

LEMMA MarkTokenUsedKeeps ==
    ASSUME IInv, MarkTokenUsed
    PROVE  IInv'
<1>1. /\ gw # Idle /\ gw.token \in Tokens /\ gw' = Idle /\ gw'.stage = "idle"
      /\ resets' = [resets EXCEPT ![gw.token].used = TRUE]
      /\ UNCHANGED <<users, now, core, hasSession, coreDb>>
      /\ UNCHANGED <<spent, unmarked, overtaken>>
  BY RequestShape DEF IInv, MarkTokenUsed, coreVars, histVars, Idle
<1>2. resets[gw.token] # NoRow /\ resets[gw.token] \in ResetRows
  BY <1>1, ResetRow DEF IInv, RequestBacked
<1> DEFINE row == [resets[gw.token] EXCEPT !.used = TRUE]
<1>3. /\ row \in ResetRows /\ row # NoRow
      /\ row.user = resets[gw.token].user /\ row.used
  BY <1>2, NoRowIsNoRow DEF ResetRows
<1>4. resets' = [resets EXCEPT ![gw.token] = row]
  BY <1>1
<1> HIDE DEF row
<1>5. /\ resets' \in [Tokens -> ResetRows \cup {NoRow}] /\ resets'[gw.token] = row
      /\ \A t \in Tokens : t # gw.token => resets'[t] = resets[t]
  BY <1>1, <1>3, <1>4 DEF IInv, TypeOK
<1>6. TypeOK'
  BY <1>1, <1>5 DEF IInv, TypeOK
<1>8. SpentOnce'
  BY <1>1, <1>3, <1>5 DEF IInv, SpentOnce
<1>9. StaleLoginsOverlap'
  BY <1>1 DEF IInv, StaleLoginsOverlap, Exists
<1> QED BY <1>1, <1>6, <1>8, <1>9 DEF IInv, RequestBacked, ResetOkMeansNewPassword

\* The request ends without marking its token.
LEMMA RequestLostKeeps ==
    ASSUME IInv, MarkTokenUsedFails \/ GatewayRestarts
    PROVE  IInv'
<1>1. /\ gw' = Idle /\ gw'.stage = "idle"
      /\ unmarked' = IF gw.stage = "changed" THEN unmarked \cup {gw.token} ELSE unmarked
      /\ UNCHANGED <<users, resets, now, core, hasSession, coreDb>>
      /\ UNCHANGED <<spent, overtaken>>
  BY DEF MarkTokenUsedFails, GatewayRestarts, coreVars, Idle
<1>2. gw.stage = "changed" => gw.token \in Tokens
  BY RequestShape DEF IInv
<1>3. TypeOK'
  BY <1>1, <1>2 DEF IInv, TypeOK
<1>4. SpentOnce' /\ StaleLoginsOverlap'
  BY <1>1 DEF IInv, SpentOnce, StaleLoginsOverlap, Exists
<1> QED BY <1>1, <1>3, <1>4 DEF IInv, RequestBacked, ResetOkMeansNewPassword

LEMMA TickKeeps ==
    ASSUME IInv, Tick \/ UNCHANGED vars
    PROVE  IInv'
<1>1. /\ now' \in Nat
      /\ UNCHANGED <<users, resets, gw, core, hasSession, coreDb>>
      /\ UNCHANGED <<spent, unmarked, overtaken>>
  BY DEF Tick, vars, coreVars, histVars, IInv, TypeOK
<1>2. TypeOK' /\ RequestBacked'
  BY <1>1 DEF IInv, TypeOK, RequestBacked
<1>3. SpentOnce' /\ ResetOkMeansNewPassword' /\ StaleLoginsOverlap'
  BY <1>1 DEF IInv, SpentOnce, ResetOkMeansNewPassword, StaleLoginsOverlap, Exists
<1> QED BY <1>2, <1>3 DEF IInv

-----------------------------------------------------------------------------
LEMMA StepKeeps == IInv /\ [Next]_vars => IInv'
<1> SUFFICES ASSUME IInv, [Next]_vars PROVE IInv'
  OBVIOUS
<1>1. CASE CoreNext
  BY <1>1, RegisterKeeps, CoreKeeps DEF CoreNext
<1>2. CASE GatewayNext
  BY <1>2, ForgotPasswordKeeps, ResetStartKeeps, ChangePasswordKeeps,
     ChangePasswordUnknownKeeps, ChangePasswordFailsKeeps, MarkTokenUsedKeeps,
     RequestLostKeeps DEF GatewayNext
<1>3. CASE Tick \/ UNCHANGED vars
  BY <1>3, TickKeeps
<1> QED BY <1>1, <1>2, <1>3 DEF Next

LEMMA Invariant == Spec => []IInv
BY InitHolds, StepKeeps, PTL DEF Spec

(***************************************************************************)
(* Both tables and the requests in flight stay well-typed.                 *)
(***************************************************************************)
THEOREM TypeCorrect == Spec => []TypeOK
<1>1. IInv => TypeOK
  BY DEF IInv
<1> QED BY <1>1, Invariant, PTL

(***************************************************************************)
(* A token that has changed a password is marked unless marking it failed  *)
(* (routes_admin.py:242-250), for any number of tokens, requests and       *)
(* failures.                                                               *)
(***************************************************************************)
THEOREM TokensSpentOnce == Spec => []SpentOnce
<1>1. IInv => SpentOnce
  BY DEF IInv
<1> QED BY <1>1, Invariant, PTL

(***************************************************************************)
(* A reset reported as successful leaves a password that the Core accepts  *)
(* (routes_admin.py:252-256, password_hash.cpp).                           *)
(***************************************************************************)
THEOREM ResetReportsTruth == Spec => []ResetOkMeansNewPassword
<1>1. IInv => ResetOkMeansNewPassword
  BY DEF IInv
<1> QED BY <1>1, Invariant, PTL

(***************************************************************************)
(* Only a login that a reset overtook is granted with an old password      *)
(* (auth_handler.cpp:62-78).                                               *)
(***************************************************************************)
THEOREM StaleLoginsAreOvertaken == Spec => []StaleLoginsOverlap
<1>1. IInv => StaleLoginsOverlap
  BY DEF IInv
<1> QED BY <1>1, Invariant, PTL

\* The only step that changes an existing account's row is PasswordSet.
LEMMA RowsChangeByReset ==
    ASSUME IInv, Next, NEW u \in Users, users[u] # NoRow, users'[u] # users[u]
    PROVE  PasswordSet /\ u = gw.user
<1>1. CASE CoreNext
  BY <1>1 DEF CoreNext, Register, LoginVerify, LoginGrant, LoginFails, CoreDbLost,
              CoreRestarts, Exists, IInv, TypeOK
<1>2. CASE GatewayNext
  <2>1. PasswordSet
    BY <1>2 DEF GatewayNext, ForgotPassword, ResetStart, ChangePassword,
                ChangePasswordUnknown, ChangePasswordFails, MarkTokenUsed,
                MarkTokenUsedFails, GatewayRestarts
  <2> QED BY <2>1 DEF PasswordSet, IInv, TypeOK
<1>3. CASE Tick
  BY <1>3 DEF Tick
<1> QED BY <1>1, <1>2, <1>3 DEF Next

(***************************************************************************)
(* No password changes without a token made for its account, valid when it *)
(* was looked up and not marked as used since (routes_admin.py:217-250),   *)
(* whoever submits it.                                                     *)
(***************************************************************************)
THEOREM ChangesNeedToken == Spec => PasswordChangesNeedToken
<1> DEFINE Backed ==
      \A u \in Users :
        Exists(u) /\ users'[u] # users[u] =>
            /\ users'[u].email = users[u].email
            /\ \E t \in Tokens :
                  /\ resets[t] # NoRow
                  /\ resets[t].user = u
                  /\ ~resets[t].used
                  /\ gw.token = t /\ gw.at <= resets[t].expires
<1>1. IInv /\ [Next]_vars => [Backed]_vars
  <2> SUFFICES ASSUME IInv, Next, NEW u \in Users, users[u] # NoRow, users'[u] # users[u]
               PROVE  /\ users'[u].email = users[u].email
                      /\ \E t \in Tokens :
                            /\ resets[t] # NoRow
                            /\ resets[t].user = u
                            /\ ~resets[t].used
                            /\ gw.token = t /\ gw.at <= resets[t].expires
    BY DEF Exists
  <2>1. PasswordSet /\ u = gw.user
    BY RowsChangeByReset
  <2>2. gw # Idle /\ users'[u].email = users[u].email
    BY <2>1, PasswordSetKeeps
  <2>3. gw.token \in Tokens
    BY <2>1, PasswordSetKeeps
  <2> QED BY <2>1, <2>2, <2>3 DEF IInv, RequestBacked
<1>2. Spec => [][Backed]_vars
  BY <1>1, Invariant, PTL DEF Spec
<1> QED BY <1>2 DEF PasswordChangesNeedToken
=============================================================================
