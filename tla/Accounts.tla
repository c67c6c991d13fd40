------------------------------ MODULE Accounts ------------------------------
(***************************************************************************)
(* Registration and login in the Core (auth_handler.cpp and the            *)
(* repositories) and password reset in the gateway (routes_admin.py,       *)
(* password_reset.py) over one Postgres database.                          *)
(*                                                                         *)
(* Each process works on one request at a time, but the two interleave     *)
(* between their database calls, a call may fail or take effect without    *)
(* the caller learning of it, time passes, and both processes may stop.    *)
(* Requests that are refused leave every variable unchanged: they are      *)
(* stuttering steps, and the conditions for refusing are the guards.       *)
(***************************************************************************)
EXTENDS Naturals

CONSTANTS Users, Emails, Passwords, NoRow, NoUser, NoPass,
    Short,          \* passwords of 1 to 5 characters
    Long,           \* passwords of more than 128 characters
    Hour,           \* ticks of the clock in an hour
    MaxTokens,      \* bound: reset tokens created
    MaxUses,        \* bound: password changes with one token
    MaxTime         \* bound: ticks of the clock

ASSUME AccountConstants ==
    /\ Short \subseteq Passwords
    /\ Long \subseteq Passwords
    /\ NoUser \notin Users
    /\ NoPass \notin Passwords
    /\ Hour \in Nat /\ MaxTokens \in Nat /\ MaxUses \in Nat /\ MaxTime \in Nat

CoreIters == 120000
GatewayIters == 100000

NoToken == 0
Tokens == 1 .. MaxTokens

\* A stored pass_hash: the iteration count and, in place of the salt and the
\* derived key, the password that yields the key (PBKDF2 as an ideal hash).
Hashes == [iters : {CoreIters, GatewayIters}, pass : Passwords]
UserRows == [email : Emails, hash : Hashes]
ResetRows == [user : Users, expires : Nat, used : BOOLEAN]

ASSUME NoRowIsNoRow == NoRow \notin UserRows \cup ResetRows

VARIABLES
    users,          \* table users, by username
    resets,         \* table password_reset_tokens
    now,            \* the clock
    gw,             \* the gateway's request to /reset-password
    core,           \* the Core's login between SELECT and INSERT
    hasSession,     \* users with a row in table sessions
    coreDb,         \* PQstatus of the Core's only connection is CONNECTION_OK
    spent,          \* history: committed password changes with each token
    unmarked,       \* history: tokens not marked after a change (failure, crash)
    overtaken       \* history: the password changed during the Core's login

coreVars == <<core, hasSession, coreDb>>
histVars == <<spent, unmarked, overtaken>>
vars == <<users, resets, now, gw, coreVars, histVars>>

Idle == [stage |-> "idle", token |-> NoToken, user |-> NoUser, pass |-> NoPass,
         at |-> 0]
NoLogin == [user |-> NoUser, pass |-> NoPass]

TypeOK ==
    /\ users \in [Users -> UserRows \cup {NoRow}]
    /\ resets \in [Tokens -> ResetRows \cup {NoRow}]
    /\ now \in Nat
    /\ gw \in {Idle} \cup [stage : {"validated", "changed"}, token : Tokens,
                           user : Users, pass : Passwords, at : Nat]
    /\ core \in {NoLogin} \cup [user : Users, pass : Passwords]
    /\ hasSession \in [Users -> BOOLEAN]
    /\ coreDb \in BOOLEAN
    /\ spent \in [Tokens -> Nat]
    /\ unmarked \in SUBSET Tokens
    /\ overtaken \in BOOLEAN

Init ==
    /\ users = [u \in Users |-> NoRow]
    /\ resets = [t \in Tokens |-> NoRow]
    /\ now = 0
    /\ gw = Idle
    /\ core = NoLogin
    /\ hasSession = [u \in Users |-> FALSE]
    /\ coreDb = TRUE
    /\ spent = [t \in Tokens |-> 0]
    /\ unmarked = {}
    /\ overtaken = FALSE

Exists(u) == users[u] # NoRow

\* Mutant: the fields of the stored string are swapped.
HashSwapped(iters, p) == [iters |-> p, pass |-> iters]

\* hash_password_pbkdf2, and its copy in change_user_password.
Hash(iters, p) == [iters |-> iters, pass |-> p]

\* Mutant: verify_password_pbkdf2 derives with the Core's own iteration count.
VerifyOwnIters(p, h) == h = Hash(CoreIters, p)

\* verify_password_pbkdf2 derives the key again with the stored salt and count.
Verify(p, h) == h = Hash(h.iters, p)

-----------------------------------------------------------------------------
\* The Core.  Only the Core inserts users, so the SELECT and the INSERT of a
\* registration are one step; the database keeps emails unique.

\* users.email is UNIQUE: otherwise the INSERT fails.
EmailFree(e) == \A v \in Users : Exists(v) => users[v].email # e

\* handle_register, accepted.
Register(u, e, p) ==
    /\ coreDb
    /\ core = NoLogin
    /\ p \notin Long
    /\ ~Exists(u)
    /\ EmailFree(e)
    /\ users' = [users EXCEPT ![u] = [email |-> e, hash |-> Hash(CoreIters, p)]]
    /\ UNCHANGED <<resets, now, gw, coreVars, histVars>>

\* Mutant: the password is not verified.
LoginVerifySkipped(u, p) ==
    /\ coreDb
    /\ core = NoLogin
    /\ Exists(u)
    /\ core' = [user |-> u, pass |-> p]
    /\ overtaken' = FALSE
    /\ UNCHANGED <<users, resets, now, gw, hasSession, coreDb, spent, unmarked>>

\* handle_login up to the verified password.
LoginVerify(u, p) ==
    /\ coreDb
    /\ core = NoLogin
    /\ Exists(u)
    /\ Verify(p, users[u].hash)
    /\ core' = [user |-> u, pass |-> p]
    /\ overtaken' = FALSE
    /\ UNCHANGED <<users, resets, now, gw, hasSession, coreDb, spent, unmarked>>

\* SessionRepository::create_session.
LoginGrant ==
    /\ core # NoLogin
    /\ coreDb
    /\ hasSession' = [hasSession EXCEPT ![core.user] = TRUE]
    /\ core' = NoLogin
    /\ UNCHANGED <<users, resets, now, gw, coreDb, histVars>>

\* create_session throws: "login failed".
LoginFails ==
    /\ core # NoLogin
    /\ ~coreDb
    /\ core' = NoLogin
    /\ UNCHANGED <<users, resets, now, gw, hasSession, coreDb, histVars>>

\* The connection breaks.  Nothing calls Db::connect again: every later query
\* throws "DB not connected".
CoreDbLost ==
    /\ coreDb
    /\ coreDb' = FALSE
    /\ UNCHANGED <<users, resets, now, gw, core, hasSession, histVars>>

CoreRestarts ==
    /\ coreDb' = TRUE
    /\ core' = NoLogin
    /\ UNCHANGED <<users, resets, now, gw, hasSession, histVars>>

-----------------------------------------------------------------------------
\* The gateway: POST /forgot-password

Free(t) == resets[t] = NoRow /\ \A s \in Tokens : s < t => resets[s] # NoRow

\* create_reset_token commits.  Whether the link then reaches anybody (by mail, by
\* the log when SMTP is off, out of the database) or not (the acknowledgement of
\* the commit is lost, SMTP fails, the gateway stops) changes no state of the system.
ForgotPassword(e, u, t) ==
    /\ gw = Idle
    /\ Free(t)
    /\ Exists(u)
    /\ users[u].email = e
    /\ resets' = [resets EXCEPT ![t] =
                     [user |-> u, expires |-> now + Hour, used |-> FALSE]]
    /\ UNCHANGED <<users, now, gw, coreVars, histVars>>

-----------------------------------------------------------------------------
\* The gateway: POST /reset-password, one step per database call

\* Mutant: the expiry is not compared.
ValidNoExpiry(t) ==
    /\ resets[t] # NoRow
    /\ Exists(resets[t].user)
    /\ ~resets[t].used

\* validate_reset_token finds the row, not expired and not used.
Valid(t) ==
    /\ resets[t] # NoRow
    /\ Exists(resets[t].user)
    /\ now <= resets[t].expires
    /\ ~resets[t].used

\* The token is valid and the new password long enough.
ResetStart(t, p) ==
    /\ gw = Idle
    /\ spent[t] < MaxUses
    /\ Valid(t)
    /\ p \notin Short
    /\ gw' = [stage |-> "validated", token |-> t, user |-> resets[t].user,
              pass |-> p, at |-> now]
    /\ UNCHANGED <<users, resets, now, coreVars, histVars>>

\* The UPDATE of change_user_password takes effect.
PasswordSet ==
    /\ gw.stage = "validated"
    /\ users' = [users EXCEPT ![gw.user].hash = Hash(GatewayIters, gw.pass)]
    /\ spent' = [spent EXCEPT ![gw.token] = @ + 1]
    /\ overtaken' = (overtaken \/ core.user = gw.user)
    /\ UNCHANGED <<resets, now, coreVars>>

\* change_user_password returns True.
ChangePassword ==
    /\ PasswordSet
    /\ gw' = [gw EXCEPT !.stage = "changed"]
    /\ UNCHANGED unmarked

\* The commit takes effect and its acknowledgement is lost: the request ends
\* with "Failed to update password".
ChangePasswordUnknown ==
    /\ PasswordSet
    /\ gw' = Idle
    /\ unmarked' = unmarked \cup {gw.token}

\* The call fails without effect.
ChangePasswordFails ==
    /\ gw.stage = "validated"
    /\ gw' = Idle
    /\ UNCHANGED <<users, resets, now, coreVars, histVars>>

\* Mutant: the UPDATE is not committed.
MarkTokenUsedUncommitted ==
    /\ gw.stage = "changed"
    /\ gw' = Idle
    /\ UNCHANGED <<users, resets, now, coreVars, histVars>>

\* mark_token_used commits (acknowledged or not); the request ends with success.
MarkTokenUsed ==
    /\ gw.stage = "changed"
    /\ resets' = [resets EXCEPT ![gw.token].used = TRUE]
    /\ gw' = Idle
    /\ UNCHANGED <<users, now, coreVars, histVars>>

\* mark_token_used fails; its result is not looked at.
MarkTokenUsedFails ==
    /\ gw.stage = "changed"
    /\ gw' = Idle
    /\ unmarked' = unmarked \cup {gw.token}
    /\ UNCHANGED <<users, resets, now, coreVars, spent, overtaken>>

\* The gateway stops in the middle of the request and starts again.
GatewayRestarts ==
    /\ gw # Idle
    /\ gw' = Idle
    /\ unmarked' = IF gw.stage = "changed" THEN unmarked \cup {gw.token} ELSE unmarked
    /\ UNCHANGED <<users, resets, now, coreVars, spent, overtaken>>

Tick ==
    /\ now < MaxTime
    /\ now' = now + 1
    /\ UNCHANGED <<users, resets, gw, coreVars, histVars>>

CoreNext ==
    \/ \E u \in Users, e \in Emails, p \in Passwords : Register(u, e, p)
    \/ \E u \in Users, p \in Passwords : LoginVerify(u, p)
    \/ LoginGrant \/ LoginFails \/ CoreDbLost \/ CoreRestarts

\* Anybody may submit any token.
GatewayNext ==
    \/ \E e \in Emails, u \in Users, t \in Tokens : ForgotPassword(e, u, t)
    \/ \E t \in Tokens, p \in Passwords : ResetStart(t, p)
    \/ ChangePassword \/ ChangePasswordUnknown \/ ChangePasswordFails
    \/ MarkTokenUsed \/ MarkTokenUsedFails
    \/ GatewayRestarts

Next == CoreNext \/ GatewayNext \/ Tick

Spec == Init /\ [][Next]_vars

-----------------------------------------------------------------------------
(***************************************************************************)
(* A stored password changes only in a request that carries a token made   *)
(* for this very account, looked up within the token's hour ("This link    *)
(* will expire in 1 hour", email_service.py:61) and still not marked as    *)
(* used when the password changes; the address never changes               *)
(* (routes_admin.py:217-250).  Who carries the token the code cannot tell: *)
(* with SMTP off the link is in the log (email_service.py:40-48).          *)
(***************************************************************************)
PasswordChangesNeedToken ==
    [][\A u \in Users :
        Exists(u) /\ users'[u] # users[u] =>
            /\ users'[u].email = users[u].email
            /\ \E t \in Tokens :
                  /\ resets[t] # NoRow
                  /\ resets[t].user = u
                  /\ ~resets[t].used
                  /\ gw.token = t /\ gw.at <= resets[t].expires]_vars

(***************************************************************************)
(* A token is spent once: a token that has changed a password is marked,   *)
(* is about to be marked by the request that used it, or could not be      *)
(* marked because the database call failed or the gateway stopped          *)
(* (routes_admin.py:242-250 ignores the result of mark_token_used).        *)
(***************************************************************************)
SpentOnce ==
    \A t \in Tokens : spent[t] > 0 =>
        \/ resets[t] # NoRow /\ resets[t].used
        \/ gw.stage = "changed" /\ gw.token = t
        \/ t \in unmarked

(***************************************************************************)
(* "Password has been reset successfully. You can now login with your new  *)
(* password." (routes_admin.py:255): when a request gets that answer the   *)
(* Core accepts the new password, although the gateway derives it with     *)
(* another iteration count than the Core (password_reset.py:182).          *)
(***************************************************************************)
ResetOkMeansNewPassword ==
    gw.stage = "changed" =>
        Exists(gw.user) /\ Verify(gw.pass, users[gw.user].hash)

(***************************************************************************)
(* A login that the Core is about to grant was made with the account's     *)
(* current password, unless a reset committed after the Core had read the  *)
(* old one (auth_handler.cpp:62-78).                                       *)
(***************************************************************************)
StaleLoginsOverlap ==
    core # NoLogin /\ ~overtaken =>
        Exists(core.user) /\ users[core.user].hash.pass = core.pass
=============================================================================
