-------------------------- MODULE SessionDirectory --------------------------
(***************************************************************************)
(* What the Core server promises about logged-in sessions, seen from the   *)
(* outside: which connection is authenticated as whom, and which           *)
(* connection SessionManager::get_session(token) returns for a token.      *)
(*                                                                         *)
(* CoreSessions (TcpSession + SessionManager, with their read loop, write  *)
(* queue and weak pointers) implements this specification; FileTransfer    *)
(* builds on it.                                                           *)
(***************************************************************************)
EXTENDS Naturals

CONSTANTS
    Conns,      \* TCP connections (TcpSession objects)
    Users,      \* rows of the users table
    NoConn,     \* the null session pointer
    NoUser,     \* user_id_ = 0, username_ = ""
    MaxLogins   \* bound: how many tokens SessionRepository hands out

ASSUME NoConnAssumption == NoConn \notin Conns
ASSUME NoUserAssumption == NoUser \notin Users
ASSUME MaxLoginsAssumption == MaxLogins \in Nat

VARIABLES
    token,      \* token_ of each connection, NoToken when not authenticated
    user,       \* user_id_ / username_ of each connection
    holder,     \* what get_session(token) returns: a live session or null
    issued      \* tokens handed out so far; the tokens are 1 .. issued

dirVars == <<token, user, holder, issued>>

NoToken == 0
Tokens == 1 .. MaxLogins

DirTypeOK ==
    /\ token \in [Conns -> Tokens \cup {NoToken}]
    /\ user \in [Conns -> Users \cup {NoUser}]
    /\ holder \in [Tokens -> Conns \cup {NoConn}]
    /\ issued \in 0 .. MaxLogins

DirInit ==
    /\ token = [c \in Conns |-> NoToken]
    /\ user = [c \in Conns |-> NoUser]
    /\ holder = [t \in Tokens |-> NoConn]
    /\ issued = 0

IsAuthenticated(c) == token[c] # NoToken

\* A successful LOGIN_REQ: a token never used before now leads to c.  Tokens
\* from earlier logins of the same connection keep leading to it.
LogIn(c, u) ==
    /\ issued < MaxLogins
    /\ issued' = issued + 1
    /\ token' = [token EXCEPT ![c] = issued + 1]
    /\ user' = [user EXCEPT ![c] = u]
    /\ holder' = [holder EXCEPT ![issued + 1] = c]

\* A read or write error on a connection whose TcpSession stays alive because
\* its other operation is still outstanding: the current token is forgotten.
LoseAuth(c) ==
    /\ IsAuthenticated(c)
    /\ token' = [token EXCEPT ![c] = NoToken]
    /\ user' = [user EXCEPT ![c] = NoUser]
    /\ holder' = [holder EXCEPT ![token[c]] = NoConn]
    /\ UNCHANGED issued

\* The TcpSession is destroyed: no token leads to it any more.
Vanish(c) ==
    /\ token' = [token EXCEPT ![c] = NoToken]
    /\ user' = [user EXCEPT ![c] = NoUser]
    /\ holder' = [t \in Tokens |-> IF holder[t] = c THEN NoConn ELSE holder[t]]
    /\ UNCHANGED issued

DirNext ==
    \E c \in Conns :
        \/ \E u \in Users : LogIn(c, u)
        \/ LoseAuth(c)
        \/ Vanish(c)

DirSpec == DirInit /\ [][DirNext]_dirVars
=============================================================================
