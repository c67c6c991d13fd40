-------------------------- MODULE GatewaySessions --------------------------
(***************************************************************************)
(* The gateway's UserSessionManager (gateway/app/services/user_session.py) *)
(* with the /login and /logout routes, next to the Core it talks to.       *)
(*                                                                         *)
(* The gateway is one asyncio loop.  Its sockets block and none of its     *)
(* handlers suspends while it holds the lock, so a handler is atomic for   *)
(* the ping tasks and for other requests; /login alone is two steps,       *)
(* because the Core may stop between its two logins there.                 *)
(*                                                                         *)
(* A connection has a gateway end and a Core end that close independently; *)
(* its name is used again when both are closed.  Of the Core only what the *)
(* gateway can see is modelled: who is logged in on which connection       *)
(* (SessionDirectory's user), and that it notices closed connections.      *)
(***************************************************************************)
EXTENDS Naturals

CONSTANTS Users, Conns, NoUser, NoConn,
    MaxLogins       \* bound: /login requests that reach the Core

ASSUME GatewayConstants ==
    NoUser \notin Users /\ NoConn \notin Conns /\ MaxLogins \in Nat

VARIABLES
    gwOpen,         \* the gateway's end of a connection is open
    coreOpen,       \* the Core's end is open
    coreUser,       \* the user logged in there
    reset,          \* the Core's host has answered with RST
    sessions,       \* UserSessionManager.sessions
    connected,      \* UserSession.connected of the connection's session
    pinging,        \* its ping task is running
    coreUp,         \* the Core process is running
    busy,           \* the user whose /login is between login_user and create_session
    logins          \* /login requests so far

connVars == <<gwOpen, coreOpen, coreUser, reset>>
sessVars == <<sessions, connected, pinging>>
vars == <<connVars, sessVars, coreUp, busy, logins>>

TypeOK ==
    /\ gwOpen \in [Conns -> BOOLEAN]
    /\ coreOpen \in [Conns -> BOOLEAN]
    /\ coreUser \in [Conns -> Users \cup {NoUser}]
    /\ reset \in [Conns -> BOOLEAN]
    /\ sessions \in [Users -> Conns \cup {NoConn}]
    /\ connected \in [Conns -> BOOLEAN]
    /\ pinging \in [Conns -> BOOLEAN]
    /\ coreUp \in BOOLEAN
    /\ busy \in Users \cup {NoUser}
    /\ logins \in 0 .. MaxLogins

Init ==
    /\ gwOpen = [c \in Conns |-> FALSE]
    /\ coreOpen = [c \in Conns |-> FALSE]
    /\ coreUser = [c \in Conns |-> NoUser]
    /\ reset = [c \in Conns |-> FALSE]
    /\ sessions = [u \in Users |-> NoConn]
    /\ connected = [c \in Conns |-> FALSE]
    /\ pinging = [c \in Conns |-> FALSE]
    /\ coreUp = TRUE
    /\ busy = NoUser
    /\ logins = 0

Free(c) == ~gwOpen[c] /\ ~coreOpen[c]

\* The user has a session object that has not noticed a failure.
Usable(u) == sessions[u] # NoConn /\ connected[sessions[u]]

\* A LOGIN_REQ that the Core grants on connection c.
CoreLogsIn(c, u) ==
    /\ coreUp
    /\ Free(c)
    /\ coreOpen' = [coreOpen EXCEPT ![c] = TRUE]
    /\ coreUser' = [coreUser EXCEPT ![c] = u]

-----------------------------------------------------------------------------
\* POST /login: first login_user on a connection of its own, closed at the end

LoginStarts ==
    /\ busy = NoUser
    /\ logins < MaxLogins
    /\ logins' = logins + 1

\* The credentials are good; the Core still has to notice the closed connection.
LoginUser(u, c) ==
    /\ LoginStarts
    /\ CoreLogsIn(c, u)
    /\ busy' = u
    /\ UNCHANGED <<gwOpen, reset, sessVars, coreUp>>

\* The Core logs the user in, but its answer comes too late or is torn.
LoginUserTimesOut(u, c) ==
    /\ LoginStarts
    /\ CoreLogsIn(c, u)
    /\ UNCHANGED <<gwOpen, reset, sessVars, coreUp, busy>>

\* Wrong credentials, or no connection.
LoginUserFails ==
    /\ LoginStarts
    /\ UNCHANGED <<connVars, sessVars, coreUp, busy>>

-----------------------------------------------------------------------------
\* POST /login, continued: create_session

LoginEnds(u) ==
    /\ busy = u
    /\ busy' = NoUser
    /\ UNCHANGED <<coreUp, logins>>

\* A session whose flag still says connected is used as it is.
KeepSession(u) ==
    /\ Usable(u)
    /\ LoginEnds(u)
    /\ UNCHANGED <<connVars, sessVars>>

\* The gateway's ends once a disconnected session of u is deleted: nothing refers
\* to it any more, so its socket is closed.
Dropped(u) == [c \in Conns |-> gwOpen[c] /\ c # sessions[u]]

\* Mutant: the deleted session stays referenced, and its socket open.
OpenSessionLeaks(u, c) ==
    /\ ~Usable(u)
    /\ CoreLogsIn(c, u)
    /\ gwOpen' = [gwOpen EXCEPT ![c] = TRUE]
    /\ reset' = [reset EXCEPT ![c] = FALSE]
    /\ sessions' = [sessions EXCEPT ![u] = c]
    /\ connected' = [connected EXCEPT ![c] = TRUE]
    /\ pinging' = [pinging EXCEPT ![c] = TRUE]
    /\ LoginEnds(u)

\* Connect, log in, register the session, start its ping loop.
OpenSession(u, c) ==
    /\ ~Usable(u)
    /\ CoreLogsIn(c, u)
    /\ gwOpen' = [Dropped(u) EXCEPT ![c] = TRUE]
    /\ reset' = [reset EXCEPT ![c] = FALSE]
    /\ sessions' = [sessions EXCEPT ![u] = c]
    /\ connected' = [connected EXCEPT ![c] = TRUE]
    /\ pinging' = [pinging EXCEPT ![c] = TRUE]
    /\ LoginEnds(u)

\* Mutant: the missing session is registered (as None, which is no connection).
OpenSessionFailsKeepsNone(u, c) ==
    /\ ~Usable(u)
    /\ IF c = NoConn THEN UNCHANGED <<coreOpen, coreUser>> ELSE CoreLogsIn(c, u)
    /\ gwOpen' = Dropped(u)
    /\ sessions' = [sessions EXCEPT ![u] = NoUser]
    /\ LoginEnds(u)
    /\ UNCHANGED <<reset, connected, pinging>>

\* No connection, an answer that is late, torn or a refusal: the new socket is
\* closed.  The Core may have logged the user in on it (c), or not (NoConn).
\* /login reports success all the same: its answer is that of login_user.
OpenSessionFails(u, c) ==
    /\ ~Usable(u)
    /\ IF c = NoConn THEN UNCHANGED <<coreOpen, coreUser>> ELSE CoreLogsIn(c, u)
    /\ gwOpen' = Dropped(u)
    /\ sessions' = [sessions EXCEPT ![u] = NoConn]
    /\ LoginEnds(u)
    /\ UNCHANGED <<reset, connected, pinging>>

-----------------------------------------------------------------------------
\* POST /logout and the ping tasks

\* Mutant: close() does not cancel the ping task.
LogoutKeepsPing(u) ==
    LET c == sessions[u] IN
    /\ busy = NoUser
    /\ c # NoConn
    /\ gwOpen' = [gwOpen EXCEPT ![c] = FALSE]
    /\ connected' = [connected EXCEPT ![c] = FALSE]
    /\ sessions' = [sessions EXCEPT ![u] = NoConn]
    /\ UNCHANGED <<coreOpen, coreUser, reset, pinging, coreUp, busy, logins>>

\* remove_session: close the socket, cancel the ping task, forget the session.
Logout(u) ==
    LET c == sessions[u] IN
    /\ busy = NoUser
    /\ c # NoConn
    /\ gwOpen' = [gwOpen EXCEPT ![c] = FALSE]
    /\ connected' = [connected EXCEPT ![c] = FALSE]
    /\ pinging' = [pinging EXCEPT ![c] = FALSE]
    /\ sessions' = [sessions EXCEPT ![u] = NoConn]
    /\ UNCHANGED <<coreOpen, coreUser, reset, coreUp, busy, logins>>

\* A ping to a Core that has closed its end still succeeds; RST is the answer.
PingSent(c) ==
    /\ busy = NoUser
    /\ pinging[c] /\ ~coreOpen[c] /\ ~reset[c]
    /\ reset' = [reset EXCEPT ![c] = TRUE]
    /\ UNCHANGED <<gwOpen, coreOpen, coreUser, sessVars, coreUp, busy, logins>>

\* Mutant: the ping loop swallows the error and goes on.
PingFailedRetry(c) ==
    /\ busy = NoUser
    /\ pinging[c]
    /\ UNCHANGED <<connVars, sessVars, coreUp, busy, logins>>

\* sendall fails: the loop ends, the flag falls, the socket stays open.
PingFailed(c) ==
    /\ busy = NoUser
    /\ pinging[c]
    /\ connected' = [connected EXCEPT ![c] = FALSE]
    /\ pinging' = [pinging EXCEPT ![c] = FALSE]
    /\ UNCHANGED <<connVars, sessions, coreUp, busy, logins>>

PingReset(c) == reset[c] /\ PingFailed(c)

-----------------------------------------------------------------------------
\* The Core and the gateway process

\* Mutant: the Core does not remove the session of a closed connection.
CoreClosesKeepsUser(c) ==
    /\ coreOpen[c]
    /\ coreOpen' = [coreOpen EXCEPT ![c] = FALSE]
    /\ UNCHANGED <<gwOpen, coreUser, reset, sessVars, coreUp, busy, logins>>

\* The Core closes its end: it noticed the gateway's close, or the path broke.
CoreCloses(c) ==
    /\ coreOpen[c]
    /\ coreOpen' = [coreOpen EXCEPT ![c] = FALSE]
    /\ coreUser' = [coreUser EXCEPT ![c] = NoUser]
    /\ UNCHANGED <<gwOpen, reset, sessVars, coreUp, busy, logins>>

CoreNotices(c) == ~gwOpen[c] /\ CoreCloses(c)

CoreStops ==
    /\ coreUp
    /\ coreUp' = FALSE
    /\ coreOpen' = [c \in Conns |-> FALSE]
    /\ coreUser' = [c \in Conns |-> NoUser]
    /\ UNCHANGED <<gwOpen, reset, sessVars, busy, logins>>

CoreStarts ==
    /\ ~coreUp
    /\ coreUp' = TRUE
    /\ UNCHANGED <<connVars, sessVars, busy, logins>>

\* The gateway process ends and starts again with no sessions.
GatewayRestarts ==
    /\ gwOpen' = [c \in Conns |-> FALSE]
    /\ sessions' = [u \in Users |-> NoConn]
    /\ connected' = [c \in Conns |-> FALSE]
    /\ pinging' = [c \in Conns |-> FALSE]
    /\ busy' = NoUser
    /\ UNCHANGED <<coreOpen, coreUser, reset, coreUp, logins>>

CreateSession(u) ==
    \/ KeepSession(u)
    \/ \E c \in Conns : OpenSession(u, c)
    \/ \E c \in Conns \cup {NoConn} : OpenSessionFails(u, c)

Next ==
    \/ \E u \in Users :
          \/ \E c \in Conns : LoginUser(u, c) \/ LoginUserTimesOut(u, c)
          \/ CreateSession(u)
          \/ Logout(u)
    \/ \E c \in Conns : PingSent(c) \/ PingFailed(c) \/ CoreCloses(c)
    \/ LoginUserFails
    \/ CoreStops \/ CoreStarts \/ GatewayRestarts

Spec == Init /\ [][Next]_vars

\* A started /login ends (every socket call has a timeout); the Core's event loop
\* handles a closed connection; asyncio runs a ping whose time has come between
\* two requests, however many there are, so its fairness is strong.
Fairness ==
    /\ \A u \in Users : WF_vars(CreateSession(u))
    /\ \A c \in Conns :
          /\ WF_vars(CoreNotices(c))
          /\ SF_vars(PingSent(c) \/ PingReset(c))

FairSpec == Spec /\ Fairness

-----------------------------------------------------------------------------
\* GET /online: the Core's list, when it answers, and the gateway's own.
OnlineUsers ==
    {u \in Users : \/ coreUp /\ \E c \in Conns : coreUser[c] = u
                   \/ Usable(u)}

(***************************************************************************)
(* The gateway's open sockets are exactly those of the sessions it knows,  *)
(* one per user: no path through login, logout, failed pings and failed    *)
(* logins leaves a socket open that keeps a user online on the Core after  *)
(* logout (user_session.py:78-161).                                        *)
(***************************************************************************)
SocketsAccounted ==
    /\ \A c \in Conns : gwOpen[c] <=> \E u \in Users : sessions[u] = c
    /\ \A u, v \in Users : sessions[u] = sessions[v] /\ u # v => sessions[u] = NoConn

(***************************************************************************)
(* A ping task runs exactly for the sessions the manager counts as         *)
(* connected: none survives its session, and no connected session is       *)
(* without the task that would notice its end (user_session.py:30-64,      *)
(* 125-128, 147-158).                                                      *)
(***************************************************************************)
PingsMatchSessions ==
    \A c \in Conns : pinging[c] <=> connected[c] /\ \E u \in Users : sessions[u] = c

(***************************************************************************)
(* A user without a session leaves /online, although /login leaves         *)
(* connections behind that only the Core can clean up                      *)
(* (user_session.py:145-158, core_client.py:344-346).                      *)
(***************************************************************************)
LoggedOutLeavesList ==
    \A u \in Users :
        <>[](sessions[u] = NoConn) => <>[](u \notin OnlineUsers)

(***************************************************************************)
(* A session whose Core end is gone does not count as connected for ever:  *)
(* its ping loop finds out (user_session.py:32-45).                        *)
(***************************************************************************)
DeadSessionNoticed ==
    \A u \in Users, c \in Conns :
        (sessions[u] = c /\ connected[c] /\ ~coreOpen[c])
            ~> ~(sessions[u] = c /\ connected[c])
=============================================================================
