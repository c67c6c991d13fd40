----------------------- MODULE GatewaySessionsProofs -----------------------
(***************************************************************************)
(* Proofs about GatewaySessions for any users, connections and bounds.     *)
(***************************************************************************)
EXTENDS GatewaySessions, TLAPS

IInv == TypeOK /\ SocketsAccounted /\ PingsMatchSessions

LEMMA InitHolds == Init => IInv
BY GatewayConstants DEF Init, IInv, TypeOK, SocketsAccounted, PingsMatchSessions

\* A login on the Core touches the Core's end only.
LEMMA CoreLogsInType ==
    ASSUME TypeOK, NEW u \in Users, NEW c \in Conns, CoreLogsIn(c, u)
    PROVE  /\ ~gwOpen[c]
           /\ coreOpen' \in [Conns -> BOOLEAN]
           /\ coreUser' \in [Conns -> Users \cup {NoUser}]
BY DEF TypeOK, CoreLogsIn, Free

\* Steps that leave the gateway's sessions and sockets alone.
LEMMA OtherStepsKeep ==
    ASSUME IInv, TypeOK', UNCHANGED <<gwOpen, sessions, connected, pinging>>
    PROVE  IInv'
BY DEF IInv, SocketsAccounted, PingsMatchSessions

LEMMA LoginStartsKeep ==
    ASSUME IInv, NEW u \in Users, NEW c \in Conns,
           LoginUser(u, c) \/ LoginUserTimesOut(u, c)
    PROVE  IInv'
<1>1. logins' \in 0 .. MaxLogins
  BY GatewayConstants
     DEF IInv, TypeOK, LoginUser, LoginUserTimesOut, LoginStarts
<1>2. /\ UNCHANGED <<gwOpen, reset, coreUp>>
      /\ UNCHANGED <<sessions, connected, pinging>>
      /\ busy' \in Users \cup {NoUser}
  BY DEF IInv, TypeOK, LoginUser, LoginUserTimesOut, sessVars
<1>3. coreOpen' \in [Conns -> BOOLEAN] /\ coreUser' \in [Conns -> Users \cup {NoUser}]
  BY CoreLogsInType DEF IInv, TypeOK, LoginUser, LoginUserTimesOut
<1>4. TypeOK'
  BY <1>1, <1>2, <1>3 DEF IInv, TypeOK
<1> QED BY <1>2, <1>4, OtherStepsKeep

LEMMA KeepSessionKeeps ==
    ASSUME IInv, NEW u \in Users, KeepSession(u)
    PROVE  IInv'
<1>1. TypeOK' /\ UNCHANGED <<gwOpen, sessions, connected, pinging>>
  BY DEF IInv, TypeOK, KeepSession, LoginEnds, connVars, sessVars
<1> QED BY <1>1, OtherStepsKeep

LEMMA OpenSessionKeeps ==
    ASSUME IInv, NEW u \in Users, NEW c \in Conns, OpenSession(u, c)
    PROVE  IInv'
<1> USE DEF IInv
<1>1. /\ ~gwOpen[c] /\ ~Usable(u)
      /\ gwOpen' = [Dropped(u) EXCEPT ![c] = TRUE]
      /\ sessions' = [sessions EXCEPT ![u] = c]
      /\ connected' = [connected EXCEPT ![c] = TRUE]
      /\ pinging' = [pinging EXCEPT ![c] = TRUE]
  BY CoreLogsInType DEF OpenSession
<1>2. TypeOK'
  BY CoreLogsInType DEF TypeOK, OpenSession, LoginEnds, Dropped
<1>3. \A v \in Users : sessions[v] # c
  BY <1>1 DEF SocketsAccounted
<1>4. SocketsAccounted'
  BY <1>1, <1>3, GatewayConstants DEF TypeOK, SocketsAccounted, Dropped
<1>5. PingsMatchSessions'
  <2> SUFFICES ASSUME NEW d \in Conns
               PROVE  pinging'[d] <=> connected'[d] /\ \E v \in Users : sessions'[v] = d
    BY DEF PingsMatchSessions
  <2>1. CASE d = c
    BY <1>1, <2>1 DEF TypeOK
  <2>2. CASE d # c
    <3>1. pinging'[d] = pinging[d] /\ connected'[d] = connected[d]
      BY <1>1, <2>2 DEF TypeOK
    <3>2. CASE sessions[u] = d
      <4>1. ~connected[d]
        BY <1>1, <3>2, GatewayConstants DEF Usable
      <4> QED BY <3>1, <4>1 DEF PingsMatchSessions
    <3>3. CASE sessions[u] # d
      <4>1. (\E v \in Users : sessions'[v] = d) <=> \E v \in Users : sessions[v] = d
        BY <1>1, <2>2, <3>3 DEF TypeOK
      <4> QED BY <3>1, <4>1 DEF PingsMatchSessions
    <3> QED BY <3>2, <3>3
  <2> QED BY <2>1, <2>2
<1> QED BY <1>2, <1>4, <1>5

LEMMA OpenSessionFailsKeeps ==
    ASSUME IInv, NEW u \in Users, NEW c \in Conns \cup {NoConn}, OpenSessionFails(u, c)
    PROVE  IInv'
<1> USE DEF IInv
<1>1. /\ ~Usable(u)
      /\ gwOpen' = Dropped(u)
      /\ sessions' = [sessions EXCEPT ![u] = NoConn]
      /\ UNCHANGED <<reset, connected, pinging, coreUp, logins>>
      /\ busy' = NoUser
  BY DEF OpenSessionFails, LoginEnds
<1>2. coreOpen' \in [Conns -> BOOLEAN] /\ coreUser' \in [Conns -> Users \cup {NoUser}]
  BY CoreLogsInType DEF TypeOK, OpenSessionFails
<1>3. TypeOK'
  BY <1>1, <1>2 DEF TypeOK, Dropped
<1>4. SocketsAccounted'
  <2>1. \A v \in Users : sessions'[v] = IF v = u THEN NoConn ELSE sessions[v]
    BY <1>1 DEF TypeOK
  <2>2. ASSUME NEW d \in Conns
        PROVE  gwOpen'[d] <=> \E v \in Users : sessions'[v] = d
    <3>1. gwOpen'[d] <=> gwOpen[d] /\ d # sessions[u]
      BY <1>1 DEF Dropped
    <3>2. (\E v \in Users : sessions'[v] = d)
             <=> \E v \in Users : v # u /\ sessions[v] = d
      BY <2>1, GatewayConstants
    <3>3. \A v \in Users : v # u /\ sessions[v] = d => sessions[u] # d
      BY GatewayConstants DEF SocketsAccounted
    <3> QED BY <3>1, <3>2, <3>3 DEF SocketsAccounted
  <2>3. \A v, w \in Users :
           sessions'[v] = sessions'[w] /\ v # w => sessions'[v] = NoConn
    BY <2>1 DEF SocketsAccounted
  <2> QED BY <2>2, <2>3 DEF SocketsAccounted
<1>5. PingsMatchSessions'
  BY <1>1, GatewayConstants DEF TypeOK, PingsMatchSessions, Usable
<1> QED BY <1>3, <1>4, <1>5

LEMMA LogoutKeeps ==
    ASSUME IInv, NEW u \in Users, Logout(u)
    PROVE  IInv'
<1> USE DEF IInv
<1>1. sessions[u] \in Conns /\ \A v \in Users : v # u => sessions[v] # sessions[u]
  BY DEF Logout, TypeOK, SocketsAccounted
<1>2. TypeOK'
  BY <1>1 DEF Logout, TypeOK
<1>3. SocketsAccounted'
  BY <1>1, GatewayConstants DEF Logout, TypeOK, SocketsAccounted
<1>4. PingsMatchSessions'
  BY <1>1, GatewayConstants DEF Logout, TypeOK, PingsMatchSessions
<1> QED BY <1>2, <1>3, <1>4

LEMMA PingFailedKeeps ==
    ASSUME IInv, NEW c \in Conns, PingFailed(c)
    PROVE  IInv'
BY DEF IInv, TypeOK, SocketsAccounted, PingsMatchSessions, PingFailed, connVars

\* Pings that succeed and what the Core does.
LEMMA CoreKeeps ==
    ASSUME IInv,
           \/ \E c \in Conns : PingSent(c) \/ CoreCloses(c)
           \/ CoreStops \/ CoreStarts
    PROVE  IInv'
<1>1. TypeOK' /\ UNCHANGED <<gwOpen, sessions, connected, pinging>>
  BY DEF IInv, TypeOK, PingSent, CoreCloses, CoreStops, CoreStarts, connVars, sessVars
<1> QED BY <1>1, OtherStepsKeep

LEMMA GatewayRestartsKeeps ==
    ASSUME IInv, GatewayRestarts
    PROVE  IInv'
BY GatewayConstants
   DEF IInv, TypeOK, SocketsAccounted, PingsMatchSessions, GatewayRestarts

LEMMA StepKeeps == IInv /\ [Next]_vars => IInv'
<1> SUFFICES ASSUME IInv, [Next]_vars PROVE IInv'
  OBVIOUS
<1>1. CASE UNCHANGED vars
  BY <1>1 DEF IInv, TypeOK, SocketsAccounted, PingsMatchSessions, vars, connVars, sessVars
<1>2. ASSUME NEW u \in Users, CreateSession(u)
      PROVE  IInv'
  BY <1>2, KeepSessionKeeps, OpenSessionKeeps, OpenSessionFailsKeeps DEF CreateSession
<1>3. CASE LoginUserFails
  <2>1. TypeOK' /\ UNCHANGED <<gwOpen, sessions, connected, pinging>>
    BY <1>3, GatewayConstants
       DEF IInv, TypeOK, LoginUserFails, LoginStarts, connVars, sessVars
  <2> QED BY <2>1, OtherStepsKeep
<1> QED BY <1>1, <1>2, <1>3, LoginStartsKeep, LogoutKeeps, PingFailedKeeps, CoreKeeps,
           GatewayRestartsKeeps DEF Next

LEMMA Invariant == Spec => []IInv
BY InitHolds, StepKeeps, PTL DEF Spec

(***************************************************************************)
(* The manager's map, flags and tasks stay well-typed.                     *)
(***************************************************************************)
THEOREM TypeCorrect == Spec => []TypeOK
<1>1. IInv => TypeOK
  BY DEF IInv
<1> QED BY <1>1, Invariant, PTL

(***************************************************************************)
(* The gateway leaks no socket and shares none between two users           *)
(* (user_session.py:78-161).                                               *)
(***************************************************************************)
THEOREM NoSocketLeaks == Spec => []SocketsAccounted
<1>1. IInv => SocketsAccounted
  BY DEF IInv
<1> QED BY <1>1, Invariant, PTL

(***************************************************************************)
(* Ping tasks and connected sessions correspond one to one                 *)
(* (user_session.py:30-64).                                                *)
(***************************************************************************)
THEOREM PingTasksMatch == Spec => []PingsMatchSessions
<1>1. IInv => PingsMatchSessions
  BY DEF IInv
<1> QED BY <1>1, Invariant, PTL
=============================================================================
