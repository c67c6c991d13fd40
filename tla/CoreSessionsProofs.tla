------------------------- MODULE CoreSessionsProofs -------------------------
(***************************************************************************)
(* Proofs about CoreSessions, for any sets of connections and users and    *)
(* any bounds: its invariants, and that it implements SessionDirectory.    *)
(***************************************************************************)
EXTENDS CoreSessions, TLAPS

(***************************************************************************)
(* The inductive invariant.  FreshConn: nothing refers to a connection that*)
(* was not accepted yet, so accepting it cannot bring an old login back.   *)
(* TokensIssued: the next token is in use nowhere.                         *)
(***************************************************************************)
FreshConn ==
    \A c \in Conns : peer[c] = "none" =>
        /\ ~reading[c] /\ writing[c] = 0
        /\ token[c] = NoToken /\ user[c] = NoUser
        /\ \A t \in Tokens : sessions[t] # c

TokensIssued ==
    /\ \A c \in Conns : token[c] <= issued
    /\ \A t \in Tokens : sessions[t] # NoConn => t <= issued

IInv == TypeOK /\ AuthRegistered /\ WritesSerialized /\ FreshConn /\ TokensIssued

-----------------------------------------------------------------------------
\* Pushing frames keeps the writes of every session serialized.
LEMMA SendsWrites ==
    ASSUME NEW n \in [Conns -> 0 .. 2], TypeOK, WritesSerialized, Sends(n),
           UNCHANGED writeFailed
    PROVE  /\ outq' \in [Conns -> Nat]
           /\ writing' \in [Conns -> Nat]
           /\ WritesSerialized'
BY DEF TypeOK, WritesSerialized, Sends

LEMMA OneToType ==
    ASSUME NEW c \in Conns, NEW d \in Conns
    PROVE  /\ OneTo(c) \in [Conns -> 0 .. 2]
           /\ OneToEach(c, d) \in [Conns -> 0 .. 2]
BY DEF OneTo, OneToEach

LEMMA GetSessionType ==
    ASSUME TypeOK, NEW t \in Tokens, GetSession(t) # NoConn
    PROVE  GetSession(t) \in Conns /\ Alive(GetSession(t))
BY DEF TypeOK, GetSession

-----------------------------------------------------------------------------
LEMMA TypeInit == Init => TypeOK
BY CoreBounds DEF Init, TypeOK, Tokens, NoToken

LEMMA ForgetType ==
    ASSUME TypeOK, NEW c \in Conns, Forget(c)
    PROVE  /\ token' \in [Conns -> Tokens \cup {NoToken}]
           /\ user' \in [Conns -> Users \cup {NoUser}]
           /\ sessions' \in [Tokens -> Conns \cup {NoConn}]
           /\ issued' \in 0 .. MaxLogins
           /\ tokenUser' \in [Tokens -> Users \cup {NoUser}]
BY DEF TypeOK, Forget, Swept, IsAuthenticated

\* The cleanup of an error path touches its own session's login only.
LEMMA ForgetKeeps ==
    ASSUME IInv, NEW c \in Conns, Alive(c), Forget(c),
           \A d \in Conns : Alive(d)' => Alive(d),
           \A d \in Conns : peer'[d] = "none" => peer[d] = "none",
           \A d \in Conns : peer[d] = "none" => ~reading'[d] /\ writing'[d] = 0
    PROVE  AuthRegistered' /\ FreshConn' /\ TokensIssued'
<1> USE DEF IInv
<1>1. CASE ~IsAuthenticated(c)
  <2>1. UNCHANGED authVars
    BY <1>1 DEF Forget, authVars
  <2>2. AuthRegistered'
    BY <2>1 DEF AuthRegistered, IsAuthenticated, authVars
  <2>3. FreshConn' /\ TokensIssued'
    BY <2>1 DEF FreshConn, TokensIssued, authVars
  <2> QED BY <2>2, <2>3
<1>2. CASE IsAuthenticated(c)
  <2>1. /\ token[c] \in Tokens
        /\ sessions' = [Swept(sessions) EXCEPT ![token[c]] = NoConn]
        /\ token' = [token EXCEPT ![c] = NoToken]
        /\ user' = [user EXCEPT ![c] = NoUser]
        /\ issued' = issued
    BY <1>2 DEF Forget, IsAuthenticated, TypeOK
  <2>2. AuthRegistered'
    <3> SUFFICES ASSUME NEW d \in Conns, Alive(d)', IsAuthenticated(d)'
                 PROVE  sessions'[token'[d]] = d
      BY DEF AuthRegistered
    <3>1. d # c /\ token'[d] = token[d] /\ IsAuthenticated(d)
      BY <2>1 DEF IsAuthenticated, TypeOK
    <3>2. Alive(d) /\ sessions[token[d]] = d /\ token[d] \in Tokens
      BY <3>1 DEF AuthRegistered, IsAuthenticated, TypeOK
    <3>3. token[d] # token[c]
      BY <1>2, <3>1, <3>2 DEF AuthRegistered
    <3>4. Swept(sessions)[token[d]] = d
      BY <3>2 DEF Swept
    <3> QED BY <2>1, <3>1, <3>2, <3>3, <3>4 DEF Swept
  <2>3. \A t \in Tokens : sessions'[t] \in {sessions[t], NoConn}
    BY <2>1 DEF Swept
  <2>4. FreshConn'
    BY <2>1, <2>3, CoreNoConn DEF FreshConn, TypeOK
  <2>5. TokensIssued'
    BY <2>1, <2>3 DEF TokensIssued, TypeOK, NoToken
  <2> QED BY <2>2, <2>4, <2>5
<1> QED BY <1>1, <1>2

-----------------------------------------------------------------------------
\* One lemma per handler: it keeps the inductive invariant.

LEMMA AcceptStep ==
    ASSUME IInv, NEW c \in Conns, Accept(c) PROVE IInv'
<1> USE DEF IInv, Accept, authVars
<1>1. TypeOK'
  BY DEF TypeOK
<1>2. AuthRegistered'
  BY DEF AuthRegistered, FreshConn, Alive, IsAuthenticated, TypeOK
<1>3. WritesSerialized'
  BY DEF WritesSerialized
<1>4. FreshConn' /\ TokensIssued'
  BY DEF FreshConn, TokensIssued, TypeOK
<1> QED BY <1>1, <1>2, <1>3, <1>4

LEMMA PeerSteps ==
    ASSUME IInv, NEW c \in Conns, PeerSends(c) \/ PeerCloses(c) \/ PeerLost(c)
    PROVE  IInv'
<1> USE DEF IInv, PeerSends, PeerCloses, PeerLost, authVars
<1>1. TypeOK'
  BY CoreBounds DEF TypeOK
<1>2. AuthRegistered'
  BY DEF AuthRegistered, Alive, IsAuthenticated
<1>3. WritesSerialized'
  BY DEF WritesSerialized
<1>4. FreshConn' /\ TokensIssued'
  BY DEF FreshConn, TokensIssued, TypeOK
<1> QED BY <1>1, <1>2, <1>3, <1>4

LEMMA WriteDoneStep ==
    ASSUME IInv, NEW c \in Conns, WriteDone(c) PROVE IInv'
<1> USE DEF IInv, WriteDone, authVars
<1>1. writing[c] = 1 /\ outq[c] > 0
  BY DEF WritesSerialized, TypeOK
<1>2. TypeOK'
  BY <1>1 DEF TypeOK
<1>3. AuthRegistered'
  BY <1>1 DEF AuthRegistered, Alive, IsAuthenticated, TypeOK
<1>4. WritesSerialized'
  BY <1>1 DEF WritesSerialized, TypeOK
<1>5. FreshConn' /\ TokensIssued'
  BY <1>1 DEF FreshConn, TokensIssued, TypeOK
<1> QED BY <1>2, <1>3, <1>4, <1>5

LEMMA WriteFailStep ==
    ASSUME IInv, NEW c \in Conns, WriteFail(c) PROVE IInv'
<1> USE DEF IInv, WriteFail
<1>1. writing[c] = 1 /\ outq[c] > 0
  BY DEF WritesSerialized, TypeOK
<1>2. TypeOK'
  BY <1>1, ForgetType DEF TypeOK
<1>3. WritesSerialized'
  BY <1>1 DEF WritesSerialized, TypeOK
<1>4. Alive(c) /\ \A d \in Conns : Alive(d)' => Alive(d)
  BY <1>1 DEF Alive, TypeOK
<1>5. \A d \in Conns : peer'[d] = "none" => peer[d] = "none"
  BY DEF TypeOK
<1>6. \A d \in Conns : peer[d] = "none" => ~reading'[d] /\ writing'[d] = 0
  BY DEF FreshConn, TypeOK
<1>7. AuthRegistered' /\ FreshConn' /\ TokensIssued'
  BY <1>4, <1>5, <1>6, ForgetKeeps
<1> QED BY <1>2, <1>3, <1>7

LEMMA ReadErrorSteps ==
    ASSUME IInv, NEW c \in Conns, ReadFail(c) \/ BadHeader(c) PROVE IInv'
<1> USE DEF IInv, ReadFail, BadHeader, EndRead
<1>0. reading[c] /\ EndRead(c) /\ Forget(c)
  OBVIOUS
<1>1. TypeOK'
  BY <1>0, ForgetType, CoreBounds DEF TypeOK
<1>2. WritesSerialized'
  BY DEF WritesSerialized
<1>3. Alive(c) /\ \A d \in Conns : Alive(d)' => Alive(d)
  BY DEF Alive, TypeOK
<1>4. \A d \in Conns : peer[d] = "none" => ~reading'[d] /\ writing'[d] = 0
  BY DEF FreshConn, TypeOK
<1>5. AuthRegistered' /\ FreshConn' /\ TokensIssued'
  BY <1>3, <1>4, ForgetKeeps
<1> QED BY <1>1, <1>2, <1>5

LEMMA TooLargeStep ==
    ASSUME IInv, NEW c \in Conns, PayloadTooLarge(c) PROVE IInv'
<1> USE DEF IInv, PayloadTooLarge, EndRead, authVars
<1>1. TypeOK'
  BY CoreBounds DEF TypeOK
<1>2. AuthRegistered'
  BY DEF AuthRegistered, Alive, IsAuthenticated, TypeOK
<1>3. WritesSerialized'
  BY DEF WritesSerialized
<1>4. FreshConn' /\ TokensIssued'
  BY DEF FreshConn, TokensIssued, TypeOK
<1> QED BY <1>1, <1>2, <1>3, <1>4

LEMMA SilentStep ==
    ASSUME IInv, NEW c \in Conns, HandleSilently(c) PROVE IInv'
<1> USE DEF IInv, HandleSilently, TakeFrame, authVars
<1>1. TypeOK'
  BY CoreBounds DEF TypeOK
<1>2. AuthRegistered'
  BY DEF AuthRegistered, Alive, IsAuthenticated, TypeOK
<1>3. WritesSerialized'
  BY DEF WritesSerialized
<1>4. FreshConn' /\ TokensIssued'
  BY DEF FreshConn, TokensIssued, TypeOK
<1> QED BY <1>1, <1>2, <1>3, <1>4

\* Frames go to live sessions, so sending brings none to life and ends none.
LEMMA SendsAlive ==
    ASSUME TypeOK, WritesSerialized, NEW n \in [Conns -> 0 .. 2],
           \A d \in Conns : n[d] > 0 => Alive(d),
           Sends(n), UNCHANGED reading
    PROVE  /\ \A d \in Conns : Alive(d)' <=> Alive(d)
           /\ \A d \in Conns : ~Alive(d) => writing'[d] = writing[d]
BY DEF TypeOK, WritesSerialized, Sends, Alive

\* Sending leaves logins and session objects alone.
LEMMA SendsKeeps ==
    ASSUME IInv, NEW c \in Conns, NEW n \in [Conns -> 0 .. 2],
           \A d \in Conns : n[d] > 0 => Alive(d),
           TakeFrame(c), Sends(n)
    PROVE  /\ WritesSerialized'
           /\ peer' = peer /\ reading' = reading /\ writeFailed' = writeFailed
           /\ inbound' \in [Conns -> 0 .. MaxInbound]
           /\ outq' \in [Conns -> Nat] /\ writing' \in [Conns -> Nat]
           /\ \A d \in Conns : Alive(d)' <=> Alive(d)
           /\ \A d \in Conns : peer[d] = "none" => writing'[d] = 0
<1> USE DEF IInv
<1>1. UNCHANGED <<peer, reading, writeFailed>>
  BY DEF TakeFrame
<1>2. inbound' \in [Conns -> 0 .. MaxInbound]
  BY CoreBounds DEF TakeFrame, TypeOK
<1>3. /\ WritesSerialized'
      /\ outq' \in [Conns -> Nat] /\ writing' \in [Conns -> Nat]
  BY <1>1, SendsWrites
<1>4. /\ \A d \in Conns : Alive(d)' <=> Alive(d)
      /\ \A d \in Conns : ~Alive(d) => writing'[d] = writing[d]
  BY <1>1, SendsAlive
<1>5. \A d \in Conns : peer[d] = "none" => writing'[d] = 0
  BY <1>4 DEF FreshConn, Alive
<1> QED BY <1>1, <1>2, <1>3, <1>4, <1>5

\* The handlers that send: nothing but queues and logins changes.
LEMMA HandlersSend ==
    ASSUME IInv, NEW c \in Conns,
           \/ HandleReply(c)
           \/ HandleOnlineList(c)
           \/ \E t \in Tokens : HandleNotify(c, t)
           \/ \E u \in Users : HandleLogin(c, u)
    PROVE  /\ Alive(c)
           /\ WritesSerialized'
           /\ peer' = peer /\ reading' = reading /\ writeFailed' = writeFailed
           /\ inbound' \in [Conns -> 0 .. MaxInbound]
           /\ outq' \in [Conns -> Nat] /\ writing' \in [Conns -> Nat]
           /\ \A d \in Conns : Alive(d)' <=> Alive(d)
           /\ \A d \in Conns : peer[d] = "none" => writing'[d] = 0
<1> USE DEF IInv
<1>1. TakeFrame(c)
  BY DEF HandleReply, HandleOnlineList, HandleNotify, HandleLogin
<1>2. Alive(c) /\ OneTo(c) \in [Conns -> 0 .. 2]
         /\ \A d \in Conns : OneTo(c)[d] > 0 => d = c
  BY <1>1, OneToType DEF TakeFrame, Alive, OneTo
<1>3. PICK n \in [Conns -> 0 .. 2] :
          /\ \A d \in Conns : n[d] > 0 => Alive(d)
          /\ Sends(n)
  <2>1. CASE Sends(OneTo(c))
    BY <1>2, <2>1
  <2>2. CASE \E t \in Tokens : HandleNotify(c, t)
    <3>1. PICK t \in Tokens : HandleNotify(c, t)
      BY <2>2
    <3>2. GetSession(t) \in Conns /\ Alive(GetSession(t))
      BY <3>1, GetSessionType DEF HandleNotify
    <3>3. OneToEach(c, GetSession(t)) \in [Conns -> 0 .. 2]
      BY <3>2, OneToType
    <3>4. \A d \in Conns : OneToEach(c, GetSession(t))[d] > 0 => d \in {c, GetSession(t)}
      BY <3>2 DEF OneToEach, OneTo
    <3> QED BY <1>2, <3>1, <3>2, <3>3, <3>4 DEF HandleNotify
  <2> QED BY <2>1, <2>2 DEF HandleReply, HandleOnlineList, HandleLogin
<1> QED BY <1>1, <1>2, <1>3, SendsKeeps

LEMMA ReplySteps ==
    ASSUME IInv, NEW c \in Conns,
           \/ HandleReply(c)
           \/ HandleOnlineList(c)
           \/ \E t \in Tokens : HandleNotify(c, t)
    PROVE  IInv'
<1> USE DEF IInv
<1>2. /\ WritesSerialized'
      /\ peer' = peer /\ reading' = reading /\ writeFailed' = writeFailed
      /\ inbound' \in [Conns -> 0 .. MaxInbound]
      /\ outq' \in [Conns -> Nat] /\ writing' \in [Conns -> Nat]
      /\ \A d \in Conns : Alive(d)' <=> Alive(d)
      /\ \A d \in Conns : peer[d] = "none" => writing'[d] = 0
  BY HandlersSend
<1>3. /\ UNCHANGED <<token, user, issued, tokenUser>>
      /\ sessions' \in {sessions, Swept(sessions)}
  BY DEF HandleReply, HandleOnlineList, HandleNotify, authVars
<1>4. /\ sessions' \in [Tokens -> Conns \cup {NoConn}]
      /\ \A t \in Tokens : sessions'[t] \in {sessions[t], NoConn}
      /\ \A t \in Tokens : sessions[t] \in Conns /\ Alive(sessions[t])
                              => sessions'[t] = sessions[t]
  BY <1>3 DEF Swept, TypeOK
<1>5. TypeOK'
  BY <1>2, <1>3, <1>4 DEF TypeOK
<1>6. AuthRegistered'
  BY <1>2, <1>3, <1>4 DEF AuthRegistered, IsAuthenticated, TypeOK
<1>7. FreshConn' /\ TokensIssued'
  BY <1>2, <1>3, <1>4, CoreNoConn DEF FreshConn, TokensIssued, TypeOK
<1> QED BY <1>2, <1>5, <1>6, <1>7

LEMMA LoginStep ==
    ASSUME IInv, NEW c \in Conns, NEW u \in Users, HandleLogin(c, u) PROVE IInv'
<1> USE DEF IInv
<1>1. Alive(c)
  BY HandlersSend
<1>2. /\ WritesSerialized'
      /\ peer' = peer /\ reading' = reading /\ writeFailed' = writeFailed
      /\ inbound' \in [Conns -> 0 .. MaxInbound]
      /\ outq' \in [Conns -> Nat] /\ writing' \in [Conns -> Nat]
      /\ \A d \in Conns : Alive(d)' <=> Alive(d)
      /\ \A d \in Conns : peer[d] = "none" => writing'[d] = 0
  BY HandlersSend
<1>3. issued + 1 \in Tokens /\ issued' = issued + 1 /\ issued' \in 0 .. MaxLogins
  BY CoreBounds DEF HandleLogin, TypeOK, Tokens
<1>4. /\ token' = [token EXCEPT ![c] = issued + 1]
      /\ user' = [user EXCEPT ![c] = u]
      /\ tokenUser' = [tokenUser EXCEPT ![issued + 1] = u]
      /\ sessions' = Swept([sessions EXCEPT ![issued + 1] = c])
  BY DEF HandleLogin
<1>5. /\ sessions' \in [Tokens -> Conns \cup {NoConn}]
      /\ sessions'[issued + 1] = c
      /\ \A t \in Tokens \ {issued + 1} :
            /\ sessions'[t] \in {sessions[t], NoConn}
            /\ sessions[t] \in Conns /\ Alive(sessions[t]) => sessions'[t] = sessions[t]
  BY <1>1, <1>3, <1>4 DEF Swept, TypeOK
<1>6. TypeOK'
  BY <1>2, <1>3, <1>4, <1>5 DEF TypeOK
<1>7. AuthRegistered'
  <2> SUFFICES ASSUME NEW d \in Conns, Alive(d)', IsAuthenticated(d)'
               PROVE  sessions'[token'[d]] = d
    BY DEF AuthRegistered
  <2>1. CASE d = c
    BY <2>1, <1>4, <1>5 DEF TypeOK
  <2>2. CASE d # c
    <3>1. token'[d] = token[d] /\ token[d] \in Tokens /\ sessions[token[d]] = d /\ Alive(d)
      BY <2>2, <1>2, <1>4 DEF AuthRegistered, IsAuthenticated, TypeOK
    <3>2. token[d] # issued + 1
      BY DEF TokensIssued, TypeOK
    <3> QED BY <3>1, <3>2, <1>5
  <2> QED BY <2>1, <2>2
<1>8. FreshConn'
  <2>1. peer[c] # "none"
    BY <1>1 DEF FreshConn, Alive
  <2> SUFFICES ASSUME NEW d \in Conns, peer'[d] = "none"
               PROVE  /\ ~reading'[d] /\ writing'[d] = 0
                      /\ token'[d] = NoToken /\ user'[d] = NoUser
                      /\ \A t \in Tokens : sessions'[t] # d
    BY DEF FreshConn
  <2>2. d # c /\ peer[d] = "none"
    BY <2>1, <1>2
  <2>3. ~reading'[d] /\ writing'[d] = 0 /\ token'[d] = NoToken /\ user'[d] = NoUser
    BY <2>2, <1>2, <1>4 DEF FreshConn, TypeOK
  <2>4. \A t \in Tokens : sessions[t] # d
    BY <2>2 DEF FreshConn
  <2>5. \A t \in Tokens : sessions'[t] # d
    BY <2>2, <2>4, <1>5, CoreNoConn
  <2> QED BY <2>3, <2>5
<1>9. TokensIssued'
  <2>1. \A d \in Conns : token'[d] <= issued'
    <3> TAKE d \in Conns
    <3>1. token[d] <= issued /\ token[d] \in Nat /\ issued \in Nat
      BY CoreBounds DEF TokensIssued, TypeOK, Tokens, NoToken
    <3>2. token'[d] \in {token[d], issued + 1}
      BY <1>4 DEF TypeOK
    <3> QED BY <3>1, <3>2, <1>3
  <2>2. \A t \in Tokens : sessions'[t] # NoConn => t <= issued'
    <3> SUFFICES ASSUME NEW t \in Tokens, sessions'[t] # NoConn PROVE t <= issued'
      OBVIOUS
    <3>1. t = issued + 1 \/ sessions[t] # NoConn
      BY <1>5
    <3> QED BY <3>1, <1>3 DEF TokensIssued, TypeOK, Tokens
  <2> QED BY <2>1, <2>2 DEF TokensIssued
<1> QED BY <1>2, <1>6, <1>7, <1>8, <1>9

-----------------------------------------------------------------------------
LEMMA StepInvariant == IInv /\ [Next]_vars => IInv'
<1> SUFFICES ASSUME IInv, [Next]_vars PROVE IInv'
  OBVIOUS
<1>1. CASE UNCHANGED vars
  BY <1>1 DEF IInv, TypeOK, AuthRegistered, WritesSerialized, FreshConn, TokensIssued,
              Alive, IsAuthenticated, vars, sockVars, authVars
<1>2. CASE Next
  <2>1. PICK c \in Conns : ReadStep(c) \/ WriteStep(c) \/ PeerStep(c)
    BY <1>2 DEF Next
  <2>2. CASE ReadStep(c)
    BY <2>2, ReadErrorSteps, TooLargeStep, SilentStep, ReplySteps, LoginStep DEF ReadStep
  <2>3. CASE WriteStep(c)
    BY <2>3, WriteDoneStep, WriteFailStep DEF WriteStep
  <2>4. CASE PeerStep(c)
    BY <2>4, AcceptStep, PeerSteps DEF PeerStep
  <2> QED BY <2>1, <2>2, <2>3, <2>4
<1> QED BY <1>1, <1>2

LEMMA InitInvariant == Init => IInv
<1> SUFFICES ASSUME Init PROVE IInv
  OBVIOUS
<1>1. TypeOK
  BY TypeInit
<1>2. AuthRegistered /\ WritesSerialized
  BY DEF Init, AuthRegistered, WritesSerialized, IsAuthenticated
<1>3. FreshConn /\ TokensIssued
  BY CoreNoConn DEF Init, FreshConn, TokensIssued, NoToken
<1> QED BY <1>1, <1>2, <1>3 DEF IInv

LEMMA Invariant == Spec => []IInv
BY InitInvariant, StepInvariant, PTL DEF Spec

(***************************************************************************)
(* The variables keep their types: queues and write counts never go below  *)
(* zero and sessions_ only holds connections (all handlers).               *)
(***************************************************************************)
THEOREM TypeCorrect == Spec => []TypeOK
<1>1. IInv => TypeOK
  BY DEF IInv
<1> QED BY <1>1, Invariant, PTL

(***************************************************************************)
(* Login state and sessions_ agree for every live session: all error paths *)
(* and sweeps of tcp_session.cpp and session_manager.cpp together.         *)
(***************************************************************************)
THEOREM LoginsRegistered == Spec => []AuthRegistered
<1>1. IInv => AuthRegistered
  BY DEF IInv
<1> QED BY <1>1, Invariant, PTL

(***************************************************************************)
(* TcpSession::send and do_write never run two writes on one socket and    *)
(* never leave frames waiting without a write unless one failed.           *)
(***************************************************************************)
THEOREM OneWriteAtATime == Spec => []WritesSerialized
<1>1. IInv => WritesSerialized
  BY DEF IInv
<1> QED BY <1>1, Invariant, PTL

-----------------------------------------------------------------------------
\* The four ways a step may look through live sessions.

LEMMA ViewStutters ==
    ASSUME TypeOK, UNCHANGED <<token, user, issued>>,
           \A d \in Conns : Alive(d)' <=> Alive(d),
           \A t \in Tokens : GetSession(t)' = GetSession(t)
    PROVE  UNCHANGED Directory!dirVars
BY DEF Directory!dirVars, LiveToken, LiveUser, LiveHolder

\* Entries are only erased when their session is dead.
LEMMA SweepInvisible ==
    ASSUME TypeOK, \A d \in Conns : Alive(d)' <=> Alive(d),
           sessions' \in {sessions, Swept(sessions)}
    PROVE  \A t \in Tokens : GetSession(t)' = GetSession(t)
<1> TAKE t \in Tokens
<1>1. sessions[t] \in Conns \cup {NoConn}
  BY DEF TypeOK
<1>2. \/ sessions'[t] = sessions[t]
      \/ sessions'[t] = NoConn /\ sessions[t] # NoConn /\ ~Alive(sessions[t])
  <2>1. CASE sessions' = sessions
    BY <2>1
  <2>2. CASE sessions' = Swept(sessions)
    BY <2>2 DEF Swept
  <2> QED BY <2>1, <2>2
<1> QED BY <1>1, <1>2, CoreNoConn DEF GetSession, Alive

LEMMA LiveAt ==
    ASSUME NEW d \in Conns
    PROVE  /\ LiveToken[d] = IF Alive(d) THEN token[d] ELSE NoToken
           /\ LiveToken'[d] = IF Alive(d)' THEN token'[d] ELSE NoToken
           /\ LiveUser[d] = IF Alive(d) THEN user[d] ELSE NoUser
           /\ LiveUser'[d] = IF Alive(d)' THEN user'[d] ELSE NoUser
BY DEF LiveToken, LiveUser

LEMMA ViewVanishes ==
    ASSUME TypeOK, NEW c \in Conns, ~Alive(c)', UNCHANGED issued,
           \A d \in Conns \ {c} : /\ (Alive(d)' <=> Alive(d))
                                   /\ token'[d] = token[d] /\ user'[d] = user[d],
           \A t \in Tokens :
                \/ sessions'[t] = sessions[t]
                \/ /\ sessions'[t] = NoConn
                   /\ (sessions[t] = c \/ ~Alive(sessions[t]))
    PROVE  Directory!Vanish(c)
<1>1. LiveToken' = [LiveToken EXCEPT ![c] = NoToken]
  <2>1. ASSUME NEW d \in Conns
        PROVE  LiveToken'[d] = IF d = c THEN NoToken ELSE LiveToken[d]
    BY LiveAt
  <2> QED BY <2>1 DEF LiveToken
<1>2. LiveUser' = [LiveUser EXCEPT ![c] = NoUser]
  <2>1. ASSUME NEW d \in Conns
        PROVE  LiveUser'[d] = IF d = c THEN NoUser ELSE LiveUser[d]
    BY LiveAt
  <2> QED BY <2>1 DEF LiveUser
<1>3. ASSUME NEW t \in Tokens
      PROVE  GetSession(t)' = IF GetSession(t) = c THEN NoConn ELSE GetSession(t)
  <2>1. sessions[t] \in Conns \cup {NoConn}
    BY DEF TypeOK
  <2> QED BY <2>1, CoreNoConn DEF GetSession, Alive
<1>4. LiveHolder' = [t \in Tokens |-> IF LiveHolder[t] = c THEN NoConn ELSE LiveHolder[t]]
  BY <1>3 DEF LiveHolder
<1> QED BY <1>1, <1>2, <1>4 DEF Directory!Vanish, Directory!NoToken, NoToken,
                                Directory!Tokens, Tokens

LEMMA ViewLosesAuth ==
    ASSUME IInv, NEW c \in Conns, Forget(c), IsAuthenticated(c), Alive(c),
           \A d \in Conns : Alive(d)' <=> Alive(d)
    PROVE  Directory!LoseAuth(c)
<1> USE DEF IInv
<1>1. /\ token[c] \in Tokens
      /\ sessions' = [Swept(sessions) EXCEPT ![token[c]] = NoConn]
      /\ token' = [token EXCEPT ![c] = NoToken]
      /\ user' = [user EXCEPT ![c] = NoUser]
      /\ issued' = issued
  BY DEF Forget, IsAuthenticated, TypeOK
<1>2. LiveToken[c] = token[c] /\ LiveToken[c] # NoToken
  BY LiveAt DEF IsAuthenticated
<1>3. LiveToken' = [LiveToken EXCEPT ![c] = NoToken]
  <2>1. ASSUME NEW d \in Conns
        PROVE  LiveToken'[d] = IF d = c THEN NoToken ELSE LiveToken[d]
    BY <1>1, LiveAt DEF TypeOK
  <2> QED BY <2>1 DEF LiveToken
<1>4. LiveUser' = [LiveUser EXCEPT ![c] = NoUser]
  <2>1. ASSUME NEW d \in Conns
        PROVE  LiveUser'[d] = IF d = c THEN NoUser ELSE LiveUser[d]
    BY <1>1, LiveAt DEF TypeOK
  <2> QED BY <2>1 DEF LiveUser
<1>5. LiveHolder' = [LiveHolder EXCEPT ![token[c]] = NoConn]
  <2>1. ASSUME NEW t \in Tokens
        PROVE  GetSession(t)' = IF t = token[c] THEN NoConn ELSE GetSession(t)
    <3>1. sessions[t] \in Conns \cup {NoConn}
      BY DEF TypeOK
    <3>2. sessions'[t] = IF t = token[c] THEN NoConn ELSE Swept(sessions)[t]
      BY <1>1 DEF Swept
    <3>3. Swept(sessions)[t] = IF sessions[t] # NoConn /\ ~Alive(sessions[t])
                               THEN NoConn ELSE sessions[t]
      BY DEF Swept
    <3> QED BY <3>1, <3>2, <3>3, CoreNoConn DEF GetSession, Alive
  <2> QED BY <2>1, <1>1 DEF LiveHolder
<1> QED BY <1>1, <1>2, <1>3, <1>4, <1>5 DEF Directory!LoseAuth, Directory!NoToken, NoToken,
                                            Directory!IsAuthenticated

LEMMA ViewLogsIn ==
    ASSUME IInv, NEW c \in Conns, NEW u \in Users, HandleLogin(c, u)
    PROVE  Directory!LogIn(c, u)
<1> USE DEF IInv
<1>1. Alive(c) /\ \A d \in Conns : Alive(d)' <=> Alive(d)
  BY HandlersSend
<1>2. /\ issued < MaxLogins /\ issued' = issued + 1 /\ issued + 1 \in Tokens
      /\ token' = [token EXCEPT ![c] = issued + 1]
      /\ user' = [user EXCEPT ![c] = u]
      /\ sessions' = Swept([sessions EXCEPT ![issued + 1] = c])
  BY CoreBounds DEF HandleLogin, TypeOK, Tokens
<1>3. LiveToken' = [LiveToken EXCEPT ![c] = issued + 1]
  <2>1. ASSUME NEW d \in Conns
        PROVE  LiveToken'[d] = IF d = c THEN issued + 1 ELSE LiveToken[d]
    BY <1>1, <1>2, LiveAt DEF TypeOK
  <2> QED BY <2>1 DEF LiveToken
<1>4. LiveUser' = [LiveUser EXCEPT ![c] = u]
  <2>1. ASSUME NEW d \in Conns
        PROVE  LiveUser'[d] = IF d = c THEN u ELSE LiveUser[d]
    BY <1>1, <1>2, LiveAt DEF TypeOK
  <2> QED BY <2>1 DEF LiveUser
<1>5. LiveHolder' = [LiveHolder EXCEPT ![issued + 1] = c]
  <2>1. ASSUME NEW t \in Tokens
        PROVE  GetSession(t)' = IF t = issued + 1 THEN c ELSE GetSession(t)
    <3>0. sessions[t] \in Conns \cup {NoConn}
      BY DEF TypeOK
    <3>1. [sessions EXCEPT ![issued + 1] = c][t]
            = IF t = issued + 1 THEN c ELSE sessions[t]
      BY <1>2 DEF TypeOK
    <3>2. CASE t = issued + 1
      <4>1. sessions'[t] = c
        BY <1>1, <1>2, <3>1, <3>2, CoreNoConn DEF Swept
      <4> QED BY <4>1, <3>2, <1>1, CoreNoConn DEF GetSession, Alive
    <3>3. CASE t # issued + 1
      <4>1. sessions'[t] = IF sessions[t] # NoConn /\ ~Alive(sessions[t])
                           THEN NoConn ELSE sessions[t]
        BY <1>2, <3>1, <3>3 DEF Swept
      <4> QED BY <4>1, <3>0, <3>3, <1>1, CoreNoConn DEF GetSession, Alive
    <3> QED BY <3>2, <3>3
  <2> QED BY <2>1, <1>2 DEF LiveHolder
<1> QED BY <1>2, <1>3, <1>4, <1>5 DEF Directory!LogIn

\* An error path: the session loses its login, disappears, or had neither.
LEMMA ViewForgets ==
    ASSUME IInv, NEW c \in Conns, Forget(c), Alive(c),
           \A d \in Conns \ {c} : Alive(d)' <=> Alive(d)
    PROVE  [Directory!DirNext]_(Directory!dirVars)
<1> USE DEF IInv
<1>1. CASE ~Alive(c)'
  <2>1. issued' = issued
    BY DEF Forget
  <2>2. \A d \in Conns \ {c} : token'[d] = token[d] /\ user'[d] = user[d]
    BY DEF Forget, TypeOK
  <2>3. \A t \in Tokens :
            \/ sessions'[t] = sessions[t]
            \/ /\ sessions'[t] = NoConn
               /\ (sessions[t] = c \/ ~Alive(sessions[t]))
    <3>1. CASE ~IsAuthenticated(c)
      BY <3>1 DEF Forget
    <3>2. CASE IsAuthenticated(c)
      <4>1. sessions[token[c]] = c /\ token[c] \in Tokens
        BY <3>2 DEF AuthRegistered, IsAuthenticated, TypeOK
      <4>2. \A t \in Tokens :
               sessions'[t] = IF t = token[c] THEN NoConn
                              ELSE IF sessions[t] # NoConn /\ ~Alive(sessions[t])
                                   THEN NoConn ELSE sessions[t]
        BY <3>2 DEF Forget, Swept
      <4> QED BY <4>1, <4>2
    <3> QED BY <3>1, <3>2
  <2>4. Directory!Vanish(c)
    BY <1>1, <2>1, <2>2, <2>3, ViewVanishes
  <2> QED BY <2>4 DEF Directory!DirNext
<1>2. CASE Alive(c)' /\ IsAuthenticated(c)
  <2>1. Directory!LoseAuth(c)
    BY <1>2, ViewLosesAuth
  <2> QED BY <2>1 DEF Directory!DirNext
<1>3. CASE Alive(c)' /\ ~IsAuthenticated(c)
  <2>1. UNCHANGED <<token, user, issued, sessions>>
    BY <1>3 DEF Forget
  <2>2. \A d \in Conns : Alive(d)' <=> Alive(d)
    BY <1>3
  <2>3. \A t \in Tokens : GetSession(t)' = GetSession(t)
    BY <2>1, <2>2, SweepInvisible
  <2> QED BY <2>1, <2>2, <2>3, ViewStutters
<1> QED BY <1>1, <1>2, <1>3

\* Steps that leave logins and sessions_ alone: at most c's session ends.
LEMMA ViewAtMostVanishes ==
    ASSUME TypeOK, NEW c \in Conns, UNCHANGED authVars,
           Alive(c)' => Alive(c),
           \A d \in Conns \ {c} : Alive(d)' <=> Alive(d)
    PROVE  [Directory!DirNext]_(Directory!dirVars)
<1>1. CASE ~Alive(c)'
  <2>1. Directory!Vanish(c)
    BY <1>1, ViewVanishes DEF authVars
  <2> QED BY <2>1 DEF Directory!DirNext
<1>2. CASE Alive(c)'
  <2>1. \A d \in Conns : Alive(d)' <=> Alive(d)
    BY <1>2
  <2>2. \A t \in Tokens : GetSession(t)' = GetSession(t)
    BY <2>1, SweepInvisible DEF authVars
  <2> QED BY <2>1, <2>2, ViewStutters DEF authVars
<1> QED BY <1>1, <1>2

LEMMA AcceptInvisible ==
    ASSUME IInv, NEW c \in Conns, Accept(c) PROVE UNCHANGED Directory!dirVars
<1> USE DEF IInv, Accept
<1>1. /\ token[c] = NoToken /\ user[c] = NoUser
      /\ \A t \in Tokens : sessions[t] # c
  BY DEF FreshConn
<1>2. UNCHANGED authVars /\ \A d \in Conns \ {c} : Alive(d)' <=> Alive(d)
  BY DEF Alive, TypeOK
<1>3. LiveToken' = LiveToken
  <2>1. \A d \in Conns : LiveToken'[d] = LiveToken[d]
    BY <1>1, <1>2, LiveAt DEF authVars
  <2> QED BY <2>1 DEF LiveToken
<1>4. LiveUser' = LiveUser
  <2>1. \A d \in Conns : LiveUser'[d] = LiveUser[d]
    BY <1>1, <1>2, LiveAt DEF authVars
  <2> QED BY <2>1 DEF LiveUser
<1>5. LiveHolder' = LiveHolder
  <2>1. ASSUME NEW t \in Tokens PROVE GetSession(t)' = GetSession(t)
    <3>1. sessions[t] \in Conns \cup {NoConn} /\ sessions[t] # c /\ sessions' = sessions
      BY <1>1, <1>2 DEF TypeOK, authVars
    <3> QED BY <3>1, <1>2 DEF GetSession
  <2> QED BY <2>1 DEF LiveHolder
<1> QED BY <1>2, <1>3, <1>4, <1>5 DEF Directory!dirVars, authVars

LEMMA StepSimulation ==
    IInv /\ [Next]_vars => [Directory!DirNext]_(Directory!dirVars)
<1> SUFFICES ASSUME IInv, [Next]_vars PROVE [Directory!DirNext]_(Directory!dirVars)
  OBVIOUS
<1> USE DEF IInv
<1>1. CASE UNCHANGED vars
  <2>1. UNCHANGED authVars /\ \A d \in Conns : Alive(d)' <=> Alive(d)
    BY <1>1 DEF vars, sockVars, Alive
  <2>2. \A t \in Tokens : GetSession(t)' = GetSession(t)
    BY <2>1, SweepInvisible DEF authVars
  <2> QED BY <2>1, <2>2, ViewStutters DEF authVars
<1>2. ASSUME NEW c \in Conns, ReadFail(c) \/ BadHeader(c) \/ WriteFail(c)
      PROVE  [Directory!DirNext]_(Directory!dirVars)
  <2>1. Forget(c) /\ Alive(c) /\ \A d \in Conns \ {c} : Alive(d)' <=> Alive(d)
    BY <1>2 DEF ReadFail, BadHeader, WriteFail, EndRead, Alive, TypeOK
  <2> QED BY <2>1, ViewForgets
<1>3. ASSUME NEW c \in Conns,
             \/ PayloadTooLarge(c) \/ HandleSilently(c) \/ WriteDone(c)
             \/ PeerSends(c) \/ PeerCloses(c) \/ PeerLost(c)
      PROVE  [Directory!DirNext]_(Directory!dirVars)
  <2>1. /\ UNCHANGED authVars
        /\ Alive(c)' => Alive(c)
        /\ \A d \in Conns \ {c} : Alive(d)' <=> Alive(d)
    BY <1>3 DEF PayloadTooLarge, EndRead, HandleSilently, TakeFrame, WriteDone,
                PeerSends, PeerCloses, PeerLost, Alive, TypeOK
  <2> QED BY <2>1, ViewAtMostVanishes
<1>4. ASSUME NEW c \in Conns,
             \/ HandleReply(c)
             \/ HandleOnlineList(c)
             \/ \E t \in Tokens : HandleNotify(c, t)
      PROVE  [Directory!DirNext]_(Directory!dirVars)
  <2>1. \A d \in Conns : Alive(d)' <=> Alive(d)
    BY <1>4, HandlersSend
  <2>2. UNCHANGED <<token, user, issued>> /\ sessions' \in {sessions, Swept(sessions)}
    BY <1>4 DEF HandleReply, HandleOnlineList, HandleNotify, authVars
  <2> QED BY <2>1, <2>2, SweepInvisible, ViewStutters
<1>5. ASSUME NEW c \in Conns, NEW u \in Users, HandleLogin(c, u)
      PROVE  [Directory!DirNext]_(Directory!dirVars)
  BY <1>5, ViewLogsIn DEF Directory!DirNext
<1>6. ASSUME NEW c \in Conns, Accept(c)
      PROVE  [Directory!DirNext]_(Directory!dirVars)
  BY <1>6, AcceptInvisible
<1>7. CASE Next
  BY <1>2, <1>3, <1>4, <1>5, <1>6, <1>7 DEF Next, ReadStep, WriteStep, PeerStep
<1> QED BY <1>1, <1>7

LEMMA InitSimulation == Init => Directory!DirInit
<1> SUFFICES ASSUME Init PROVE Directory!DirInit
  OBVIOUS
<1>1. ASSUME NEW c \in Conns PROVE ~Alive(c)
  <2>1. reading[c] = FALSE /\ writing[c] = 0
    BY DEF Init
  <2> QED BY <2>1 DEF Alive
<1>2. \A t \in Tokens : GetSession(t) = NoConn
  BY DEF Init, GetSession
<1> QED BY <1>1, <1>2 DEF Init, Directory!DirInit, LiveToken, LiveUser, LiveHolder,
                          NoToken, Directory!NoToken, Tokens, Directory!Tokens

(***************************************************************************)
(* TcpSession and SessionManager implement SessionDirectory: every handler *)
(* changes the directory of live sessions by one login, one lost login or  *)
(* one disappearance of its own connection.                                *)
(***************************************************************************)
THEOREM CoreImplementsDirectory == Spec => ImplementsDirectory
BY Invariant, InitSimulation, StepSimulation, PTL
   DEF Spec, ImplementsDirectory, Directory!DirSpec

LEMMA StepRevivesNone ==
    IInv /\ [Next]_vars =>
        [\A c \in Conns : peer[c] # "none" /\ ~Alive(c) => ~Alive(c)']_vars
<1> SUFFICES ASSUME IInv, Next, NEW d \in Conns, peer[d] # "none", ~Alive(d)
             PROVE  ~Alive(d)'
  OBVIOUS
<1> USE DEF IInv
<1>1. PICK c \in Conns : ReadStep(c) \/ WriteStep(c) \/ PeerStep(c)
  BY DEF Next
<1>2. CASE \/ HandleReply(c)
           \/ HandleOnlineList(c)
           \/ \E t \in Tokens : HandleNotify(c, t)
           \/ \E u \in Users : HandleLogin(c, u)
  BY <1>2, HandlersSend
<1>3. CASE \/ ReadFail(c) \/ BadHeader(c) \/ PayloadTooLarge(c) \/ HandleSilently(c)
  BY <1>3 DEF ReadFail, BadHeader, PayloadTooLarge, EndRead, HandleSilently, TakeFrame,
              Alive, TypeOK
<1>4. CASE WriteStep(c)
  BY <1>4 DEF WriteStep, WriteDone, WriteFail, Alive, TypeOK
<1>5. CASE PeerStep(c)
  BY <1>5 DEF PeerStep, Accept, PeerSends, PeerCloses, PeerLost, Alive, TypeOK
<1> QED BY <1>1, <1>2, <1>3, <1>4, <1>5 DEF ReadStep

(***************************************************************************)
(* A destroyed TcpSession stays destroyed: get_session locks the weak_ptr  *)
(* before anybody sends on a session found by token.                       *)
(***************************************************************************)
THEOREM DestroyedStaysDestroyed == Spec => NoUseAfterDestruction
BY Invariant, StepRevivesNone, PTL DEF Spec, NoUseAfterDestruction
=============================================================================
