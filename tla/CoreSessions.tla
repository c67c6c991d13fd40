---------------------------- MODULE CoreSessions ----------------------------
(***************************************************************************)
(* TcpSession (core/src/net/tcp_session.cpp) and SessionManager            *)
(* (core/src/net/session_manager.cpp): the read loop, the write queue, the *)
(* authentication state of every connection and the token -> session map.  *)
(*                                                                         *)
(* main.cpp runs one thread in io.run(), so each completion handler is one *)
(* atomic step; handlers of different connections interleave freely.  A    *)
(* TcpSession lives exactly as long as a pending asynchronous operation    *)
(* holds its shared pointer.                                               *)
(*                                                                         *)
(* The header read and the body read are one step: between them a session  *)
(* only holds its private header_ and body_, and both fail in the same     *)
(* way.  The type and the contents of a frame are chosen when it is read.  *)
(***************************************************************************)
EXTENDS Naturals

CONSTANTS
    Conns, Users, NoConn, NoUser,
    MaxLogins,      \* bound: successful logins
    MaxInbound,     \* bound: frames waiting in a socket's receive buffer
    MaxOutq,        \* bound: a client stops sending to a connection whose
                    \* outq_ holds this many frames
    SilentLoss      \* TRUE when a peer may vanish without FIN or RST

ASSUME CoreNoConn == NoConn \notin Conns
ASSUME CoreNoUser == NoUser \notin Users
ASSUME CoreBounds == MaxLogins \in Nat /\ MaxInbound \in Nat /\ MaxOutq \in Nat
ASSUME CoreSilentLoss == SilentLoss \in BOOLEAN

VARIABLES
    peer,           \* the remote end as the kernel knows it
    inbound,        \* frames received by the kernel and not read yet
    reading,        \* an async_read of the session is outstanding
    writing,        \* outstanding async_writes of the session
    outq,           \* frames in outq_
    token,          \* token_
    user,           \* user_id_ / username_
    sessions,       \* SessionManager::sessions_; NoConn = no entry
    issued,         \* tokens created by SessionRepository::create_session
    tokenUser,      \* the user each token was created for (sessions table)
    writeFailed     \* history: an async_write of the session failed

sockVars == <<peer, inbound, reading, writing, outq, writeFailed>>
authVars == <<token, user, sessions, issued, tokenUser>>
vars == <<sockVars, authVars>>

NoToken == 0
Tokens == 1 .. MaxLogins

TypeOK ==
    /\ peer \in [Conns -> {"none", "open", "closed", "lost"}]
    /\ inbound \in [Conns -> 0 .. MaxInbound]
    /\ reading \in [Conns -> BOOLEAN]
    /\ writing \in [Conns -> Nat]
    /\ outq \in [Conns -> Nat]
    /\ token \in [Conns -> Tokens \cup {NoToken}]
    /\ user \in [Conns -> Users \cup {NoUser}]
    /\ sessions \in [Tokens -> Conns \cup {NoConn}]
    /\ issued \in 0 .. MaxLogins
    /\ tokenUser \in [Tokens -> Users \cup {NoUser}]
    /\ writeFailed \in [Conns -> BOOLEAN]

Init ==
    /\ peer = [c \in Conns |-> "none"]
    /\ inbound = [c \in Conns |-> 0]
    /\ reading = [c \in Conns |-> FALSE]
    /\ writing = [c \in Conns |-> 0]
    /\ outq = [c \in Conns |-> 0]
    /\ token = [c \in Conns |-> NoToken]
    /\ user = [c \in Conns |-> NoUser]
    /\ sessions = [t \in Tokens |-> NoConn]
    /\ issued = 0
    /\ tokenUser = [t \in Tokens |-> NoUser]
    /\ writeFailed = [c \in Conns |-> FALSE]

-----------------------------------------------------------------------------
\* SessionManager

\* A pending read or write handler owns a shared_ptr to the session.
Alive(c) == reading[c] \/ writing[c] > 0

IsAuthenticated(c) == token[c] # NoToken

\* Mutant: get_session hands out the stored pointer without lock().
GetSessionUnlocked(t) == sessions[t]

\* get_session: the weak_ptr of the entry, locked.
GetSession(t) ==
    IF sessions[t] # NoConn /\ Alive(sessions[t]) THEN sessions[t] ELSE NoConn

\* count and get_online_usernames erase the entries whose weak_ptr expired.
Swept(map) ==
    [t \in Tokens |->
        IF map[t] # NoConn /\ ~Alive(map[t]) THEN NoConn ELSE map[t]]

\* A connection whose username get_online_usernames reports.
Listed(c) ==
    Alive(c) /\ IsAuthenticated(c) /\ \E t \in Tokens : sessions[t] = c

-----------------------------------------------------------------------------
\* TcpSession::send and do_write

\* Mutant: send starts a write for every frame, also while one is running.
SendsEager(n) ==
    /\ outq' = [c \in Conns |-> outq[c] + n[c]]
    /\ writing' = [c \in Conns |-> writing[c] + n[c]]

\* One handler pushes n[c] frames on the queue of each connection c.  A push on
\* an empty queue starts a write; otherwise the running write's completion
\* handler is relied on to continue with the new frame.
Sends(n) ==
    /\ outq' = [c \in Conns |-> outq[c] + n[c]]
    /\ writing' = [c \in Conns |->
                      IF n[c] > 0 /\ outq[c] = 0 THEN writing[c] + 1 ELSE writing[c]]

OneTo(d) == [c \in Conns |-> IF c = d THEN 1 ELSE 0]

\* The notification to d and the reply to c; two frames when c = d.
OneToEach(c, d) == [e \in Conns |-> OneTo(c)[e] + OneTo(d)[e]]

\* Mutant: the frame is popped twice.
WriteDonePopsTwice(c) ==
    /\ writing[c] > 0
    /\ outq' = [outq EXCEPT ![c] = @ - 2]
    /\ writing' = [writing EXCEPT ![c] = IF outq[c] > 1 THEN @ ELSE @ - 1]
    /\ UNCHANGED <<peer, inbound, reading, writeFailed, authVars>>

\* do_write's completion without error: pop the frame, go on with the next one.
WriteDone(c) ==
    /\ writing[c] > 0
    /\ outq' = [outq EXCEPT ![c] = @ - 1]
    /\ writing' = [writing EXCEPT ![c] = IF outq[c] > 1 THEN @ ELSE @ - 1]
    /\ UNCHANGED <<peer, inbound, reading, writeFailed, authVars>>

\* Mutant: remove_session without clear_auth.
ForgetKeepAuth(c) ==
    /\ IF IsAuthenticated(c)
       THEN sessions' = [Swept(sessions) EXCEPT ![token[c]] = NoConn]
       ELSE UNCHANGED sessions
    /\ UNCHANGED <<token, user, issued, tokenUser>>

\* Mutant: the entries of all sessions of the user are erased.
ForgetWholeUser(c) ==
    /\ IF IsAuthenticated(c)
       THEN /\ sessions' = [t \in Tokens |->
                    IF tokenUser[t] = user[c] THEN NoConn ELSE sessions[t]]
            /\ token' = [token EXCEPT ![c] = NoToken]
            /\ user' = [user EXCEPT ![c] = NoUser]
       ELSE UNCHANGED <<sessions, token, user>>
    /\ UNCHANGED <<issued, tokenUser>>

\* The cleanup that every error path but one performs: count() sweeps the map,
\* remove_session(token_) erases the current token only, clear_auth().
Forget(c) ==
    /\ IF IsAuthenticated(c)
       THEN /\ sessions' = [Swept(sessions) EXCEPT ![token[c]] = NoConn]
            /\ token' = [token EXCEPT ![c] = NoToken]
            /\ user' = [user EXCEPT ![c] = NoUser]
       ELSE UNCHANGED <<sessions, token, user>>
    /\ UNCHANGED <<issued, tokenUser>>

\* Mutant: a failed write is retried with the same frame.
WriteFailRetry(c) ==
    /\ writing[c] > 0
    /\ peer[c] \in {"closed", "lost"}
    /\ peer' = [peer EXCEPT ![c] = "closed"]
    /\ writeFailed' = [writeFailed EXCEPT ![c] = TRUE]
    /\ UNCHANGED <<inbound, reading, writing, outq, authVars>>

\* do_write's completion with an error.  The frame stays at the front of outq_,
\* so no later send starts a write; the read loop goes on.  The kernel has
\* given up on the connection, so reads will fail as well.
WriteFail(c) ==
    /\ writing[c] > 0
    /\ peer[c] \in {"closed", "lost"}
    /\ writing' = [writing EXCEPT ![c] = @ - 1]
    /\ peer' = [peer EXCEPT ![c] = "closed"]
    /\ writeFailed' = [writeFailed EXCEPT ![c] = TRUE]
    /\ Forget(c)
    /\ UNCHANGED <<inbound, reading, outq>>

-----------------------------------------------------------------------------
\* The remote end

\* TcpServer::do_accept and TcpSession::start.
Accept(c) ==
    /\ peer[c] = "none"
    /\ peer' = [peer EXCEPT ![c] = "open"]
    /\ reading' = [reading EXCEPT ![c] = TRUE]
    /\ UNCHANGED <<inbound, writing, outq, writeFailed, authVars>>

\* The client sends one more frame.
PeerSends(c) ==
    /\ peer[c] = "open" /\ reading[c]
    /\ inbound[c] < MaxInbound
    /\ outq[c] + inbound[c] < MaxOutq
    /\ inbound' = [inbound EXCEPT ![c] = @ + 1]
    /\ UNCHANGED <<peer, reading, writing, outq, writeFailed, authVars>>

\* The client closes or aborts; frames it sent before can still be read.
PeerCloses(c) ==
    /\ peer[c] = "open"
    /\ peer' = [peer EXCEPT ![c] = "closed"]
    /\ UNCHANGED <<inbound, reading, writing, outq, writeFailed, authVars>>

\* The client or the path to it dies and the kernel is told nothing.
PeerLost(c) ==
    /\ SilentLoss
    /\ peer[c] = "open"
    /\ peer' = [peer EXCEPT ![c] = "lost"]
    /\ UNCHANGED <<inbound, reading, writing, outq, writeFailed, authVars>>

-----------------------------------------------------------------------------
\* do_read_header, do_read_body and handle_message

EndRead(c) ==
    /\ reading' = [reading EXCEPT ![c] = FALSE]
    /\ inbound' = [inbound EXCEPT ![c] = 0]
    /\ UNCHANGED <<peer, writing, outq, writeFailed>>

\* EOF or reset, after the buffered frames.
ReadFail(c) ==
    /\ reading[c] /\ inbound[c] = 0 /\ peer[c] = "closed"
    /\ EndRead(c)
    /\ Forget(c)

\* validate_header throws: bad magic or version.
BadHeader(c) ==
    /\ reading[c] /\ inbound[c] > 0
    /\ EndRead(c)
    /\ Forget(c)

\* More than 16 MiB announced: the loop ends without the cleanup.
PayloadTooLarge(c) ==
    /\ reading[c] /\ inbound[c] > 0
    /\ EndRead(c)
    /\ UNCHANGED authVars

\* A complete frame is read; do_read_header is called again afterwards.
TakeFrame(c) ==
    /\ reading[c] /\ inbound[c] > 0
    /\ inbound' = [inbound EXCEPT ![c] = @ - 1]
    /\ UNCHANGED <<peer, reading, writeFailed>>

\* HELLO, PONG, FILE_CHUNK, a refused FILE_DONE, an unknown type.
HandleSilently(c) ==
    /\ TakeFrame(c)
    /\ UNCHANGED <<writing, outq, authVars>>

\* PING, REGISTER_REQ, a refused LOGIN_REQ, file requests: one frame back.
HandleReply(c) ==
    /\ TakeFrame(c)
    /\ Sends(OneTo(c))
    /\ UNCHANGED authVars

\* LOGIN_REQ with good credentials, also on a connection already logged in:
\* LOGIN_RESP, set_auth, add_session, count().
HandleLogin(c, u) ==
    /\ issued < MaxLogins
    /\ TakeFrame(c)
    /\ Sends(OneTo(c))
    /\ issued' = issued + 1
    /\ tokenUser' = [tokenUser EXCEPT ![issued + 1] = u]
    /\ token' = [token EXCEPT ![c] = issued + 1]
    /\ user' = [user EXCEPT ![c] = u]
    /\ sessions' = Swept([sessions EXCEPT ![issued + 1] = c])

\* ONLINE_LIST_REQ: get_online_usernames sweeps the map.
HandleOnlineList(c) ==
    /\ TakeFrame(c)
    /\ Sends(OneTo(c))
    /\ sessions' = Swept(sessions)
    /\ UNCHANGED <<token, user, issued, tokenUser>>

\* FILE_ACCEPT_REQ of a transfer whose sender_token is t: FILE_ACCEPT_RESP to
\* the session found under t, then to the receiver itself.
HandleNotify(c, t) ==
    /\ IsAuthenticated(c)
    /\ GetSession(t) # NoConn
    /\ outq[GetSession(t)] < MaxOutq
    /\ TakeFrame(c)
    /\ Sends(OneToEach(c, GetSession(t)))
    /\ UNCHANGED authVars

ReadStep(c) ==
    \/ ReadFail(c)
    \/ BadHeader(c)
    \/ PayloadTooLarge(c)
    \/ HandleSilently(c)
    \/ HandleReply(c)
    \/ \E u \in Users : HandleLogin(c, u)
    \/ HandleOnlineList(c)
    \/ \E t \in Tokens : HandleNotify(c, t)

WriteStep(c) == WriteDone(c) \/ WriteFail(c)

PeerStep(c) == Accept(c) \/ PeerSends(c) \/ PeerCloses(c) \/ PeerLost(c)

Next == \E c \in Conns : ReadStep(c) \/ WriteStep(c) \/ PeerStep(c)

Spec == Init /\ [][Next]_vars

\* io.run() runs every ready handler; TCP answers a write to a closed peer with
\* a reset, so such writes do not succeed for ever.
Fairness ==
    \A c \in Conns :
        /\ WF_vars(ReadStep(c))
        /\ WF_vars(WriteStep(c))
        /\ SF_vars(WriteFail(c))

FairSpec == Spec /\ Fairness

-----------------------------------------------------------------------------
(***************************************************************************)
(* A live authenticated session is registered under its token, so the user *)
(* is listed online and can be notified: no error path clears one of the   *)
(* two without the other, and the sweeps erase nobody else's entry         *)
(* (tcp_session.cpp:70-156, 214-224, 302-312; session_manager.cpp:32-63).  *)
(***************************************************************************)
AuthRegistered ==
    \A c \in Conns :
        Alive(c) /\ IsAuthenticated(c) => sessions[token[c]] = c

(***************************************************************************)
(* A session never has two async_writes outstanding, which would interleave*)
(* the bytes of two frames, although other sessions' handlers also send on *)
(* it; and frames wait without a running write only after a write failed   *)
(* (tcp_session.cpp:292-317).                                              *)
(***************************************************************************)
WritesSerialized ==
    \A c \in Conns :
        /\ writing[c] <= 1
        /\ writing[c] = 1 => outq[c] > 0
        /\ writing[c] = 0 /\ outq[c] > 0 => writeFailed[c]

(***************************************************************************)
(* A destroyed TcpSession is never used again: nobody sends on it through a*)
(* stale entry of sessions_ (session_manager.cpp:65-72).                   *)
(***************************************************************************)
NoUseAfterDestruction ==
    [][\A c \in Conns : peer[c] # "none" /\ ~Alive(c) => ~Alive(c)']_vars

(***************************************************************************)
(* A user whose client has closed the connection leaves the online list for*)
(* good, whatever was still queued in either direction, also when frames   *)
(* read after the close log the connection in again.                       *)
(***************************************************************************)
ClosedLeavesList ==
    \A c \in Conns : (peer[c] = "closed") ~> [](~Listed(c))

(***************************************************************************)
(* Seen through live sessions only, the code implements SessionDirectory.  *)
(***************************************************************************)
LiveToken == [c \in Conns |-> IF Alive(c) THEN token[c] ELSE NoToken]
LiveUser == [c \in Conns |-> IF Alive(c) THEN user[c] ELSE NoUser]
LiveHolder == [t \in Tokens |-> GetSession(t)]

Directory == INSTANCE SessionDirectory
    WITH token <- LiveToken, user <- LiveUser, holder <- LiveHolder

\* Every handler changes the directory of live sessions by one login, one loss
\* of authentication or one disappearance, and never another connection's part.
ImplementsDirectory == Directory!DirSpec
=============================================================================
