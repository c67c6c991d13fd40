-------------------------- MODULE TransferClients ---------------------------
(***************************************************************************)
(* The transfer client (client/src/test_file_transfer.cpp) and the Core    *)
(* together: any number of processes, each of which connects, logs in and  *)
(* runs do_send or do_recv once, over connections that keep the order of   *)
(* frames, against the handlers of FileTransfer.                           *)
(*                                                                         *)
(* The replies carry less than the requests: FILE_ACCEPT_RESP has no       *)
(* transfer id, and the sender does not compare the id of FILE_RESULT with *)
(* its own.  A process stops at the first reply it does not expect.        *)
(***************************************************************************)
EXTENDS FileTransfer, FiniteSets

CONSTANTS
    SendAs, RecvAs, \* bound: the users whose processes send, and receive
    MayShrink,      \* TRUE when the sender's file may end earlier than announced
    MayDie          \* TRUE when a client process may be killed

\* Connections are numbered in the order in which their processes start.
ASSUME ConnsAssumption == Conns \subseteq Nat
ASSUME UsersAssumption == SendAs \subseteq Users /\ RecvAs \subseteq Users
ASSUME ClientAssumption == MayShrink \in BOOLEAN /\ MayDie \in BOOLEAN
\* The bounds leave room for a transfer, and for the chunks of every file.
ASSUME ClientBounds ==
    /\ MaxTransfers > 0
    /\ \A n \in FileSizes : n <= MaxIndex + 1

VARIABLES
    proc,           \* the process at the other end of each connection
    toCore,         \* frames on their way to the Core
    toClient,       \* frames on their way to the process
    torn            \* history: transfers that FAILED because a write, or the fopen
                    \* of a repeated accept, failed

clientVars == <<proc, toCore, toClient, torn>>
allVars == <<vars, clientVars>>

\* at: where the process stands; me: its user; to, size: do_send's receiver and
\* file, in chunks; id: the transfer; next: do_send's chunk_index.
Running == {"login", "offer", "wait", "send", "result", "accept"}
Process ==
    [at : Running \cup {"none", "success", "failed"}, mode : {"send", "recv"},
     me : Users \cup {NoUser}, to : Users \cup {NoUser}, size : FileSizes \cup {0},
     id : 0 .. MaxTransfers, next : Nat]
NoProcess ==
    [at |-> "none", mode |-> "recv", me |-> NoUser, to |-> NoUser, size |-> 0,
     id |-> 0, next |-> 0]

Request ==
    [type : {"LOGIN_REQ"}]
    \cup [type : {"OFFER_REQ"}, to : Users \cup {NoUser}, size : FileSizes]
    \cup [type : {"ACCEPT_REQ", "DONE"}, id : Ids]
    \cup [type : {"CHUNK"}, id : Ids, index : 0 .. MaxIndex]
Answer ==
    [type : {"LOGIN_RESP", "OFFER_RESP", "ACCEPT_RESP", "RESULT"}, ok : BOOLEAN,
     id : 0 .. MaxTransfers + 1]

Ended(c) == proc[c].at \in {"success", "failed"}
Senders == {c \in Conns : proc[c].mode = "send"}

ClientTypeOK ==
    /\ TypeOK
    /\ proc \in [Conns -> Process]
    /\ toCore \in [Conns -> Seq(Request)]
    /\ toClient \in [Conns -> Seq(Answer)]
    /\ \A c \in Conns :
          /\ proc[c].next <= proc[c].size
          /\ Len(toCore[c]) <= proc[c].size + 1
    /\ torn \subseteq Ids

ClientInit ==
    /\ Init
    /\ proc = [c \in Conns |-> NoProcess]
    /\ toCore = [c \in Conns |-> <<>>]
    /\ toClient = [c \in Conns |-> <<>>]
    /\ torn = {}

-----------------------------------------------------------------------------
\* The client processes

CoreIdle == sent' = <<>> /\ UNCHANGED <<dirVars, storeVars, histVars, torn>>

\* The process exits; what it has not read is dropped.
Exits(c, at) ==
    /\ proc' = [proc EXCEPT ![c].at = at]
    /\ toClient' = [toClient EXCEPT ![c] = <<>>]
    /\ UNCHANGED toCore

\* The process moves on to p and writes the request m.
Asks(c, p, m) ==
    /\ proc' = [proc EXCEPT ![c] = p]
    /\ toCore' = [toCore EXCEPT ![c] = Append(@, m)]

\* Processes use connections of their own, in the order of their numbers.
IsNext(c) == \A d \in Conns : proc[d].at = "none" <=> d >= c

\* main and do_login: connect and send LOGIN_REQ.
StartSend(c, u, r, n) ==
    /\ IsNext(c)
    /\ Cardinality(Senders) < MaxTransfers
    /\ Asks(c, [NoProcess EXCEPT !.at = "login", !.mode = "send", !.me = u,
                                 !.to = r, !.size = n],
            [type |-> "LOGIN_REQ"])
    /\ UNCHANGED toClient
    /\ CoreIdle

\* The transfer id on recv's command line is that of an offer: the sender's
\* process prints it.
StartRecv(c, u, i) ==
    /\ IsNext(c)
    /\ i < nextId
    /\ Asks(c, [NoProcess EXCEPT !.at = "login", !.me = u, !.id = i],
            [type |-> "LOGIN_REQ"])
    /\ UNCHANGED toClient
    /\ CoreIdle

\* The reply that each blocking read_header is followed by a test for.
Expected(at) ==
    CASE at = "login" -> "LOGIN_RESP"
      [] at = "offer" -> "OFFER_RESP"
      [] at \in {"wait", "accept"} -> "ACCEPT_RESP"
      [] at = "result" -> "RESULT"

\* A blocking read returns.
Reads(c) ==
    /\ proc[c].at \in Running \ {"send"}
    /\ toClient[c] # <<>>
    /\ CoreIdle

\* Another type, or a status that is not OK: the process reports and exits.
ReadUnexpected(c) ==
    LET m == Head(toClient[c]) IN
    /\ Reads(c)
    /\ m.type # Expected(proc[c].at) \/ ~m.ok
    /\ Exits(c, "failed")

\* The reply that the process is waiting for at this point.
Answered(c, at) ==
    /\ Reads(c)
    /\ proc[c].at = at
    /\ Head(toClient[c]).type = Expected(at) /\ Head(toClient[c]).ok

\* do_login returns true: the request of do_send or do_recv.
LoggedOn(c) ==
    LET p == proc[c] IN
    /\ Answered(c, "login")
    /\ IF p.mode = "send"
       THEN Asks(c, [p EXCEPT !.at = "offer"],
                 [type |-> "OFFER_REQ", to |-> p.to, size |-> p.size])
       ELSE Asks(c, [p EXCEPT !.at = "accept"], [type |-> "ACCEPT_REQ", id |-> p.id])
    /\ toClient' = [toClient EXCEPT ![c] = Tail(@)]

\* FILE_OFFER_RESP: do_send notes the transfer id and waits for the receiver.
OfferTaken(c) ==
    /\ Answered(c, "offer")
    /\ proc' = [proc EXCEPT ![c].at = "wait", ![c].id = Head(toClient[c]).id]
    /\ toClient' = [toClient EXCEPT ![c] = Tail(@)]
    /\ UNCHANGED toCore

\* FILE_ACCEPT_RESP, whoever caused it: do_send starts its chunk loop.
ReceiverAccepted(c) ==
    /\ Answered(c, "wait")
    /\ proc' = [proc EXCEPT ![c].at = "send"]
    /\ toClient' = [toClient EXCEPT ![c] = Tail(@)]
    /\ UNCHANGED toCore

\* FILE_RESULT for do_send, FILE_ACCEPT_RESP for do_recv: SUCCESS, and exit.
SendSucceeds(c) == Answered(c, "result") /\ Exits(c, "success")
RecvSucceeds(c) == Answered(c, "accept") /\ Exits(c, "success")

\* Mutant: the chunk loop runs once too often.
SendChunkTooMany(c) ==
    LET p == proc[c] IN
    /\ p.at = "send"
    /\ p.next <= p.size
    /\ Asks(c, [p EXCEPT !.next = @ + 1],
            [type |-> "CHUNK", id |-> p.id, index |-> p.next])
    /\ UNCHANGED toClient
    /\ CoreIdle

\* One turn of do_send's chunk loop.
SendChunk(c) ==
    LET p == proc[c] IN
    /\ p.at = "send"
    /\ p.next < p.size
    /\ Asks(c, [p EXCEPT !.next = @ + 1],
            [type |-> "CHUNK", id |-> p.id, index |-> p.next])
    /\ UNCHANGED toClient
    /\ CoreIdle

\* Mutant: FILE_DONE is sent again while the result is awaited.
SendDoneAgain(c) ==
    LET p == proc[c] IN
    /\ p.at = "send" \/ (p.at = "result" /\ toCore[c] = <<>>)
    /\ p.next = p.size \/ MayShrink
    /\ Asks(c, [p EXCEPT !.at = "result"], [type |-> "DONE", id |-> p.id])
    /\ UNCHANGED toClient
    /\ CoreIdle

\* The loop ends, or breaks because the file has no more bytes: FILE_DONE.
SendDone(c) ==
    LET p == proc[c] IN
    /\ p.at = "send"
    /\ p.next = p.size \/ MayShrink
    /\ Asks(c, [p EXCEPT !.at = "result"], [type |-> "DONE", id |-> p.id])
    /\ UNCHANGED toClient
    /\ CoreIdle

Die(c) ==
    /\ MayDie /\ proc[c].at \in Running
    /\ Exits(c, "failed")
    /\ CoreIdle

-----------------------------------------------------------------------------
\* The Core

\* The n-th frame a handler passed to send(), as it arrives at d.
Arrives(d, frames, n, id) ==
    IF n <= Len(frames) /\ frames[n].to = d /\ ~Ended(d)
    THEN <<[type |-> frames[n].type, ok |-> frames[n].ok, id |-> id]>> ELSE <<>>

\* Mutant: replies that report a failure are not sent.
RepliesGood(c, id) ==
    /\ toCore' = [toCore EXCEPT ![c] = Tail(@)]
    /\ toClient' = [d \in Conns |->
          IF \E n \in DOMAIN sent' : ~sent'[n].ok THEN toClient[d]
          ELSE toClient[d] \o Arrives(d, sent', 1, id) \o Arrives(d, sent', 2, id)]
    /\ UNCHANGED proc

\* The frame of c is handled; what the handler sent, at most two frames, goes to
\* its connections.
Replies(c, id) ==
    /\ toCore' = [toCore EXCEPT ![c] = Tail(@)]
    /\ toClient' = [d \in Conns |->
          toClient[d] \o Arrives(d, sent', 1, id) \o Arrives(d, sent', 2, id)]
    /\ UNCHANGED proc

Receives(c, type) == toCore[c] # <<>> /\ Head(toCore[c]).type = type

\* LOGIN_REQ with good or bad credentials.
CoreLogin(c) ==
    /\ Receives(c, "LOGIN_REQ")
    /\ \E ok \in BOOLEAN :
          /\ IF ok THEN LogIn(c, proc[c].me) ELSE UNCHANGED dirVars
          /\ toClient' = [toClient EXCEPT ![c] =
                IF Ended(c) THEN @
                ELSE Append(@, [type |-> "LOGIN_RESP", ok |-> ok, id |-> 0])]
    /\ toCore' = [toCore EXCEPT ![c] = Tail(@)]
    /\ sent' = <<>>
    /\ UNCHANGED <<storeVars, histVars, proc, torn>>

\* do_send offers path.filename(), which leads into the transfer's own directory.
CoreOffer(c) ==
    LET m == Head(toCore[c]) IN
    /\ Receives(c, "OFFER_REQ")
    /\ \/ m.to \in Users /\ Offer(c, m.to, m.size, nextId)
       \/ OfferRefused(c, m.to, TRUE)
    /\ Replies(c, nextId)
    /\ UNCHANGED torn

CoreAccept(c) ==
    LET i == Head(toCore[c]).id IN
    /\ Receives(c, "ACCEPT_REQ")
    /\ \/ \E a \in Addresses : Accept(c, i, a) /\ UNCHANGED torn
       \/ AcceptCannotOpen(c, i) /\ torn' = torn \cup ({i} \cap consent)
       \/ AcceptRefused(c, i, TRUE) /\ UNCHANGED torn
    /\ Replies(c, 0)

CoreChunk(c) ==
    LET m == Head(toCore[c]) IN
    /\ Receives(c, "CHUNK")
    /\ \/ ChunkWritten(c, m.id, m.index) /\ UNCHANGED torn
       \/ ChunkWriteFails(c, m.id) /\ torn' = torn \cup {m.id}
       \/ ~(MaySend(c, m.id) /\ TakesChunks(m.id)) /\ Ignored(c, m.id, TRUE) /\ UNCHANGED torn
    /\ Replies(c, 0)

CoreDone(c) ==
    LET i == Head(toCore[c]).id IN
    /\ Receives(c, "DONE")
    /\ \/ Done(c, i)
       \/ ~MaySend(c, i) /\ Ignored(c, i, TRUE)
    /\ Replies(c, i)
    /\ UNCHANGED torn

CoreStep(c) == CoreLogin(c) \/ CoreOffer(c) \/ CoreAccept(c) \/ CoreChunk(c) \/ CoreDone(c)

\* The process is gone: what it wrote last may be lost with the connection, a
\* write to it fails while its frames are still being read, and the session
\* ends once they are.
Lose(c) ==
    /\ Ended(c) /\ toCore[c] # <<>>
    /\ toCore' = [toCore EXCEPT ![c] = <<>>]
    /\ UNCHANGED <<proc, toClient>>
    /\ CoreIdle

CoreWriteFails(c) ==
    /\ Ended(c)
    /\ LoseAuth(c)
    /\ sent' = <<>>
    /\ UNCHANGED <<storeVars, histVars, clientVars>>

CoreCloses(c) ==
    /\ Ended(c) /\ toCore[c] = <<>> /\ IsAuthenticated(c)
    /\ Vanish(c)
    /\ sent' = <<>>
    /\ UNCHANGED <<storeVars, histVars, clientVars>>

ClientStep(c) ==
    \/ ReadUnexpected(c) \/ LoggedOn(c)
    \/ OfferTaken(c) \/ ReceiverAccepted(c) \/ SendChunk(c) \/ SendDone(c)
    \/ SendSucceeds(c) \/ RecvSucceeds(c)

ClientNext ==
    \E c \in Conns :
        \/ \E u \in SendAs, r \in Users \cup {NoUser}, n \in FileSizes : StartSend(c, u, r, n)
        \/ \E u \in RecvAs, i \in Ids : StartRecv(c, u, i)
        \/ ClientStep(c) \/ Die(c)
        \/ CoreStep(c)
        \/ Lose(c) \/ CoreWriteFails(c) \/ CoreCloses(c)

ClientSpec == ClientInit /\ [][ClientNext]_allVars

\* A process that can go on does, and io.run() handles every frame received.
ClientFairSpec ==
    /\ ClientSpec
    /\ \A c \in Conns : WF_allVars(ClientStep(c)) /\ WF_allVars(CoreStep(c))

-----------------------------------------------------------------------------
(***************************************************************************)
(* A sender that prints SUCCESS has exactly the chunks it sent in the file *)
(* stored under its transfer, unless a write, the fopen of a repeated      *)
(* accept or the last flush failed: also when the receiver accepts again   *)
(* before or between the chunks, which truncates the .part file, because   *)
(* the second FILE_ACCEPT_RESP then makes the sender give up               *)
(* (test_file_transfer.cpp:272-398, tcp_session.cpp:442-496, 541-613).     *)
(***************************************************************************)
SuccessMeansStored ==
    \A c \in Conns :
        LET p == proc[c] IN
        p.at = "success" /\ p.mode = "send" /\ p.id \notin torn \cup lossy =>
            /\ disk[Path(p.id, "final")] # NoFile
            /\ disk[Path(p.id, "final")].data = Prefix(p.id, p.next)

(***************************************************************************)
(* Every FILE_CHUNK and FILE_DONE that the Core acts on finds, in its      *)
(* transfer, an open FILE* on the transfer's own .part file.  file_handle  *)
(* is null until an accept and keeps its value after fclose, and the Core  *)
(* does not look at the state before finalize_file: only the client, which *)
(* waits for FILE_ACCEPT_RESP and sends one FILE_DONE, keeps it valid, also*)
(* when processes are killed and receivers accept again                    *)
(* (tcp_session.cpp:442-505, 541-613, file_store.cpp:101-115,              *)
(* test_file_transfer.cpp:272-398).                                        *)
(***************************************************************************)
FilesOpenWhenUsed ==
    \A c \in Conns : toCore[c] # <<>> =>
        LET m == Head(toCore[c])
            a == transfers[m.id].handle
        IN  /\ m.type \in {"CHUNK", "DONE"} /\ MaySend(c, m.id)
            /\ m.type = "CHUNK" => TakesChunks(m.id)
            => /\ a # Null
               /\ streams[a] # Closed
               /\ streams[a].path = Path(m.id, "part")

\* A sender whose transfer nobody has accepted, or whose .part file could not be
\* opened, waits: there is no timeout.
Unanswered(c) ==
    proc[c].at = "wait" /\ transfers[proc[c].id].state \in {"OFFERED", "FAILED"}

(***************************************************************************)
(* No process hangs: unless it is a sender whose transfer is not accepted, *)
(* every process gets all the replies it waits for and ends, whatever the  *)
(* other processes do, also when a write or the rename fails or a receiver *)
(* accepts twice (test_file_transfer.cpp:214-447, tcp_session.cpp:461-505, *)
(* 586-613).                                                               *)
(***************************************************************************)
NobodyHangs ==
    \A c \in Conns :
        (proc[c].at \in Running /\ ~Unanswered(c)) ~> (Ended(c) \/ Unanswered(c))

(***************************************************************************)
(* test_file_transfer.cpp:398, "[SEND] SUCCESS! File saved at: ": the whole*)
(* file that was offered has been stored.                                  *)
(***************************************************************************)
SuccessMeansSaved ==
    \A c \in Conns :
        LET p == proc[c] IN
        p.at = "success" /\ p.mode = "send" =>
            disk[Path(p.id, "final")].data = Prefix(p.id, p.size)
=============================================================================
