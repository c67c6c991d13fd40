----------------------- MODULE TransferClientsProofs ------------------------
(***************************************************************************)
(* Proofs about TransferClients, for any number of processes, any users,   *)
(* file sizes and faults.                                                  *)
(***************************************************************************)
EXTENDS TransferClients, FileContentProofs

-----------------------------------------------------------------------------
(***************************************************************************)
(* The protocol between a process and the Core: what a process has noted,  *)
(* how many requests are on their way, which replies may be.               *)
(***************************************************************************)

\* Every reply in the sequence has one of these types.
Only(in, types) == \A n \in 1 .. Len(in) : in[n].type \in types

ClientTypes ==
    /\ proc \in [Conns -> Process]
    /\ toCore \in [Conns -> Seq(Request)]
    /\ toClient \in [Conns -> Seq(Answer)]
    /\ torn \subseteq Ids

\* What the process p has noted.
Noted(p) ==
    /\ p.at # "none" => p.me \in Users
    /\ p.at # "none" /\ p.mode = "send" => p.size \in FileSizes
    /\ p.at \in {"offer", "wait", "send", "result"} => p.mode = "send"
    /\ p.at # "none" /\ p.mode = "recv" => p.id \in Ids
    /\ p.at \in {"wait", "send", "result"} => p.id \in Ids
    /\ p.at \in {"none", "login", "offer", "wait", "accept"} => p.next = 0
    /\ p.next <= p.size

\* The requests that are on their way.
Written(p, out) ==
    /\ Len(out) <= p.next + 1
    /\ p.at \in {"none", "wait"} => out = <<>>
    /\ p.at = "send" => Len(out) <= p.next
    /\ p.at = "login" => \A n \in 1 .. Len(out) : out[n].type = "LOGIN_REQ"

\* The replies that are on their way.
Coming(p, out, in) ==
    /\ p.at = "none" => Only(in, {"ACCEPT_RESP"})
    /\ p.at = "login" => Only(in, {"LOGIN_RESP", "ACCEPT_RESP"})
    /\ p.at = "login" /\ out # <<>> => Only(in, {"ACCEPT_RESP"})
    /\ p.at = "offer" /\ out # <<>> => Only(in, {"LOGIN_RESP", "ACCEPT_RESP"})
    /\ \A n \in 1 .. Len(in) : in[n].type = "OFFER_RESP" /\ in[n].ok => in[n].id \in Ids

Protocol(p, out, in) == Noted(p) /\ Written(p, out) /\ Coming(p, out, in)

PInv ==
    /\ ClientTypes
    /\ \A c \in Conns : Protocol(proc[c], toCore[c], toClient[c])

LEMMA ConnTypes ==
    ASSUME ClientTypes, NEW c \in Conns
    PROVE  /\ proc[c] \in Process
           /\ toCore[c] \in Seq(Request) /\ Len(toCore[c]) \in Nat
           /\ toClient[c] \in Seq(Answer) /\ Len(toClient[c]) \in Nat
BY DEF ClientTypes

LEMMA ProcessFields ==
    ASSUME NEW p \in Process
    PROVE  /\ p.at \in Running \cup {"none", "success", "failed"}
           /\ p.mode \in {"send", "recv"}
           /\ p.me \in Users \cup {NoUser} /\ p.to \in Users \cup {NoUser}
           /\ p.size \in FileSizes \cup {0} /\ p.size \in Nat
           /\ p.id \in 0 .. MaxTransfers /\ p.next \in Nat
<1>1. p.size \in FileSizes \cup {0}
  BY DEF Process
<1>2. p.size \in Nat
  <2>1. FileSizes \cup {0} \subseteq Nat
    BY TransferBounds
  <2> QED BY <1>1, <2>1
<1>3. p.at \in Running \cup {"none", "success", "failed"} /\ p.mode \in {"send", "recv"}
  BY DEF Process
<1>4. /\ p.me \in Users \cup {NoUser} /\ p.to \in Users \cup {NoUser}
      /\ p.id \in 0 .. MaxTransfers /\ p.next \in Nat
  BY DEF Process
<1> QED BY <1>1, <1>2, <1>3, <1>4

LEMMA ProtocolTypes ==
    ASSUME FInv, PInv PROVE ClientTypeOK
<1> SUFFICES ASSUME NEW c \in Conns
             PROVE  proc[c].next <= proc[c].size /\ Len(toCore[c]) <= proc[c].size + 1
  BY DEF ClientTypeOK, FInv, PInv, ClientTypes
<1>1. Noted(proc[c]) /\ Written(proc[c], toCore[c])
  BY DEF PInv, Protocol
<1>2. proc[c].next \in Nat /\ proc[c].size \in Nat /\ Len(toCore[c]) \in Nat
  BY ConnTypes, ProcessFields DEF PInv
<1>3. proc[c].next <= proc[c].size
  BY <1>1 DEF Noted
<1>4. Len(toCore[c]) <= proc[c].next + 1
  BY <1>1 DEF Written
<1> QED BY <1>2, <1>3, <1>4

LEMMA NoProcessType == NoProcess \in Process
BY TransferBounds DEF NoProcess, Process

LEMMA InitProtocol == ClientInit => PInv
<1> SUFFICES ASSUME ClientInit PROVE PInv
  OBVIOUS
<1>2. ClientTypes
  BY NoProcessType DEF ClientInit, ClientTypes
<1>3. Noted(NoProcess)
  BY DEF NoProcess, Noted
<1>4. Written(NoProcess, <<>>) /\ Coming(NoProcess, <<>>, <<>>)
  BY DEF NoProcess, Written, Coming, Only
<1> QED BY <1>2, <1>3, <1>4 DEF ClientInit, PInv, Protocol

-----------------------------------------------------------------------------
\* The processes

\* A step that concerns one connection.
LEMMA OwnStep ==
    ASSUME PInv, NEW c \in Conns, NEW p \in Process, NEW out \in Seq(Request),
           NEW in \in Seq(Answer), Protocol(p, out, in),
           proc' = [proc EXCEPT ![c] = p],
           toCore' = [toCore EXCEPT ![c] = out],
           toClient' = [toClient EXCEPT ![c] = in],
           torn' \subseteq Ids
    PROVE  PInv'
<1>1. ClientTypes'
  BY DEF PInv, ClientTypes
<1>2. ASSUME NEW d \in Conns PROVE Protocol(proc'[d], toCore'[d], toClient'[d])
  BY DEF PInv, ClientTypes
<1> QED BY <1>1, <1>2 DEF PInv

\* A step of a process is, for the Core, a message it ignores.
LEMMA IdleIsStep ==
    ASSUME NEW c \in Conns, CoreIdle PROVE Next
<1>1. 1 \in Ids
  BY ClientBounds, TransferBounds DEF Ids
<1>2. Ignored(c, 1, FALSE)
  BY DEF CoreIdle, Ignored
<1> QED BY <1>1, <1>2 DEF Next, FileStep

\* What Asks leaves on its way.
LEMMA OneMoreRequest ==
    ASSUME NEW out \in Seq(Request), NEW m \in Request
    PROVE  /\ Append(out, m) \in Seq(Request) /\ Append(out, m) # <<>>
           /\ Len(Append(out, m)) = Len(out) + 1
           /\ Append(out, m)[Len(out) + 1] = m
           /\ \A n \in 1 .. Len(out) : Append(out, m)[n] = out[n]
BY AppendProperties

LEMMA StartProtocol ==
    ASSUME PInv, NEW c \in Conns, NEW p \in Process, p.at = "login", Noted(p),
           IsNext(c), Asks(c, p, [type |-> "LOGIN_REQ"]), UNCHANGED <<toClient, torn>>
    PROVE  PInv'
<1> DEFINE m == [type |-> "LOGIN_REQ"]
           out == Append(toCore[c], m)
<1>1. /\ toCore[c] = <<>> /\ Only(toClient[c], {"ACCEPT_RESP"})
      /\ Coming(proc[c], toCore[c], toClient[c])
  <2>1. proc[c].at = "none"
    BY ConnsAssumption DEF IsNext
  <2> QED BY <2>1 DEF PInv, Protocol, Written, Coming
<1>2. m \in Request
  BY DEF Request
<1>3. toCore[c] \in Seq(Request) /\ toClient[c] \in Seq(Answer)
  BY ConnTypes DEF PInv
<1>4. out \in Seq(Request) /\ Len(out) = 1 /\ out[1].type = "LOGIN_REQ"
  BY <1>1, <1>2, <1>3, OneMoreRequest
<1>5. Written(p, out)
  BY <1>4, ProcessFields DEF Written
<1>6. Coming(p, out, toClient[c])
  BY <1>1 DEF Coming, Only
<1>7. proc' = [proc EXCEPT ![c] = p] /\ toCore' = [toCore EXCEPT ![c] = out]
  BY DEF Asks
<1>8. toClient' = [toClient EXCEPT ![c] = toClient[c]] /\ torn' \subseteq Ids
  BY DEF PInv, ClientTypes
<1> HIDE DEF out
<1> QED BY <1>3, <1>4, <1>5, <1>6, <1>7, <1>8, OwnStep DEF Protocol

LEMMA StartSendProtocol ==
    ASSUME PInv, NEW c \in Conns, NEW u \in SendAs, NEW r \in Users \cup {NoUser},
           NEW n \in FileSizes, StartSend(c, u, r, n)
    PROVE  PInv'
<1> DEFINE p == [NoProcess EXCEPT !.at = "login", !.mode = "send", !.me = u,
                                  !.to = r, !.size = n]
<1>1. /\ p.at = "login" /\ p.mode = "send" /\ p.me = u /\ p.size = n /\ p.next = 0
  BY DEF NoProcess
<1>2. p \in Process
  BY NoProcessType, UsersAssumption DEF Process, Running
<1>3. Noted(p)
  <2>1. u \in Users /\ 0 <= n
    BY UsersAssumption, TransferBounds
  <2> HIDE DEF p
  <2> QED BY <1>1, <2>1 DEF Noted
<1> HIDE DEF p
<1>4. Asks(c, p, [type |-> "LOGIN_REQ"])
  BY DEF StartSend, p
<1> QED BY <1>1, <1>2, <1>3, <1>4, StartProtocol DEF StartSend, CoreIdle

LEMMA StartRecvProtocol ==
    ASSUME PInv, NEW c \in Conns, NEW u \in RecvAs, NEW i \in Ids, StartRecv(c, u, i)
    PROVE  PInv'
<1> DEFINE p == [NoProcess EXCEPT !.at = "login", !.me = u, !.id = i]
<1>1. /\ p.at = "login" /\ p.mode = "recv" /\ p.me = u /\ p.size = 0 /\ p.next = 0
      /\ p.id = i
  BY DEF NoProcess
<1>2. p \in Process
  <2>1. u \in Users /\ i \in 0 .. MaxTransfers
    BY UsersAssumption DEF Ids
  <2> QED BY <2>1, NoProcessType DEF Process, Running
<1>3. Noted(p)
  <2>1. u \in Users
    BY UsersAssumption
  <2> HIDE DEF p
  <2> QED BY <1>1, <2>1 DEF Noted
<1> HIDE DEF p
<1>4. Asks(c, p, [type |-> "LOGIN_REQ"])
  BY DEF StartRecv, p
<1> QED BY <1>1, <1>2, <1>3, <1>4, StartProtocol DEF StartRecv, CoreIdle

\* A process that has ended, however.
LEMMA ExitProtocol ==
    ASSUME PInv, NEW c \in Conns, NEW at \in {"success", "failed"}, Exits(c, at),
           proc[c].at # "none", UNCHANGED torn
    PROVE  PInv'
<1> DEFINE p == [proc[c] EXCEPT !.at = at]
<1>1. /\ proc[c] \in Process /\ toCore[c] \in Seq(Request)
      /\ Protocol(proc[c], toCore[c], toClient[c])
  BY ConnTypes DEF PInv
<1>2. /\ p.at = at /\ p.mode = proc[c].mode /\ p.me = proc[c].me /\ p.size = proc[c].size
      /\ p.id = proc[c].id /\ p.next = proc[c].next
  BY <1>1 DEF Process
<1>3. p \in Process
  BY <1>1 DEF Process
<1>4. /\ proc' = [proc EXCEPT ![c] = p]
      /\ toCore' = [toCore EXCEPT ![c] = toCore[c]]
      /\ toClient' = [toClient EXCEPT ![c] = <<>>]
  BY DEF Exits, PInv, ClientTypes
<1> HIDE DEF p
<1>5. Noted(p)
  BY <1>1, <1>2 DEF Protocol, Noted
<1>6. Written(p, toCore[c]) /\ Coming(p, toCore[c], <<>>)
  BY <1>1, <1>2 DEF Protocol, Written, Coming, Only
<1>7. torn' \subseteq Ids /\ <<>> \in Seq(Answer)
  BY DEF PInv, ClientTypes
<1> QED BY <1>1, <1>3, <1>4, <1>5, <1>6, <1>7, OwnStep DEF Protocol

\* The next reply and those behind it.
LEMMA NextReply ==
    ASSUME NEW in \in Seq(Answer), in # <<>>
    PROVE  /\ Head(in) \in Answer /\ Head(in) = in[1] /\ Len(in) > 0
           /\ Tail(in) \in Seq(Answer) /\ Len(Tail(in)) = Len(in) - 1
           /\ \A n \in 1 .. Len(Tail(in)) : Tail(in)[n] = in[n + 1]
BY HeadTailProperties, EmptySeq

\* A process that moves on to p, with the same or one more request on its way.
LEMMA MoveProtocol ==
    ASSUME PInv, NEW c \in Conns, toClient[c] # <<>>,
           NEW p \in Process, Noted(p), NEW out \in Seq(Request), Written(p, out),
           p.at \notin {"none", "login"},
           p.at = "offer" => proc[c].at = "login",
           proc' = [proc EXCEPT ![c] = p],
           toCore' = [toCore EXCEPT ![c] = out],
           toClient' = [toClient EXCEPT ![c] = Tail(@)],
           UNCHANGED torn
    PROVE  PInv'
<1> DEFINE in == Tail(toClient[c])
<1>1. toClient[c] \in Seq(Answer) /\ Coming(proc[c], toCore[c], toClient[c])
  BY ConnTypes DEF PInv, Protocol
<1>2. /\ in \in Seq(Answer) /\ Len(in) \in Nat
      /\ \A n \in 1 .. Len(in) : n + 1 \in 1 .. Len(toClient[c]) /\ in[n] = toClient[c][n + 1]
  BY <1>1, NextReply
<1>3. toClient' = [toClient EXCEPT ![c] = in] /\ torn' \subseteq Ids
  BY DEF PInv, ClientTypes
<1> HIDE DEF in
<1>4. Coming(p, out, in)
  <2>1. \A n \in 1 .. Len(in) : in[n].type = "OFFER_RESP" /\ in[n].ok => in[n].id \in Ids
    BY <1>1, <1>2 DEF Coming
  <2>2. p.at = "offer" => Only(in, {"LOGIN_RESP", "ACCEPT_RESP"})
    BY <1>1, <1>2 DEF Coming, Only
  <2> QED BY <2>1, <2>2 DEF Coming
<1> QED BY <1>2, <1>3, <1>4, OwnStep DEF Protocol

\* A reply is only there once the request has been handled.
LEMMA RequestHandled ==
    ASSUME PInv, NEW c \in Conns, NEW at \in {"login", "offer"}, Answered(c, at)
    PROVE  toCore[c] = <<>>
<1>1. toClient[c] \in Seq(Answer) /\ Coming(proc[c], toCore[c], toClient[c])
  BY ConnTypes DEF PInv, Protocol
<1>2. 1 \in 1 .. Len(toClient[c]) /\ Head(toClient[c]) = toClient[c][1]
  BY <1>1, NextReply DEF Answered, Reads
<1>3. Head(toClient[c]).type = IF at = "login" THEN "LOGIN_RESP" ELSE "OFFER_RESP"
  BY DEF Answered, Expected
<1>4. proc[c].at = at
  BY DEF Answered
<1> QED BY <1>1, <1>2, <1>3, <1>4 DEF Coming, Only

LEMMA LoggedOnProtocol ==
    ASSUME PInv, NEW c \in Conns, LoggedOn(c) PROVE PInv'
<1> DEFINE p == proc[c]
           s == [p EXCEPT !.at = "offer"]
           r == [p EXCEPT !.at = "accept"]
           ms == [type |-> "OFFER_REQ", to |-> p.to, size |-> p.size]
           mr == [type |-> "ACCEPT_REQ", id |-> p.id]
<1>1. p \in Process /\ Noted(p) /\ toCore[c] = <<>> /\ toCore[c] \in Seq(Request)
  BY ConnTypes, RequestHandled DEF PInv, Protocol, LoggedOn
<1>2. p.at = "login" /\ toClient[c] # <<>> /\ UNCHANGED torn
      /\ toClient' = [toClient EXCEPT ![c] = Tail(@)]
  BY DEF LoggedOn, Answered, Reads, CoreIdle
<1>3. CASE p.mode = "send"
  <2>1. /\ s \in Process /\ s.at = "offer" /\ s.mode = "send" /\ s.me = p.me
        /\ s.size = p.size /\ s.next = p.next
    BY <1>1, <1>3 DEF Process, Running
  <2>2. ms \in Request
    <3>1. p.to \in Users \cup {NoUser} /\ p.size \in FileSizes
      BY <1>1, <1>2, <1>3, ProcessFields DEF Noted
    <3> QED BY <3>1 DEF Request
  <2>3. proc' = [proc EXCEPT ![c] = s] /\ toCore' = [toCore EXCEPT ![c] = Append(@, ms)]
    BY <1>3 DEF LoggedOn, Asks
  <2> HIDE DEF s, ms
  <2>4. Noted(s)
    BY <1>1, <1>2, <1>3, <2>1 DEF Noted
  <2>5. Append(toCore[c], ms) \in Seq(Request) /\ Len(Append(toCore[c], ms)) = 1
    BY <1>1, <2>2, OneMoreRequest
  <2>6. Written(s, Append(toCore[c], ms))
    BY <2>1, <2>5, ProcessFields DEF Written
  <2> QED BY <1>2, <2>1, <2>3, <2>4, <2>5, <2>6, MoveProtocol
<1>4. CASE p.mode = "recv"
  <2>1. /\ r \in Process /\ r.at = "accept" /\ r.mode = "recv" /\ r.me = p.me
        /\ r.size = p.size /\ r.next = p.next /\ r.id = p.id
    BY <1>1, <1>4 DEF Process, Running
  <2>2. mr \in Request
    BY <1>1, <1>2, <1>4 DEF Noted, Request
  <2>3. proc' = [proc EXCEPT ![c] = r] /\ toCore' = [toCore EXCEPT ![c] = Append(@, mr)]
    BY <1>4 DEF LoggedOn, Asks
  <2> HIDE DEF r, mr
  <2>4. Noted(r)
    BY <1>1, <1>2, <1>4, <2>1 DEF Noted
  <2>5. Append(toCore[c], mr) \in Seq(Request) /\ Len(Append(toCore[c], mr)) = 1
    BY <1>1, <2>2, OneMoreRequest
  <2>6. Written(r, Append(toCore[c], mr))
    BY <2>1, <2>5, ProcessFields DEF Written
  <2> QED BY <1>2, <2>1, <2>3, <2>4, <2>5, <2>6, MoveProtocol
<1> QED BY <1>1, <1>3, <1>4, ProcessFields

LEMMA WaitProtocol ==
    ASSUME PInv, NEW c \in Conns, OfferTaken(c) \/ ReceiverAccepted(c) PROVE PInv'
<1> DEFINE p == proc[c]
           i == Head(toClient[c]).id
           w == [p EXCEPT !.at = "wait", !.id = i]
           s == [p EXCEPT !.at = "send"]
<1>1. /\ p \in Process /\ Protocol(p, toCore[c], toClient[c])
      /\ toCore[c] \in Seq(Request) /\ toClient[c] \in Seq(Answer)
  BY ConnTypes DEF PInv
<1>2. /\ toClient[c] # <<>> /\ UNCHANGED torn
      /\ toClient' = [toClient EXCEPT ![c] = Tail(@)]
      /\ toCore' = [toCore EXCEPT ![c] = toCore[c]]
  BY DEF OfferTaken, ReceiverAccepted, Answered, Reads, CoreIdle, PInv, ClientTypes
<1>3. CASE OfferTaken(c)
  <2>1. p.at = "offer" /\ Head(toClient[c]).type = "OFFER_RESP" /\ Head(toClient[c]).ok
    BY <1>3 DEF OfferTaken, Answered, Expected
  <2>2. i \in Ids
    <3>1. 1 \in 1 .. Len(toClient[c]) /\ Head(toClient[c]) = toClient[c][1]
      BY <1>1, <1>2, NextReply
    <3> QED BY <1>1, <2>1, <3>1 DEF Protocol, Coming
  <2>3. toCore[c] = <<>>
    BY <1>3, RequestHandled DEF OfferTaken
  <2>4. proc' = [proc EXCEPT ![c] = w]
    BY <1>1, <1>3 DEF OfferTaken, Process, PInv, ClientTypes
  <2>5. i \in 0 .. MaxTransfers
    BY <2>2 DEF Ids
  <2> HIDE DEF i
  <2>6. /\ w \in Process /\ w.at = "wait" /\ w.mode = p.mode /\ w.me = p.me
        /\ w.size = p.size /\ w.next = p.next /\ w.id = i
    BY <1>1, <2>5 DEF Process, Running
  <2> HIDE DEF w
  <2>7. Noted(w)
    BY <1>1, <2>1, <2>2, <2>6 DEF Protocol, Noted
  <2>8. Written(w, toCore[c])
    BY <2>3, <2>6, ProcessFields DEF Written
  <2> QED BY <1>1, <1>2, <2>4, <2>6, <2>7, <2>8, MoveProtocol
<1>4. CASE ReceiverAccepted(c)
  <2>1. p.at = "wait" /\ proc' = [proc EXCEPT ![c] = s]
    BY <1>4 DEF ReceiverAccepted, Answered
  <2>2. /\ s \in Process /\ s.at = "send" /\ s.mode = p.mode /\ s.me = p.me
        /\ s.size = p.size /\ s.next = p.next /\ s.id = p.id
    BY <1>1 DEF Process, Running
  <2> HIDE DEF s
  <2>3. Noted(s)
    BY <1>1, <2>1, <2>2 DEF Protocol, Noted
  <2>4. toCore[c] = <<>>
    BY <1>1, <2>1 DEF Protocol, Written
  <2>5. Written(s, toCore[c])
    BY <2>2, <2>4, ProcessFields DEF Written
  <2> QED BY <1>1, <1>2, <2>1, <2>2, <2>3, <2>5, MoveProtocol
<1> QED BY <1>3, <1>4

\* do_send's loop: one more request behind those on their way.
LEMMA SendProtocol ==
    ASSUME PInv, NEW c \in Conns, SendChunk(c) \/ SendDone(c) PROVE PInv'
<1> DEFINE p == proc[c]
           q == [p EXCEPT !.next = @ + 1]
           e == [p EXCEPT !.at = "result"]
           chunk == [type |-> "CHUNK", id |-> p.id, index |-> p.next]
           done == [type |-> "DONE", id |-> p.id]
<1>1. /\ p \in Process /\ Protocol(p, toCore[c], toClient[c])
      /\ toCore[c] \in Seq(Request) /\ toClient[c] \in Seq(Answer)
  BY ConnTypes DEF PInv
<1>2. p.at = "send" /\ UNCHANGED <<toClient, torn>>
  BY DEF SendChunk, SendDone, CoreIdle
<1>3. /\ p.id \in Ids /\ p.size \in FileSizes /\ p.next <= p.size
      /\ p.next \in Nat /\ p.size \in Nat
      /\ Len(toCore[c]) <= p.next /\ Len(toCore[c]) \in Nat
  BY <1>1, <1>2, ConnTypes, ProcessFields DEF PInv, Protocol, Noted, Written
<1>4. toClient' = [toClient EXCEPT ![c] = toClient[c]] /\ torn' \subseteq Ids
  BY <1>2 DEF PInv, ClientTypes
<1>5. CASE SendChunk(c)
  <2>1. p.next < p.size
    BY <1>5 DEF SendChunk
  <2>2. chunk \in Request
    <3>1. p.size <= MaxIndex + 1
      BY <1>3, ClientBounds
    <3>2. p.next \in 0 .. MaxIndex
      BY <1>3, <2>1, <3>1, TransferBounds
    <3> QED BY <1>3, <3>2 DEF Request
  <2>3. proc' = [proc EXCEPT ![c] = q] /\ toCore' = [toCore EXCEPT ![c] = Append(@, chunk)]
    BY <1>5 DEF SendChunk, Asks
  <2>4. /\ q \in Process /\ q.at = p.at /\ q.mode = p.mode /\ q.me = p.me
        /\ q.size = p.size /\ q.next = p.next + 1 /\ q.id = p.id
    BY <1>1, <1>3 DEF Process
  <2> HIDE DEF q, chunk
  <2>5. Noted(q)
    BY <1>1, <1>2, <1>3, <2>1, <2>4 DEF Protocol, Noted
  <2>6. Append(toCore[c], chunk) \in Seq(Request) /\ Len(Append(toCore[c], chunk)) <= p.next + 1
    BY <1>1, <1>3, <2>2, OneMoreRequest
  <2>7. Len(Append(toCore[c], chunk)) \in Nat
    BY <2>6, LenProperties
  <2>8. Written(q, Append(toCore[c], chunk))
    BY <1>2, <1>3, <2>4, <2>6, <2>7 DEF Written
  <2>9. Coming(q, Append(toCore[c], chunk), toClient[c])
    BY <1>1, <1>2, <2>4 DEF Protocol, Coming
  <2> QED BY <1>1, <1>4, <2>3, <2>4, <2>5, <2>6, <2>8, <2>9, OwnStep DEF Protocol
<1>6. CASE SendDone(c)
  <2>1. done \in Request
    BY <1>3 DEF Request
  <2>2. proc' = [proc EXCEPT ![c] = e] /\ toCore' = [toCore EXCEPT ![c] = Append(@, done)]
    BY <1>6 DEF SendDone, Asks
  <2>3. /\ e \in Process /\ e.at = "result" /\ e.mode = p.mode /\ e.me = p.me
        /\ e.size = p.size /\ e.next = p.next /\ e.id = p.id
    BY <1>1 DEF Process, Running
  <2> HIDE DEF e, done
  <2>4. Noted(e)
    BY <1>1, <1>2, <1>3, <2>3 DEF Protocol, Noted
  <2>5. Append(toCore[c], done) \in Seq(Request) /\ Len(Append(toCore[c], done)) <= p.next + 1
    BY <1>1, <1>3, <2>1, OneMoreRequest
  <2>6. Written(e, Append(toCore[c], done))
    BY <2>3, <2>5 DEF Written
  <2>7. Coming(e, Append(toCore[c], done), toClient[c])
    BY <1>1, <2>3 DEF Protocol, Coming
  <2> QED BY <1>1, <1>4, <2>2, <2>3, <2>4, <2>5, <2>6, <2>7, OwnStep DEF Protocol
<1> QED BY <1>5, <1>6

-----------------------------------------------------------------------------
\* The Core

LEMMA OnlyBoth ==
    ASSUME NEW s \in Seq(Answer), NEW t \in Seq(Answer), NEW types,
           Only(s, types), Only(t, types)
    PROVE  Only(s \o t, types)
<1> SUFFICES ASSUME NEW n \in 1 .. Len(s \o t) PROVE (s \o t)[n].type \in types
  BY DEF Only
<1>1. Len(s \o t) = Len(s) + Len(t) /\ Len(s) \in Nat /\ Len(t) \in Nat
  BY ConcatProperties, LenProperties
<1>2. CASE n <= Len(s)
  BY <1>1, <1>2, ConcatProperties DEF Only
<1>3. CASE n > Len(s)
  <2>1. n - Len(s) \in 1 .. Len(t)
    BY <1>1, <1>3
  <2>2. (s \o t)[n] = t[n - Len(s)]
    BY <1>1, <1>3, ConcatProperties
  <2> QED BY <2>1, <2>2 DEF Only
<1> QED BY <1>1, <1>2, <1>3

\* The frame that a handler sent, when it is for a process that still reads.
LEMMA ArrivesFacts ==
    ASSUME NEW d \in Conns, NEW frames \in Seq(Frame), NEW n \in {1, 2},
           NEW id \in 0 .. MaxTransfers + 1
    PROVE  /\ Arrives(d, frames, n, id) \in Seq(Answer)
           /\ \/ Arrives(d, frames, n, id) = <<>>
              \/ /\ n <= Len(frames) /\ frames[n].to = d /\ frames[n] \in Frame
                 /\ Arrives(d, frames, n, id) =
                       <<[type |-> frames[n].type, ok |-> frames[n].ok, id |-> id]>>
<1> DEFINE m == [type |-> frames[n].type, ok |-> frames[n].ok, id |-> id]
<1>1. CASE n <= Len(frames) /\ frames[n].to = d /\ ~Ended(d)
  <2>1. frames[n] \in Frame
    <3>1. n \in 1 .. Len(frames)
      BY <1>1, LenProperties
    <3> QED BY <3>1, ElementOfSeq
  <2>2. m \in Answer
    BY <2>1 DEF Frame, Answer
  <2>3. <<m>> \in Seq(Answer)
    BY <2>2
  <2> QED BY <1>1, <2>1, <2>3 DEF Arrives
<1>2. CASE ~(n <= Len(frames) /\ frames[n].to = d /\ ~Ended(d))
  <2>1. Arrives(d, frames, n, id) = <<>>
    BY <1>2 DEF Arrives
  <2>2. <<>> \in Seq(Answer)
    OBVIOUS
  <2> QED BY <2>1, <2>2
<1> QED BY <1>1, <1>2

\* What comes behind the replies that are on their way to d.
Arriving(d, id) == Arrives(d, sent', 1, id) \o Arrives(d, sent', 2, id)

LEMMA ArrivingFacts ==
    ASSUME NEW d \in Conns, NEW id \in 0 .. MaxTransfers + 1, sent' \in Seq(Frame)
    PROVE  /\ Arriving(d, id) \in Seq(Answer) /\ Len(Arriving(d, id)) \in Nat
           /\ \A m \in 1 .. Len(Arriving(d, id)) : \E n \in 1 .. Len(sent') :
                 /\ sent'[n].to = d
                 /\ Arriving(d, id)[m] =
                       [type |-> sent'[n].type, ok |-> sent'[n].ok, id |-> id]
<1> DEFINE a == Arrives(d, sent', 1, id)
           b == Arrives(d, sent', 2, id)
           Good(x) == \E n \in 1 .. Len(sent') :
                         /\ sent'[n].to = d
                         /\ x = [type |-> sent'[n].type, ok |-> sent'[n].ok, id |-> id]
<1>1. a \in Seq(Answer) /\ Len(a) \in Nat /\ \A m \in 1 .. Len(a) : Good(a[m])
  <2>1. a \in Seq(Answer)
    BY ArrivesFacts
  <2>2. CASE a = <<>>
    <3>1. Len(a) = 0
      BY <2>2
    <3> QED BY <2>1, <3>1
  <2>3. CASE a # <<>>
    <3>1. /\ 1 \in 1 .. Len(sent') /\ sent'[1].to = d
          /\ a = <<[type |-> sent'[1].type, ok |-> sent'[1].ok, id |-> id]>>
      BY <2>3, ArrivesFacts, LenProperties
    <3> QED BY <2>1, <3>1
  <2> QED BY <2>1, <2>2, <2>3
<1>2. b \in Seq(Answer) /\ Len(b) \in Nat /\ \A m \in 1 .. Len(b) : Good(b[m])
  <2>1. b \in Seq(Answer)
    BY ArrivesFacts
  <2>2. CASE b = <<>>
    <3>1. Len(b) = 0
      BY <2>2
    <3> QED BY <2>1, <3>1
  <2>3. CASE b # <<>>
    <3>1. /\ 2 \in 1 .. Len(sent') /\ sent'[2].to = d
          /\ b = <<[type |-> sent'[2].type, ok |-> sent'[2].ok, id |-> id]>>
      BY <2>3, ArrivesFacts, LenProperties
    <3> QED BY <2>1, <3>1
  <2> QED BY <2>1, <2>2, <2>3
<1>3. Arriving(d, id) = a \o b
  BY DEF Arriving
<1> HIDE DEF a, b, Good
<1>4. a \o b \in Seq(Answer) /\ Len(a \o b) = Len(a) + Len(b)
  BY <1>1, <1>2, ConcatProperties
<1>5. ASSUME NEW m \in 1 .. Len(a \o b) PROVE Good((a \o b)[m])
  <2>1. CASE m <= Len(a)
    <3>1. m \in 1 .. Len(a) /\ (a \o b)[m] = a[m]
      BY <1>1, <1>2, <1>4, <2>1, ConcatProperties
    <3> QED BY <1>1, <3>1
  <2>2. CASE m > Len(a)
    <3>1. m - Len(a) \in 1 .. Len(b) /\ (a \o b)[m] = b[m - Len(a)]
      BY <1>1, <1>2, <1>4, <2>2, ConcatProperties
    <3> QED BY <1>2, <3>1
  <2> QED BY <1>1, <2>1, <2>2
<1>6. Arriving(d, id) \in Seq(Answer) /\ Len(Arriving(d, id)) \in Nat
  BY <1>3, <1>4, <1>1, <1>2
<1> QED BY <1>3, <1>5, <1>6 DEF Good

LEMMA BehindAnother ==
    ASSUME NEW r \in Seq(Answer), NEW s \in Seq(Answer), NEW t \in Seq(Answer)
    PROVE  (r \o s) \o t = r \o (s \o t)
BY ConcatAssociative

LEMMA RepliesEffect ==
    ASSUME PInv, NEW c \in Conns, NEW id \in 0 .. MaxTransfers + 1, Replies(c, id),
           sent' \in Seq(Frame)
    PROVE  /\ proc' = proc
           /\ toCore' = [toCore EXCEPT ![c] = Tail(toCore[c])]
           /\ toClient' = [d \in Conns |-> toClient[d] \o Arriving(d, id)]
           /\ toClient' \in [Conns -> Seq(Answer)]
<1>1. ASSUME NEW d \in Conns
      PROVE  /\ (toClient[d] \o Arrives(d, sent', 1, id)) \o Arrives(d, sent', 2, id)
                   = toClient[d] \o Arriving(d, id)
             /\ toClient[d] \o Arriving(d, id) \in Seq(Answer)
  <2>1. /\ toClient[d] \in Seq(Answer)
        /\ Arrives(d, sent', 1, id) \in Seq(Answer) /\ Arrives(d, sent', 2, id) \in Seq(Answer)
    BY ConnTypes, ArrivesFacts DEF PInv
  <2>2. Arriving(d, id) \in Seq(Answer)
    BY ArrivingFacts
  <2>3. toClient[d] \o Arriving(d, id) \in Seq(Answer)
    BY <2>1, <2>2, ConcatProperties
  <2>4. PICK r, s, t : /\ r = toClient[d] /\ s = Arrives(d, sent', 1, id)
                      /\ t = Arrives(d, sent', 2, id)
    OBVIOUS
  <2>5. (r \o s) \o t = r \o (s \o t)
    BY <2>1, <2>4, BehindAnother
  <2> QED BY <2>3, <2>4, <2>5 DEF Arriving
<1>2. toClient' = [d \in Conns |-> toClient[d] \o Arriving(d, id)]
  BY <1>1 DEF Replies
<1> QED BY <1>1, <1>2 DEF Replies

\* The frames a handler of c sends: replies to c, and FILE_ACCEPT_RESP to others.
LEMMA ReplyProtocol ==
    ASSUME PInv, NEW c \in Conns, NEW id \in 0 .. MaxTransfers + 1, Replies(c, id),
           toCore[c] # <<>>, Head(toCore[c]).type # "LOGIN_REQ",
           sent' \in Seq(Frame), torn' \subseteq Ids,
           \A n \in 1 .. Len(sent') :
              /\ sent'[n].to # c => sent'[n].type = "ACCEPT_RESP"
              /\ sent'[n].type = "OFFER_RESP" /\ sent'[n].ok => id \in Ids
    PROVE  PInv'
<1>1. /\ proc' = proc
      /\ toCore' = [toCore EXCEPT ![c] = Tail(toCore[c])]
      /\ toClient' = [d \in Conns |-> toClient[d] \o Arriving(d, id)]
      /\ toClient' \in [Conns -> Seq(Answer)]
  BY RepliesEffect
<1>2. ClientTypes
  BY DEF PInv
<1>3. /\ toCore[c] \in Seq(Request) /\ Len(toCore[c]) \in Nat /\ Len(toCore[c]) > 0
      /\ Head(toCore[c]) = toCore[c][1]
      /\ Tail(toCore[c]) \in Seq(Request) /\ Len(Tail(toCore[c])) = Len(toCore[c]) - 1
  BY <1>2, ConnTypes, HeadTailProperties, EmptySeq
<1>4. ClientTypes'
  BY <1>1, <1>2, <1>3 DEF ClientTypes
<1>5. ASSUME NEW d \in Conns
      PROVE  Protocol(proc[d], toCore'[d], toClient[d] \o Arriving(d, id))
  <2> DEFINE in == toClient[d]
             more == Arriving(d, id)
             p == proc[d]
             out == toCore[d]
             rest == toCore'[d]
  <2>1. /\ Noted(p) /\ Written(p, out) /\ Coming(p, out, in) /\ p \in Process
        /\ in \in Seq(Answer) /\ Len(in) \in Nat
        /\ out \in Seq(Request) /\ Len(out) \in Nat /\ p.next \in Nat
    BY <1>2, ConnTypes, ProcessFields DEF PInv, Protocol
  <2>2. /\ more \in Seq(Answer) /\ Len(more) \in Nat
        /\ \A m \in 1 .. Len(more) : \E n \in 1 .. Len(sent') :
              /\ sent'[n].to = d
              /\ more[m] = [type |-> sent'[n].type, ok |-> sent'[n].ok, id |-> id]
    BY ArrivingFacts
  <2>3. Len(in \o more) = Len(in) + Len(more)
    BY <2>1, <2>2, ConcatProperties
  <2>4. ASSUME NEW m \in 1 .. Len(in \o more)
        PROVE  (in \o more)[m].type = "OFFER_RESP" /\ (in \o more)[m].ok
                  => (in \o more)[m].id \in Ids
    <3>1. CASE m <= Len(in)
      <4>1. m \in 1 .. Len(in) /\ (in \o more)[m] = in[m]
        BY <2>1, <2>2, <2>3, <3>1, ConcatProperties
      <4> QED BY <2>1, <4>1 DEF Coming
    <3>2. CASE m > Len(in)
      <4> HIDE DEF in, more
      <4>1. m - Len(in) \in 1 .. Len(more) /\ (in \o more)[m] = more[m - Len(in)]
        BY <2>1, <2>2, <2>3, <3>2, ConcatProperties
      <4>2. PICK n \in 1 .. Len(sent') :
               more[m - Len(in)] = [type |-> sent'[n].type, ok |-> sent'[n].ok, id |-> id]
        BY <2>2, <4>1
      <4> QED BY <4>1, <4>2
    <3> QED BY <2>1, <3>1, <3>2
  <2>5. CASE d = c
    <3>1. rest = Tail(out) /\ p.at \notin {"none", "wait", "login"}
      <4>1. rest = Tail(out)
        BY <1>1, <1>2, <2>5 DEF ClientTypes
      <4>2. p.at \notin {"none", "wait"}
        BY <2>1, <2>5 DEF Written
      <4>3. p.at # "login"
        BY <1>3, <2>1, <2>5 DEF Written
      <4> QED BY <4>1, <4>2, <4>3
    <3>2. Len(rest) = Len(out) - 1 /\ rest \in Seq(Request)
      BY <1>3, <2>5, <3>1
    <3>3. Written(p, rest)
      BY <2>1, <3>1, <3>2 DEF Written
    <3>4. p.at = "offer" => rest = <<>>
      <4>1. p.at = "offer" => p.next = 0 /\ Len(out) <= p.next + 1
        BY <2>1 DEF Noted, Written
      <4>2. p.at = "offer" => Len(rest) <= 0
        BY <2>1, <3>2, <4>1
      <4> QED BY <3>2, <4>2, EmptySeq
    <3>5. Coming(p, rest, in \o more)
      BY <2>4, <3>1, <3>4 DEF Coming
    <3> QED BY <2>1, <3>3, <3>5 DEF Protocol
  <2>6. CASE d # c
    <3>1. rest = out
      BY <1>1, <1>2, <2>6 DEF ClientTypes
    <3>2. Only(more, {"ACCEPT_RESP"})
      <4> SUFFICES ASSUME NEW m \in 1 .. Len(more) PROVE more[m].type = "ACCEPT_RESP"
        BY DEF Only
      <4>1. PICK n \in 1 .. Len(sent') :
               /\ sent'[n].to = d
               /\ more[m] = [type |-> sent'[n].type, ok |-> sent'[n].ok, id |-> id]
        BY ArrivingFacts
      <4> QED BY <2>6, <4>1
    <3>3. ASSUME NEW types, "ACCEPT_RESP" \in types, Only(in, types)
          PROVE  Only(in \o more, types)
      <4>1. Only(more, types)
        BY <3>2, <3>3 DEF Only
      <4> QED BY <2>1, <2>2, <3>3, <4>1, OnlyBoth
    <3>4. Coming(p, out, in \o more)
      <4> HIDE DEF in, more
      <4>1. p.at = "none" => Only(in \o more, {"ACCEPT_RESP"})
        BY <2>1, <3>3 DEF Coming
      <4>2. p.at = "login" => Only(in \o more, {"LOGIN_RESP", "ACCEPT_RESP"})
        BY <2>1, <3>3 DEF Coming
      <4>3. p.at = "login" /\ out # <<>> => Only(in \o more, {"ACCEPT_RESP"})
        BY <2>1, <3>3 DEF Coming
      <4>4. p.at = "offer" /\ out # <<>> => Only(in \o more, {"LOGIN_RESP", "ACCEPT_RESP"})
        BY <2>1, <3>3 DEF Coming
      <4> QED BY <2>4, <4>1, <4>2, <4>3, <4>4 DEF Coming
    <3> QED BY <2>1, <3>1, <3>4 DEF Protocol
  <2> QED BY <2>5, <2>6
<1> QED BY <1>1, <1>4, <1>5 DEF PInv

\* The request that is handled next.
LEMMA NextRequest ==
    ASSUME PInv, NEW c \in Conns, toCore[c] # <<>>
    PROVE  Head(toCore[c]) \in Request
BY ConnTypes, HeadTailProperties DEF PInv

LEMMA CoreLoginProtocol ==
    ASSUME PInv, NEW c \in Conns, CoreLogin(c) PROVE PInv'
<1> DEFINE p == proc[c]
           in == toClient[c]
           rest == Tail(toCore[c])
<1>1. PICK ok \in BOOLEAN :
         toClient' = [toClient EXCEPT ![c] =
            IF Ended(c) THEN @ ELSE Append(@, [type |-> "LOGIN_RESP", ok |-> ok, id |-> 0])]
  BY DEF CoreLogin
<1> DEFINE m == [type |-> "LOGIN_RESP", ok |-> ok, id |-> 0]
           more == IF Ended(c) THEN in ELSE Append(in, m)
<1>2. /\ p \in Process /\ in \in Seq(Answer) /\ Len(in) \in Nat /\ p.next \in Nat
      /\ toCore[c] \in Seq(Request) /\ Noted(p) /\ Written(p, toCore[c])
      /\ Coming(p, toCore[c], in)
  BY ConnTypes, ProcessFields DEF PInv, Protocol
<1>3. toCore[c] # <<>>
  BY DEF CoreLogin, Receives
<1>4. rest \in Seq(Request) /\ Len(rest) = Len(toCore[c]) - 1 /\ Len(rest) \in Nat
      /\ \A n \in 1 .. Len(rest) : rest[n] = toCore[c][n + 1]
  BY <1>2, <1>3, HeadTailProperties, EmptySeq
<1>5. m \in Answer
  BY TransferBounds DEF Answer
<1>6. /\ more \in Seq(Answer) /\ Len(more) \in Nat
      /\ \A n \in 1 .. Len(more) : more[n] = m \/ (n \in 1 .. Len(in) /\ more[n] = in[n])
  <2> HIDE DEF m
  <2>1. /\ Append(in, m) \in Seq(Answer) /\ Len(Append(in, m)) = Len(in) + 1
        /\ Append(in, m)[Len(in) + 1] = m
        /\ \A n \in 1 .. Len(in) : Append(in, m)[n] = in[n]
    BY <1>2, <1>5, AppendProperties
  <2> QED BY <1>2, <2>1
<1>7. Written(p, rest)
  <2>1. p.at \notin {"none", "wait"}
    BY <1>2, <1>3 DEF Written
  <2>2. Len(rest) <= p.next + 1 /\ (p.at = "send" => Len(rest) <= p.next)
    BY <1>2, <1>4 DEF Written
  <2>3. p.at = "login" => \A n \in 1 .. Len(rest) : rest[n].type = "LOGIN_REQ"
    <3>1. \A n \in 1 .. Len(rest) : n + 1 \in 1 .. Len(toCore[c])
      BY <1>4
    <3> QED BY <1>2, <1>4, <3>1 DEF Written
  <2> QED BY <2>1, <2>2, <2>3 DEF Written
<1>8. Coming(p, rest, more)
  <2> HIDE DEF more
  <2>1. p.at # "none"
    BY <1>2, <1>3 DEF Written
  <2>2. p.at \in {"login", "offer"} => rest = <<>>
    <3> SUFFICES ASSUME p.at \in {"login", "offer"} PROVE rest = <<>>
      OBVIOUS
    <3>1. p.next = 0 /\ Len(toCore[c]) <= p.next + 1
      BY <1>2 DEF Noted, Written
    <3>2. Len(toCore[c]) \in Nat
      BY <1>2, LenProperties
    <3>3. Len(toCore[c]) <= 1
      BY <3>1
    <3> HIDE DEF rest
    <3>4. Len(rest) = Len(toCore[c]) - 1 /\ Len(rest) \in Nat
      BY <1>4
    <3>5. ASSUME NEW a \in Nat, NEW b \in Nat, a <= 1, b = a - 1 PROVE b = 0
      BY <3>5
    <3>6. Len(rest) = 0
      BY <3>2, <3>3, <3>4, <3>5
    <3> QED BY <1>4, <3>6, EmptySeq
  <2>3. p.at = "login" => Only(more, {"LOGIN_RESP", "ACCEPT_RESP"})
    BY <1>2, <1>6 DEF Coming, Only
  <2>4. \A n \in 1 .. Len(more) : more[n].type = "OFFER_RESP" /\ more[n].ok => more[n].id \in Ids
    <3>1. \A n \in 1 .. Len(in) : in[n].type = "OFFER_RESP" /\ in[n].ok => in[n].id \in Ids
      BY <1>2 DEF Coming
    <3>2. m.type # "OFFER_RESP"
      OBVIOUS
    <3> HIDE DEF m
    <3> QED BY <1>6, <3>1, <3>2
  <2> QED BY <2>1, <2>2, <2>3, <2>4 DEF Coming
<1>9. /\ proc' = [proc EXCEPT ![c] = p] /\ toCore' = [toCore EXCEPT ![c] = rest]
      /\ toClient' = [toClient EXCEPT ![c] = more] /\ torn' \subseteq Ids
  BY <1>1 DEF CoreLogin, PInv, ClientTypes
<1> HIDE DEF more, rest, p
<1> QED BY <1>2, <1>4, <1>6, <1>7, <1>8, <1>9, OwnStep DEF Protocol

\* The handlers of the FILE_* messages are those of FileTransfer.
LEMMA HandlerSteps ==
    ASSUME PInv, NEW c \in Conns,
           CoreOffer(c) \/ CoreAccept(c) \/ CoreChunk(c) \/ CoreDone(c)
    PROVE  FileStep(c) /\ toCore[c] # <<>> /\ Head(toCore[c]).type # "LOGIN_REQ"
<1> DEFINE m == Head(toCore[c])
<1>1. toCore[c] # <<>> /\ m.type \in {"OFFER_REQ", "ACCEPT_REQ", "CHUNK", "DONE"}
  BY DEF CoreOffer, CoreAccept, CoreChunk, CoreDone, Receives
<1>2. m \in Request
  BY <1>1, NextRequest
<1>3. CASE CoreOffer(c)
  <2>1. m.to \in Users \cup {NoUser} /\ m.size \in FileSizes
    BY <1>2, <1>3 DEF CoreOffer, Receives, Request
  <2> QED BY <1>1, <1>3, <2>1 DEF CoreOffer, FileStep
<1>4. CASE CoreAccept(c)
  <2>1. m.id \in Ids
    BY <1>2, <1>4 DEF CoreAccept, Receives, Request
  <2> QED BY <1>1, <1>4, <2>1 DEF CoreAccept, FileStep
<1>5. CASE CoreChunk(c)
  <2>1. m.id \in Ids /\ m.index \in 0 .. MaxIndex
    BY <1>2, <1>5 DEF CoreChunk, Receives, Request
  <2> QED BY <1>1, <1>5, <2>1 DEF CoreChunk, FileStep
<1>6. CASE CoreDone(c)
  <2>1. m.id \in Ids
    BY <1>2, <1>6 DEF CoreDone, Receives, Request
  <2> QED BY <1>1, <1>6, <2>1 DEF CoreDone, FileStep
<1> QED BY <1>3, <1>4, <1>5, <1>6

\* The replies of the handlers: c's own reply, and the notification.
LEMMA NotifyFrames ==
    ASSUME TypeOK, NEW c \in Conns, NEW i \in Ids,
           sent' = NotifySender(i, TRUE) \o Reply(c, "ACCEPT_RESP", TRUE)
    PROVE  \A n \in 1 .. Len(sent') : sent'[n].type = "ACCEPT_RESP" /\ sent'[n].ok = TRUE
<1> DEFINE s == NotifySender(i, TRUE)
           t == Reply(c, "ACCEPT_RESP", TRUE)
           Good(q) == \A n \in 1 .. Len(q) : q[n].type = "ACCEPT_RESP" /\ q[n].ok = TRUE
<1>1. s \in Seq(Frame) /\ t \in Seq(Frame)
  BY NotifyType, ReplyType
<1>2. Good(t)
  BY DEF Reply
<1>3. Good(s)
  BY DEF NotifySender, Reply
<1> HIDE DEF s, t
<1>4. sent' = s \o t
  BY DEF s, t
<1>5. /\ Len(s \o t) = Len(s) + Len(t) /\ Len(s) \in Nat /\ Len(t) \in Nat
      /\ \A n \in 1 .. Len(s) + Len(t) :
            (s \o t)[n] = IF n <= Len(s) THEN s[n] ELSE t[n - Len(s)]
  BY <1>1, ConcatProperties, LenProperties
<1>6. ASSUME NEW n \in 1 .. Len(s) + Len(t)
      PROVE  (s \o t)[n].type = "ACCEPT_RESP" /\ (s \o t)[n].ok = TRUE
  <2>1. CASE n <= Len(s)
    BY <1>3, <1>5, <2>1
  <2>2. CASE ~(n <= Len(s))
    <3>1. n - Len(s) \in 1 .. Len(t)
      BY <1>5, <2>2
    <3> QED BY <1>2, <1>5, <2>2, <3>1
  <2> QED BY <2>1, <2>2
<1> QED BY <1>4, <1>5, <1>6

LEMMA HandlerFrames ==
    ASSUME FInv, PInv, NEW c \in Conns,
           CoreOffer(c) \/ CoreAccept(c) \/ CoreChunk(c) \/ CoreDone(c)
    PROVE  \E id \in 0 .. MaxTransfers + 1 :
              /\ Replies(c, id)
              /\ \A n \in 1 .. Len(sent') :
                    /\ sent'[n].to # c => sent'[n].type = "ACCEPT_RESP"
                    /\ sent'[n].type = "OFFER_RESP" /\ sent'[n].ok => id \in Ids
<1> DEFINE m == Head(toCore[c])
<1>1. m \in Request
  BY NextRequest, HandlerSteps
<1>2. TypeOK /\ nextId \in 0 .. MaxTransfers + 1 /\ 0 \in 0 .. MaxTransfers + 1
  BY TransferBounds DEF FInv, TypeOK
<1>3. CASE CoreOffer(c)
  <2>1. /\ Replies(c, nextId)
        /\ \E ok \in BOOLEAN :
              sent' = Reply(c, "OFFER_RESP", ok) /\ (ok => nextId <= MaxTransfers)
    BY <1>3 DEF CoreOffer, Offer, OfferRefused, CreateTransfer
  <2>2. nextId <= MaxTransfers => nextId \in Ids
    BY <1>2, TransferBounds DEF TypeOK, Ids
  <2> QED BY <1>2, <2>1, <2>2 DEF Reply
<1>4. CASE CoreAccept(c)
  <2>1. Replies(c, 0) /\ m.id \in Ids
    BY <1>1, <1>4 DEF CoreAccept, Receives, Request
  <2>2. \/ sent' = NotifySender(m.id, TRUE) \o Reply(c, "ACCEPT_RESP", TRUE)
        \/ sent' = Reply(c, "ACCEPT_RESP", FALSE)
    BY <1>4 DEF CoreAccept, Accept, AcceptCannotOpen, AcceptRefused
  <2>3. \A n \in 1 .. Len(sent') : sent'[n].type = "ACCEPT_RESP"
    <3>1. CASE sent' = NotifySender(m.id, TRUE) \o Reply(c, "ACCEPT_RESP", TRUE)
      BY <1>2, <2>1, <3>1, NotifyFrames
    <3>2. CASE sent' = Reply(c, "ACCEPT_RESP", FALSE)
      BY <3>2 DEF Reply
    <3> QED BY <2>2, <3>1, <3>2
  <2> QED BY <1>2, <2>1, <2>3
<1>5. CASE CoreChunk(c)
  <2>1. sent' = <<>> /\ Replies(c, 0)
    BY <1>5 DEF CoreChunk, ChunkWritten, ChunkWriteFails, Ignored
  <2>2. Len(sent') = 0
    BY <2>1
  <2> QED BY <1>2, <2>1, <2>2
<1>6. CASE CoreDone(c)
  <2>1. Replies(c, m.id) /\ m.id \in 0 .. MaxTransfers + 1
    <3>1. m.id \in Ids
      BY <1>1, <1>6 DEF CoreDone, Receives, Request
    <3> QED BY <1>6, <3>1, TransferBounds DEF CoreDone, Ids
  <2>2. sent' = <<>> \/ \E ok : sent' = Reply(c, "RESULT", ok)
    BY <1>6 DEF CoreDone, Done, Ignored
  <2>3. \A n \in 1 .. Len(sent') : sent'[n].to = c /\ sent'[n].type = "RESULT"
    BY <2>2 DEF Reply
  <2> QED BY <2>1, <2>3
<1> QED BY <1>3, <1>4, <1>5, <1>6

\* Frames of a process that is gone are lost.
LEMMA LoseProtocol ==
    ASSUME PInv, NEW c \in Conns, Lose(c) PROVE PInv'
<1>1. /\ proc[c] \in Process /\ toClient[c] \in Seq(Answer) /\ proc[c].next \in Nat
      /\ Protocol(proc[c], toCore[c], toClient[c])
  BY ConnTypes, ProcessFields DEF PInv
<1>2. proc[c].at \in {"success", "failed"}
  BY DEF Lose, Ended
<1>3. Written(proc[c], <<>>) /\ Coming(proc[c], <<>>, toClient[c])
  BY <1>1, <1>2 DEF Protocol, Written, Coming
<1>4. /\ proc' = [proc EXCEPT ![c] = proc[c]] /\ toCore' = [toCore EXCEPT ![c] = <<>>]
      /\ toClient' = [toClient EXCEPT ![c] = toClient[c]] /\ torn' \subseteq Ids
      /\ <<>> \in Seq(Request)
  BY DEF Lose, CoreIdle, PInv, ClientTypes
<1> QED BY <1>1, <1>3, <1>4, OwnStep DEF Protocol

-----------------------------------------------------------------------------
\* Together

\* Every step, seen from the Core, is a step of FileTransfer.
LEMMA ClientStepSimulates ==
    ASSUME PInv, [ClientNext]_allVars PROVE [Next]_vars
<1>1. CASE UNCHANGED allVars
  BY <1>1 DEF allVars
<1>2. ASSUME NEW c \in Conns,
             \/ \E u \in SendAs, r \in Users \cup {NoUser}, n \in FileSizes :
                   StartSend(c, u, r, n)
             \/ \E u \in RecvAs, i \in Ids : StartRecv(c, u, i)
             \/ ClientStep(c) \/ Die(c) \/ Lose(c)
      PROVE  Next
  <2>1. CoreIdle
    BY <1>2 DEF StartSend, StartRecv, ClientStep, ReadUnexpected, LoggedOn, OfferTaken,
                ReceiverAccepted, SendChunk, SendDone, SendSucceeds, RecvSucceeds,
                Answered, Reads, Die, Lose
  <2> QED BY <2>1, IdleIsStep
<1>3. ASSUME NEW c \in Conns, CoreLogin(c) PROVE Next
  <2>1. toCore[c] # <<>> /\ proc[c].at # "none"
    BY <1>3 DEF CoreLogin, Receives, PInv, Protocol, Written
  <2>2. proc[c].me \in Users
    BY <2>1 DEF PInv, Protocol, Noted
  <2>3. CASE LogIn(c, proc[c].me)
    BY <1>3, <2>2, <2>3 DEF CoreLogin, DirNext, SessionStep, Next
  <2>4. CASE UNCHANGED dirVars
    <3>1. 1 \in Ids
      BY ClientBounds, TransferBounds DEF Ids
    <3>2. Ignored(c, 1, FALSE)
      BY <1>3, <2>4 DEF CoreLogin, Ignored
    <3> QED BY <3>1, <3>2 DEF Next, FileStep
  <2> QED BY <1>3, <2>3, <2>4 DEF CoreLogin
<1>4. ASSUME NEW c \in Conns, CoreOffer(c) \/ CoreAccept(c) \/ CoreChunk(c) \/ CoreDone(c)
      PROVE  Next
  BY <1>4, HandlerSteps DEF Next
<1>5. ASSUME NEW c \in Conns, CoreWriteFails(c) \/ CoreCloses(c) PROVE Next
  BY <1>5 DEF CoreWriteFails, CoreCloses, DirNext, SessionStep, Next
<1> QED BY <1>1, <1>2, <1>3, <1>4, <1>5 DEF ClientNext, CoreStep

LEMMA StepProtocol ==
    ASSUME FInv, FInv', PInv, [ClientNext]_allVars PROVE PInv'
<1>1. CASE UNCHANGED clientVars
  BY <1>1 DEF clientVars, PInv, ClientTypes
<1>2. ASSUME NEW c \in Conns, NEW u \in SendAs, NEW r \in Users \cup {NoUser},
             NEW n \in FileSizes, StartSend(c, u, r, n)
      PROVE  PInv'
  BY <1>2, StartSendProtocol
<1>3. ASSUME NEW c \in Conns, NEW u \in RecvAs, NEW i \in Ids, StartRecv(c, u, i)
      PROVE  PInv'
  BY <1>3, StartRecvProtocol
<1>4. ASSUME NEW c \in Conns, ClientStep(c) \/ Die(c) PROVE PInv'
  <2>1. CASE LoggedOn(c)
    BY <2>1, LoggedOnProtocol
  <2>2. CASE OfferTaken(c) \/ ReceiverAccepted(c)
    BY <2>2, WaitProtocol
  <2>3. CASE SendChunk(c) \/ SendDone(c)
    BY <2>3, SendProtocol
  <2>4. CASE ReadUnexpected(c) \/ SendSucceeds(c) \/ RecvSucceeds(c) \/ Die(c)
    <3>1. /\ proc[c].at # "none" /\ UNCHANGED torn
          /\ \E at \in {"success", "failed"} : Exits(c, at)
      BY <2>4 DEF ReadUnexpected, SendSucceeds, RecvSucceeds, Die, Answered, Reads,
                  CoreIdle, Running
    <3> QED BY <3>1, ExitProtocol
  <2> QED BY <1>4, <2>1, <2>2, <2>3, <2>4 DEF ClientStep
<1>5. ASSUME NEW c \in Conns, CoreLogin(c) PROVE PInv'
  BY <1>5, CoreLoginProtocol
<1>6. ASSUME NEW c \in Conns, CoreOffer(c) \/ CoreAccept(c) \/ CoreChunk(c) \/ CoreDone(c)
      PROVE  PInv'
  <2>1. toCore[c] # <<>> /\ Head(toCore[c]).type # "LOGIN_REQ"
    BY <1>6, HandlerSteps
  <2>2. sent' \in Seq(Frame)
    BY DEF FInv, TypeOK
  <2>3. torn' \subseteq Ids
    <3>1. torn \subseteq Ids /\ Head(toCore[c]) \in Request
      BY <2>1, NextRequest DEF PInv, ClientTypes
    <3>2. Receives(c, "CHUNK") \/ Receives(c, "ACCEPT_REQ") => Head(toCore[c]).id \in Ids
      BY <3>1 DEF Receives, Request
    <3> QED BY <1>6, <3>1, <3>2 DEF CoreOffer, CoreAccept, CoreChunk, CoreDone
  <2> QED BY <1>6, <2>1, <2>2, <2>3, HandlerFrames, ReplyProtocol
<1>7. ASSUME NEW c \in Conns, Lose(c) PROVE PInv'
  BY <1>7, LoseProtocol
<1>8. ASSUME NEW c \in Conns, CoreWriteFails(c) \/ CoreCloses(c) PROVE PInv'
  BY <1>1, <1>8 DEF CoreWriteFails, CoreCloses
<1>9. CASE UNCHANGED allVars
  BY <1>1, <1>9 DEF allVars
<1> QED BY <1>2, <1>3, <1>4, <1>5, <1>6, <1>7, <1>8, <1>9 DEF ClientNext, CoreStep

LEMMA ClientInvariant == ClientSpec => [](FInv /\ PInv)
<1>1. ClientInit => FInv /\ PInv
  BY InitInvariant, InitProtocol DEF ClientInit
<1>2. FInv /\ PInv /\ [ClientNext]_allVars => (FInv /\ PInv)'
  BY ClientStepSimulates, StepInvariant, StepProtocol
<1> QED BY <1>1, <1>2, PTL DEF ClientSpec

(***************************************************************************)
(* Types of the processes and of the frames under way, which bound them:   *)
(* a process never has more requests on their way than its file has chunks,*)
(* and one (test_file_transfer.cpp:214-398).                               *)
(***************************************************************************)
THEOREM ClientTypesCorrect == ClientSpec => []ClientTypeOK
BY ClientInvariant, ProtocolTypes, PTL

(***************************************************************************)
(* The Core that the processes talk to is the Core of FileTransfer, whose  *)
(* clients are arbitrary: everything proved there holds here.              *)
(***************************************************************************)
THEOREM ClientsUseFileTransfer == ClientSpec => Spec
<1>1. ClientInit => Init
  BY DEF ClientInit
<1>2. PInv /\ [ClientNext]_allVars => [Next]_vars
  BY ClientStepSimulates
<1> QED BY <1>1, <1>2, ClientInvariant, PTL DEF ClientSpec, Spec
=============================================================================
