------------------------ MODULE TransferResultProofs ------------------------
(***************************************************************************)
(* Proofs about what a sender's SUCCESS means in TransferClients, for any  *)
(* number of processes, any users, file sizes and faults.                  *)
(***************************************************************************)
EXTENDS TransferClientsProofs

-----------------------------------------------------------------------------
(***************************************************************************)
(* Sessions and histories of the Core, whatever its clients do.            *)
(***************************************************************************)

\* A connection's token leads to it; transfers hold tokens that were handed out.
SessionsLinked ==
    /\ \A c \in Conns : token[c] # NoToken => holder[token[c]] = c /\ token[c] <= issued
    /\ \A i \in Ids : transfers[i].senderToken <= issued

\* Nothing has happened to transfers that do not exist.
HistoryKnown == \A i \in Ids : i \in consent \cup disorder \cup dangling => Known(i)

GInv == SessionsLinked /\ HistoryKnown /\ FreshIds

LEMMA InitHistory == Init => GInv
BY DEF Init, DirInit, GInv, SessionsLinked, HistoryKnown, FreshIds, NoTransfer, NoToken

LEMMA DirHistory ==
    ASSUME FInv, SessionsLinked, DirNext, UNCHANGED transfers PROVE SessionsLinked'
<1> USE DEF FInv, TypeOK, DirTypeOK, SessionsLinked, NoToken, Tokens
<1>1. PICK c \in Conns : (\E u \in Users : LogIn(c, u)) \/ LoseAuth(c) \/ Vanish(c)
  BY DEF DirNext
<1>2. \A i \in Ids : transfers[i].senderToken \in 0 .. MaxLogins
  BY MaxLoginsAssumption DEF Transfer
<1>3. CASE \E u \in Users : LogIn(c, u)
  <2>1. /\ issued' = issued + 1 /\ issued + 1 \in 1 .. MaxLogins /\ issued \in Nat
        /\ token' = [token EXCEPT ![c] = issued + 1]
        /\ holder' = [holder EXCEPT ![issued + 1] = c]
    BY <1>3, MaxLoginsAssumption DEF LogIn
  <2>2. \A d \in Conns : token'[d] # NoToken =>
           holder'[token'[d]] = d /\ token'[d] <= issued'
    BY <2>1, MaxLoginsAssumption
  <2>3. \A i \in Ids : transfers'[i].senderToken <= issued'
    BY <1>2, <2>1
  <2> QED BY <2>2, <2>3
<1>4. CASE LoseAuth(c)
  BY <1>4 DEF LoseAuth, IsAuthenticated
<1>5. CASE Vanish(c)
  BY <1>5 DEF Vanish
<1> QED BY <1>1, <1>3, <1>4, <1>5

\* A step that concerns one transfer, and no session.
LEMMA OneTransferHistory ==
    ASSUME FInv, SessionsLinked, HistoryKnown, NEW i \in Ids, Known(i),
           transfers'[i].senderToken = transfers[i].senderToken, Known(i)',
           \A j \in Ids : j # i => transfers'[j] = transfers[j],
           consent' \subseteq consent \cup {i}, disorder' \subseteq disorder \cup {i},
           dangling' \subseteq dangling \cup {i}, UNCHANGED dirVars
    PROVE  SessionsLinked' /\ HistoryKnown'
<1>1. SessionsLinked'
  BY DEF SessionsLinked, dirVars
<1>2. HistoryKnown'
  BY DEF HistoryKnown, Known
<1> QED BY <1>1, <1>2

LEMMA MarkedKeeps ==
    ASSUME NEW x \in Transfer, NEW k
    PROVE  /\ Marked(x, k).senderToken = x.senderToken
           /\ x.state # "NONE" => Marked(x, k).state # "NONE"
BY DEF Marked, Transfer

LEMMA OfferHistory ==
    ASSUME FInv, GInv, NEW c \in Conns, NEW r \in Users, NEW n \in FileSizes,
           NEW f, Offer(c, r, n, f)
    PROVE  SessionsLinked' /\ HistoryKnown'
<1>1. nextId \in Ids /\ token[c] <= issued /\ UNCHANGED <<dirVars, histVars>>
  <2>1. nextId \in Ids
    BY TransferBounds DEF Offer, CreateTransfer, FInv, TypeOK, Ids
  <2> QED BY <2>1 DEF Offer, IsAuthenticated, GInv, SessionsLinked
<1>2. /\ transfers'[nextId].senderToken = token[c] /\ transfers'[nextId].state = "OFFERED"
      /\ \A j \in Ids : j # nextId => transfers'[j] = transfers[j]
  BY <1>1 DEF Offer, CreateTransfer, FInv, TypeOK
<1>3. SessionsLinked'
  BY <1>1, <1>2 DEF GInv, SessionsLinked, dirVars
<1>4. HistoryKnown'
  BY <1>1, <1>2 DEF GInv, HistoryKnown, Known, histVars
<1> QED BY <1>3, <1>4

LEMMA StepHistory ==
    ASSUME FInv, GInv, [Next]_vars PROVE GInv'
<1>1. FreshIds'
  BY StepInvariant DEF FInv
<1>2. ASSUME UNCHANGED <<storeVars, histVars>> PROVE HistoryKnown'
  <2>1. UNCHANGED <<transfers, consent, disorder, dangling>>
    BY <1>2 DEF storeVars, histVars
  <2> QED BY <2>1 DEF GInv, HistoryKnown, Known
<1>3. ASSUME UNCHANGED <<dirVars, storeVars, histVars>> PROVE SessionsLinked' /\ HistoryKnown'
  <2>1. UNCHANGED <<token, holder, issued, transfers>>
    BY <1>3 DEF dirVars, storeVars
  <2>2. SessionsLinked'
    BY <2>1 DEF GInv, SessionsLinked
  <2> QED BY <1>3, <1>2, <2>2
<1>4. CASE SessionStep
  <2>1. DirNext /\ UNCHANGED transfers /\ UNCHANGED <<storeVars, histVars>>
    BY <1>4 DEF SessionStep, storeVars
  <2> QED BY <1>1, <1>2, <2>1, DirHistory DEF GInv
<1>5. CASE Restart
  BY <1>1, <1>5 DEF GInv, Restart, SessionsLinked, HistoryKnown, NoTransfer, NoToken, FInv, TypeOK, DirTypeOK
<1>6. ASSUME NEW c \in Conns, FileStep(c) PROVE SessionsLinked' /\ HistoryKnown'
  <2>1. CASE \E r \in Users, n \in FileSizes, f \in OtherFolders \cup {nextId} :
                Offer(c, r, n, f)
    BY <2>1, OfferHistory
  <2>2. CASE \E r \in Users \cup {NoUser}, wf \in BOOLEAN : OfferRefused(c, r, wf)
    BY <1>3, <2>2 DEF OfferRefused
  <2>3. ASSUME NEW i \in Ids, NEW wf \in BOOLEAN,
               AcceptRefused(c, i, wf) \/ Ignored(c, i, wf)
        PROVE  SessionsLinked' /\ HistoryKnown'
    BY <1>3, <2>3 DEF AcceptRefused, Ignored
  <2>4. ASSUME NEW i \in Ids,
               \/ \E a \in Addresses : Accept(c, i, a)
               \/ AcceptCannotOpen(c, i) \/ Reject(c, i)
               \/ \E k \in 0 .. MaxIndex : ChunkWritten(c, i, k) \/ ChunkToClosed(c, i, k)
               \/ ChunkWriteFails(c, i) \/ ChunkEmpty(c, i) \/ DoneNeverOpened(c, i)
               \/ Done(c, i)
        PROVE  SessionsLinked' /\ HistoryKnown'
    <3>1. Known(i) /\ transfers[i] \in Transfer
      BY <2>4 DEF Accept, AcceptCannotOpen, Reject, ChunkWritten, ChunkToClosed,
                  ChunkWriteFails, ChunkEmpty, DoneNeverOpened, Done, MayAnswer, MaySend,
                  FInv, TypeOK
    <3>2. /\ consent' \subseteq consent \cup {i} /\ disorder' \subseteq disorder \cup {i}
          /\ dangling' \subseteq dangling \cup {i} /\ UNCHANGED dirVars
      BY <2>4 DEF Accept, AcceptCannotOpen, Reject, ChunkWritten, ChunkToClosed,
                  ChunkWriteFails, ChunkEmpty, DoneNeverOpened, Done, histVars
    <3>3. \E x : /\ transfers' = [transfers EXCEPT ![i] = x]
                 /\ x.senderToken = transfers[i].senderToken /\ x.state # "NONE"
      <4>1. ASSUME NEW s \in {"ACCEPTED", "COMPLETED", "FAILED"},
                   transfers' = [transfers EXCEPT ![i].state = s]
            PROVE  \E x : /\ transfers' = [transfers EXCEPT ![i] = x]
                          /\ x.senderToken = transfers[i].senderToken /\ x.state # "NONE"
        <5> DEFINE x == [transfers[i] EXCEPT !.state = s]
        <5>1. x.senderToken = transfers[i].senderToken /\ x.state = s
          BY <3>1 DEF Transfer
        <5>2. transfers' = [transfers EXCEPT ![i] = x]
          BY <4>1
        <5> HIDE DEF x
        <5> QED BY <5>1, <5>2
      <4>2. CASE \E a \in Addresses : Accept(c, i, a)
        <5>1. PICK a \in Addresses : Accept(c, i, a)
          BY <4>2
        <5> DEFINE x == [transfers[i] EXCEPT !.handle = a, !.state = "ACCEPTED"]
        <5>2. x.senderToken = transfers[i].senderToken /\ x.state = "ACCEPTED"
          BY <3>1 DEF Transfer
        <5>3. transfers' = [transfers EXCEPT ![i] = x]
          BY <3>1, <5>1 DEF Accept, FInv, TypeOK, Transfer
        <5> HIDE DEF x
        <5> QED BY <5>2, <5>3
      <4>3. ASSUME NEW k, transfers' = [transfers EXCEPT ![i] = Marked(@, k)]
            PROVE  \E x : /\ transfers' = [transfers EXCEPT ![i] = x]
                          /\ x.senderToken = transfers[i].senderToken /\ x.state # "NONE"
        BY <3>1, <4>3, MarkedKeeps DEF Known
      <4> QED BY <2>4, <4>1, <4>2, <4>3 DEF AcceptCannotOpen, Reject, ChunkWritten,
                 ChunkToClosed, ChunkWriteFails, ChunkEmpty, DoneNeverOpened, Done, Finalize
    <3>4. /\ transfers'[i].senderToken = transfers[i].senderToken /\ Known(i)'
          /\ \A j \in Ids : j # i => transfers'[j] = transfers[j]
      BY <3>3 DEF Known, FInv, TypeOK
    <3> QED BY <3>1, <3>2, <3>4, OneTransferHistory DEF GInv
  <2> QED BY <1>6, <2>1, <2>2, <2>3, <2>4 DEF FileStep
<1>7. CASE UNCHANGED vars
  <2>1. UNCHANGED <<dirVars, storeVars, histVars>>
    BY <1>7 DEF vars
  <2> QED BY <1>1, <1>3, <2>1 DEF GInv
<1> QED BY <1>1, <1>4, <1>5, <1>6, <1>7 DEF Next, GInv

-----------------------------------------------------------------------------
(***************************************************************************)
(* The inductive invariant of processes and Core.                          *)
(***************************************************************************)

EndedAt == {"success", "failed"}

\* The request m belongs to what the process p is doing.
InPlace(p, m) ==
    /\ m.type = "LOGIN_REQ" => p.at \in {"login"} \cup EndedAt
    /\ m.type = "OFFER_REQ" => p.at \in {"offer"} \cup EndedAt
    /\ m.type = "ACCEPT_REQ" => p.mode = "recv" /\ p.at \in {"accept"} \cup EndedAt
    /\ m.type \in {"CHUNK", "DONE"} => p.mode = "send" /\ m.id = p.id
    /\ m.type = "CHUNK" => p.at \in {"send", "result"} \cup EndedAt
    /\ m.type = "DONE" => p.at \in {"result"} \cup EndedAt

\* Before its offer is answered a process gets only the replies it asked for.
Tidy(p, out, in) ==
    /\ \A n \in 1 .. Len(out) :
          InPlace(p, out[n]) /\ (out[n].type = "DONE" => n = Len(out))
    /\ p.mode = "send" /\ p.at \in {"none", "login", "offer"} => p.id = 0
    /\ p.at = "accept" => p.mode = "recv"
    /\ p.at = "none" => p.mode = "recv" /\ in = <<>>
    /\ p.at = "login" => Len(in) + Len(out) <= 1
    /\ p.at = "offer" /\ out # <<>> => in = <<>>
    /\ p.at = "offer" /\ in # <<>> => Head(in).type = "OFFER_RESP"

\* The transfer that a sender has been told of, or is about to be told of; or 0.
Mine(p, in) ==
    IF p.mode # "send" THEN 0
    ELSE IF p.at = "offer" /\ in # <<>> /\ Head(in).ok THEN Head(in).id ELSE p.id
MineOf(c) == Mine(proc[c], toClient[c])

\* The Core has the transfer under the connection's session.
Linked(c, i) ==
    /\ token[c] # NoToken
    /\ transfers[i].senderToken = token[c]
    /\ transfers[i].sender = user[c]

\* FILE_DONE has not been handled yet, and may come.
DoneAhead(p, out) ==
    p.at \in {"offer", "wait", "send"} \/ \E n \in 1 .. Len(out) : out[n].type = "DONE"

\* The process has been told of an accept.
Using(p, out) ==
    p.at \in {"send", "result"} \/ \E n \in 1 .. Len(out) : out[n].type \in {"CHUNK", "DONE"}

Ready(i) == i \in consent /\ i \notin disorder /\ TakesChunks(i)

\* The FILE_ACCEPT_RESPs in q are one for each accept.
Waiting(i, q) ==
    /\ Only(q, {"ACCEPT_RESP"})
    /\ transfers[i].expected = 0
    /\ q = <<>> => i \notin consent \cup disorder
    /\ q # <<>> => transfers[i].handle # Null
    /\ Len(q) = 1 /\ i \notin torn => Ready(i)

\* The chunks on their way are those that the Core expects next.
Feeds(p, out, i) ==
    LET n == Len(out) - (IF p.at = "result" THEN 1 ELSE 0)
        e == transfers[i].expected
    IN  /\ e + n = p.next
        /\ \A k \in 1 .. n : out[k].type = "CHUNK" /\ out[k].index = e + k - 1

\* A second accept is announced to the sender before anything else.
Sending(p, out, in, i) ==
    /\ in # <<>> => Head(in).type = "ACCEPT_RESP"
    /\ in = <<>> /\ i \notin torn => Ready(i) /\ Feeds(p, out, i)

\* In the directory named after the transfer.
Stored(i, n) ==
    /\ disk[<<i, "final">>] # NoFile
    /\ disk[<<i, "final">>].data = Prefix(i, n)

Phases(p, out, in, i) ==
    /\ p.at = "wait" => Waiting(i, in)
    /\ p.at = "offer" => Waiting(i, Tail(in))
    /\ p.at = "send" \/ (p.at = "result" /\ out # <<>>) => Sending(p, out, in, i)
    /\ p.at = "result" /\ out = <<>> /\ in # <<>>
          /\ Head(in).type = "RESULT" /\ Head(in).ok /\ i \notin torn \cup lossy
          => Stored(i, p.next)
    /\ p.at = "success" /\ i \notin torn \cup lossy => Stored(i, p.next)

OwnTransfer(c, p, out, in, i) ==
    /\ Known(i)
    /\ p.at \notin EndedAt => Linked(c, i)
    /\ DoneAhead(p, out) => i \notin dangling
    /\ Using(p, out) => transfers[i].handle # Null
    /\ Phases(p, out, in, i)

Conn(c, p, out, in) ==
    /\ Tidy(p, out, in)
    /\ p.at = "success" /\ p.mode = "send" => out = <<>> /\ p.id \in Ids
    /\ Mine(p, in) \in Ids => OwnTransfer(c, p, out, in, Mine(p, in))

\* No two senders have the same transfer.
OneSender ==
    \A c, d \in Conns : MineOf(c) \in Ids /\ MineOf(c) = MineOf(d) => c = d

\* A process is only notified of its own transfer.
NotifiedOfOwn ==
    \A c \in Conns, i \in Ids :
        /\ ~Ended(c) /\ Known(i) /\ transfers[i].senderToken # NoToken
        /\ holder[transfers[i].senderToken] = c
        => MineOf(c) = i

CInv ==
    /\ \A c \in Conns : Conn(c, proc[c], toCore[c], toClient[c])
    /\ OneSender
    /\ NotifiedOfOwn
    /\ ~ub

\* Names without a directory lead into the directory named after the transfer.
OwnFolders == \A i \in Ids : folder[i] = i

LEMMA InOwnFolder ==
    ASSUME OwnFolders, NEW i \in Ids
    PROVE  /\ Path(i, "part") = <<i, "part">> /\ Path(i, "final") = <<i, "final">>
           /\ Alone(i)
           /\ <<i, "final">> \in Paths
           /\ \A j \in Ids : <<j, "final">> # Path(i, "part")
           /\ \A j \in Ids : j # i => <<j, "final">> \notin Own(i)
<1>1. Path(i, "part") = <<i, "part">> /\ Path(i, "final") = <<i, "final">> /\ Alone(i)
  BY DEF OwnFolders, Path, Alone
<1>2. \A j \in Ids : /\ j \in Folders /\ j # 0 /\ <<j, "final">> # <<i, "part">>
                      /\ <<j, "final">> # Unlinked
  BY TransferBounds DEF Ids, Folders, Unlinked
<1>3. \A j \in Ids : <<j, "final">> \in Paths
  BY <1>2 DEF Paths
<1>4. \A j \in Ids : j # i => <<j, "final">> # <<i, "final">>
  OBVIOUS
<1> QED BY <1>1, <1>2, <1>3, <1>4 DEF Own

LEMMA StepFolders ==
    ASSUME FInv, OwnFolders, [ClientNext]_allVars PROVE OwnFolders'
<1>1. CASE UNCHANGED folder
  BY <1>1 DEF OwnFolders
<1>2. CASE \E c, r, n : Offer(c, r, n, nextId)
  BY <1>2 DEF OwnFolders, Offer, CreateTransfer, FInv, TypeOK
<1>3. ASSUME CoreIdle \/ UNCHANGED storeVars \/ UNCHANGED allVars PROVE UNCHANGED folder
  BY <1>3 DEF CoreIdle, allVars, vars, storeVars
<1>4. ASSUME NEW c \in Conns, ClientStep(c) PROVE CoreIdle
  BY <1>4 DEF ClientStep, ReadUnexpected, LoggedOn, OfferTaken, ReceiverAccepted,
              SendChunk, SendDone, SendSucceeds, RecvSucceeds, Answered, Reads
<1>5. ASSUME NEW c \in Conns,
             \/ \E u \in SendAs, r \in Users \cup {NoUser}, n \in FileSizes :
                   StartSend(c, u, r, n)
             \/ \E u \in RecvAs, i \in Ids : StartRecv(c, u, i)
             \/ Die(c) \/ Lose(c)
      PROVE  CoreIdle
  BY <1>5 DEF StartSend, StartRecv, Die, Lose
<1>6. ASSUME NEW c \in Conns, CoreWriteFails(c) \/ CoreCloses(c) \/ CoreLogin(c)
      PROVE  UNCHANGED storeVars
  BY <1>6 DEF CoreWriteFails, CoreCloses, CoreLogin
<1>7. ASSUME NEW c \in Conns, CoreAccept(c) \/ CoreChunk(c) \/ CoreDone(c)
      PROVE  UNCHANGED folder
  BY <1>7 DEF CoreAccept, CoreChunk, CoreDone, Accept, AcceptCannotOpen, AcceptRefused,
              ChunkWritten, ChunkWriteFails, Ignored, Done, storeVars
<1>8. ASSUME NEW c \in Conns, CoreOffer(c) PROVE OwnFolders'
  BY <1>1, <1>2, <1>8 DEF CoreOffer, OfferRefused, storeVars
<1> QED BY <1>1, <1>3, <1>4, <1>5, <1>6, <1>7, <1>8 DEF ClientNext, CoreStep

LEMMA InitConn == ClientInit => CInv
<1> SUFFICES ASSUME ClientInit PROVE CInv
  OBVIOUS
<1>1. 0 \notin Ids
  BY DEF Ids
<1>2. Mine(NoProcess, <<>>) = 0
  BY DEF Mine, NoProcess
<1>3. Tidy(NoProcess, <<>>, <<>>)
  BY DEF Tidy, NoProcess
<1>4. ASSUME NEW c \in Conns PROVE Conn(c, NoProcess, <<>>, <<>>)
  BY <1>1, <1>2, <1>3 DEF Conn, NoProcess
<1>5. OneSender
  BY <1>1, <1>2 DEF OneSender, MineOf, ClientInit
<1>6. NotifiedOfOwn
  BY DEF NotifiedOfOwn, ClientInit, Init, NoTransfer, Known
<1> QED BY <1>4, <1>5, <1>6 DEF CInv, ClientInit, Init

-----------------------------------------------------------------------------
\* What a step may change for a process that does not take it

\* The Core's part of what concerns transfer i is the same.
Kept(i) ==
    /\ transfers'[i] = transfers[i]
    /\ i \in consent' <=> i \in consent
    /\ i \in disorder' <=> i \in disorder
    /\ i \in dangling' => i \in dangling
    /\ i \in torn => i \in torn'
    /\ i \in lossy => i \in lossy'
    /\ disk'[<<i, "final">>] = disk[<<i, "final">>]

LEMMA KeptPhases ==
    ASSUME NEW i \in Ids, Kept(i), NEW p, NEW out, NEW in, Phases(p, out, in, i)
    PROVE  Phases(p, out, in, i)'
<1>1. Ready(i)' <=> Ready(i)
  BY DEF Kept, Ready, TakesChunks
<1>2. \A q : Waiting(i, q) => Waiting(i, q)'
  BY <1>1 DEF Kept, Waiting
<1>3. Feeds(p, out, i)' <=> Feeds(p, out, i)
  BY DEF Kept, Feeds
<1>4. Sending(p, out, in, i) => Sending(p, out, in, i)'
  BY <1>1, <1>3 DEF Kept, Sending
<1>5. \A n : Stored(i, n)' <=> Stored(i, n)
  BY DEF Kept, Stored
<1>6. i \notin torn' \cup lossy' => i \notin torn \cup lossy
  BY DEF Kept
<1> QED BY <1>2, <1>4, <1>5, <1>6 DEF Phases

LEMMA KeptConn ==
    ASSUME NEW c \in Conns, NEW p, NEW out, NEW in, Conn(c, p, out, in),
           Mine(p, in) \in Ids => Kept(Mine(p, in)),
           p.at \notin EndedAt => token'[c] = token[c] /\ user'[c] = user[c]
    PROVE  Conn(c, p, out, in)'
<1> DEFINE i == Mine(p, in)
<1>1. ASSUME i \in Ids PROVE OwnTransfer(c, p, out, in, i)'
  <2>1. Kept(i) /\ OwnTransfer(c, p, out, in, i)
    BY <1>1 DEF Conn
  <2> HIDE DEF i
  <2>2. Phases(p, out, in, i)'
    BY <1>1, <2>1, KeptPhases DEF OwnTransfer
  <2>3. Known(i)' /\ (p.at \notin EndedAt => Linked(c, i)')
    BY <2>1 DEF Kept, OwnTransfer, Known, Linked
  <2> QED BY <2>1, <2>2, <2>3 DEF OwnTransfer, Kept
<1> QED BY <1>1 DEF Conn

\* The Core is idle: every transfer is kept.
LEMMA IdleKept ==
    ASSUME CoreIdle
    PROVE  /\ \A i \in Ids : Kept(i)
           /\ UNCHANGED <<token, user, holder, transfers, ub>>
BY DEF CoreIdle, Kept, dirVars, storeVars, histVars

LEMMA ProcessStep ==
    ASSUME CInv, PInv, CoreIdle, NEW c \in Conns, NEW p, NEW out, NEW in,
           proc' = [proc EXCEPT ![c] = p],
           toCore' = [toCore EXCEPT ![c] = out],
           toClient' = [toClient EXCEPT ![c] = in],
           Conn(c, p, out, in),
           \/ Mine(p, in) = MineOf(c) /\ (Ended(c) => p.at \in EndedAt)
           \/ Mine(p, in) \notin Ids /\ p.at \in EndedAt
    PROVE  CInv'
<1>1. /\ proc'[c] = p /\ toCore'[c] = out /\ toClient'[c] = in
      /\ \A d \in Conns : d # c =>
            proc'[d] = proc[d] /\ toCore'[d] = toCore[d] /\ toClient'[d] = toClient[d]
  BY DEF PInv, ClientTypes
<1>2. ASSUME NEW d \in Conns PROVE Conn(d, proc[d], toCore[d], toClient[d])'
  <2>1. PICK q, o, n : q = proc'[d] /\ o = toCore'[d] /\ n = toClient'[d]
    OBVIOUS
  <2>2. Conn(d, q, o, n)
    BY <1>1, <2>1 DEF CInv
  <2>3. Conn(d, q, o, n)'
    BY <2>2, IdleKept, KeptConn
  <2> QED BY <2>1, <2>3
<1>3. /\ MineOf(c)' = Mine(p, in)
      /\ \A d \in Conns : d # c => MineOf(d)' = MineOf(d) /\ Ended(d)' = Ended(d)
      /\ Ended(c)' <=> p.at \in EndedAt
  BY <1>1 DEF MineOf, Ended, EndedAt
<1>4. OneSender'
  BY <1>3 DEF CInv, OneSender
<1>5. NotifiedOfOwn'
  BY <1>3, IdleKept DEF CInv, NotifiedOfOwn, Known
<1>6. ~ub'
  BY IdleKept DEF CInv
<1> QED BY <1>2, <1>4, <1>5, <1>6 DEF CInv

-----------------------------------------------------------------------------
\* The processes

\* What is known of a process.
LEMMA ConnFacts ==
    ASSUME CInv, PInv, NEW c \in Conns
    PROVE  /\ proc[c] \in Process /\ toCore[c] \in Seq(Request) /\ toClient[c] \in Seq(Answer)
           /\ Len(toCore[c]) \in Nat /\ Len(toClient[c]) \in Nat
           /\ proc[c].next \in Nat /\ proc[c].size \in Nat
           /\ Noted(proc[c]) /\ Written(proc[c], toCore[c])
           /\ Coming(proc[c], toCore[c], toClient[c])
           /\ Conn(c, proc[c], toCore[c], toClient[c])
           /\ Tidy(proc[c], toCore[c], toClient[c])
<1>1. /\ proc[c] \in Process /\ toCore[c] \in Seq(Request) /\ toClient[c] \in Seq(Answer)
      /\ Len(toCore[c]) \in Nat /\ Len(toClient[c]) \in Nat
  BY ConnTypes DEF PInv
<1>2. proc[c].next \in Nat /\ proc[c].size \in Nat
  BY <1>1, ProcessFields
<1>3. /\ Noted(proc[c]) /\ Written(proc[c], toCore[c])
      /\ Coming(proc[c], toCore[c], toClient[c])
  BY DEF PInv, Protocol
<1>4. Conn(c, proc[c], toCore[c], toClient[c])
  BY DEF CInv
<1> QED BY <1>1, <1>2, <1>3, <1>4 DEF Conn

LEMMA NotAnId == 0 \notin Ids
BY DEF Ids

\* A connection is used for the first time.
LEMMA StartConn ==
    ASSUME CInv, PInv, CoreIdle, NEW c \in Conns, NEW p, p.at = "login",
           p.mode = "send" => p.id = 0, p.mode \in {"send", "recv"},
           IsNext(c), Asks(c, p, [type |-> "LOGIN_REQ"]), UNCHANGED toClient
    PROVE  CInv'
<1> DEFINE m == [type |-> "LOGIN_REQ"]
           out == Append(toCore[c], m)
<1>1. proc[c].at = "none"
  BY ConnsAssumption DEF IsNext
<1>2. toClient[c] = <<>> /\ proc[c].mode = "recv" /\ toCore[c] = <<>>
  BY <1>1, ConnFacts DEF Tidy, Written
<1>3. out = <<m>>
  BY <1>2
<1>4. /\ proc' = [proc EXCEPT ![c] = p] /\ toCore' = [toCore EXCEPT ![c] = out]
      /\ toClient' = [toClient EXCEPT ![c] = <<>>]
  BY <1>2 DEF Asks, PInv, ClientTypes
<1>5. Mine(p, <<>>) = 0 /\ MineOf(c) = 0
  BY <1>2 DEF Mine, MineOf
<1>6. Tidy(p, out, <<>>)
  <2>1. InPlace(p, m)
    BY DEF InPlace
  <2>2. m.type = "LOGIN_REQ"
    OBVIOUS
  <2> HIDE DEF out, m
  <2>3. Len(out) = 1 /\ out[1] = m
    BY <1>3
  <2> QED BY <2>1, <2>2, <2>3 DEF Tidy
<1>7. Conn(c, p, out, <<>>)
  BY <1>5, <1>6, NotAnId DEF Conn
<1>8. ~Ended(c)
  BY <1>1 DEF Ended
<1> HIDE DEF out
<1> QED BY <1>4, <1>5, <1>7, <1>8, ProcessStep

LEMMA StartsConn ==
    ASSUME CInv, PInv, NEW c \in Conns,
           \/ \E u \in SendAs, r \in Users \cup {NoUser}, n \in FileSizes :
                 StartSend(c, u, r, n)
           \/ \E u \in RecvAs, i \in Ids : StartRecv(c, u, i)
    PROVE  CInv'
<1>1. ASSUME NEW u, NEW r, NEW n, StartSend(c, u, r, n) PROVE CInv'
  <2> DEFINE p == [NoProcess EXCEPT !.at = "login", !.mode = "send", !.me = u,
                                    !.to = r, !.size = n]
  <2>1. p.at = "login" /\ p.mode = "send" /\ p.id = 0
    BY DEF NoProcess
  <2>2. /\ Asks(c, p, [type |-> "LOGIN_REQ"])
        /\ IsNext(c) /\ CoreIdle /\ UNCHANGED toClient
    BY <1>1 DEF StartSend
  <2> HIDE DEF p
  <2> QED BY <2>1, <2>2, StartConn
<1>2. ASSUME NEW u, NEW i, StartRecv(c, u, i) PROVE CInv'
  <2> DEFINE p == [NoProcess EXCEPT !.at = "login", !.me = u, !.id = i]
  <2>1. p.at = "login" /\ p.mode = "recv"
    BY DEF NoProcess
  <2>2. /\ Asks(c, p, [type |-> "LOGIN_REQ"])
        /\ IsNext(c) /\ CoreIdle /\ UNCHANGED toClient
    BY <1>2 DEF StartRecv
  <2> HIDE DEF p
  <2> QED BY <2>1, <2>2, StartConn
<1> QED BY <1>1, <1>2

\* The requests of a process that ends stay in place.
LEMMA InPlaceEnded ==
    ASSUME NEW p, NEW q, NEW m, InPlace(p, m), q.at \in EndedAt, q.mode = p.mode, q.id = p.id
    PROVE  InPlace(q, m)
BY DEF InPlace

LEMMA ExitConn ==
    ASSUME CInv, PInv, CoreIdle, NEW c \in Conns, NEW at \in EndedAt, Exits(c, at),
           proc[c].at \in Running,
           at = "success" /\ proc[c].mode = "send" =>
              /\ toCore[c] = <<>> /\ proc[c].at = "result"
              /\ proc[c].id \notin torn \cup lossy => Stored(proc[c].id, proc[c].next)
    PROVE  CInv'
<1> DEFINE p == proc[c]
           q == [p EXCEPT !.at = at]
           out == toCore[c]
<1>1. /\ p \in Process /\ Noted(p) /\ Tidy(p, out, toClient[c])
      /\ Conn(c, p, out, toClient[c])
  BY ConnFacts
<1>2. q.at = at /\ q.mode = p.mode /\ q.id = p.id /\ q.next = p.next
  BY <1>1 DEF Process
<1>3. /\ proc' = [proc EXCEPT ![c] = q]
      /\ toCore' = [toCore EXCEPT ![c] = out]
      /\ toClient' = [toClient EXCEPT ![c] = <<>>]
  BY DEF Exits, PInv, ClientTypes
<1> HIDE DEF q
<1>4. Tidy(q, out, <<>>)
  <2>1. \A n \in 1 .. Len(out) : InPlace(q, out[n]) /\ (out[n].type = "DONE" => n = Len(out))
    BY <1>1, <1>2, InPlaceEnded DEF Tidy
  <2> QED BY <1>2, <2>1 DEF Tidy, EndedAt
<1>5. Mine(q, <<>>) = IF p.mode = "send" THEN p.id ELSE 0
  BY <1>2 DEF Mine
<1>6. \/ Mine(q, <<>>) = MineOf(c)
      \/ Mine(q, <<>>) \notin Ids
  <2>1. CASE p.at = "offer" /\ p.mode = "send"
    <3>1. p.id = 0
      BY <1>1, <2>1 DEF Tidy
    <3> QED BY <1>5, <2>1, <3>1, NotAnId
  <2>2. CASE ~(p.at = "offer" /\ p.mode = "send")
    BY <1>5, <2>2 DEF MineOf, Mine
  <2> QED BY <2>1, <2>2
<1>7. ASSUME Mine(q, <<>>) \in Ids PROVE OwnTransfer(c, q, out, <<>>, Mine(q, <<>>))
  <2>1. p.mode = "send" /\ Mine(q, <<>>) = p.id /\ Mine(p, toClient[c]) = p.id
    BY <1>5, <1>6, <1>7, NotAnId DEF MineOf
  <2>2. OwnTransfer(c, p, out, toClient[c], p.id)
    BY <1>1, <1>7, <2>1 DEF Conn
  <2>3. DoneAhead(q, out) => DoneAhead(p, out)
    BY <1>2 DEF DoneAhead, EndedAt
  <2>4. Phases(q, out, <<>>, p.id)
    BY <1>2, <2>1 DEF Phases, EndedAt
  <2>5. Using(q, out) => Using(p, out)
    BY <1>2 DEF Using, EndedAt
  <2> QED BY <1>2, <2>1, <2>2, <2>3, <2>4, <2>5 DEF OwnTransfer
<1>8. at = "success" /\ p.mode = "send" => out = <<>> /\ p.id \in Ids
  BY <1>1 DEF Noted
<1>9. Conn(c, q, out, <<>>)
  BY <1>2, <1>4, <1>7, <1>8 DEF Conn
<1> HIDE DEF out
<1> QED BY <1>2, <1>3, <1>6, <1>9, ProcessStep

\* SUCCESS is printed for a FILE_RESULT that was sent when the file was stored.
LEMMA ExitsConn ==
    ASSUME CInv, PInv, NEW c \in Conns,
           ReadUnexpected(c) \/ SendSucceeds(c) \/ RecvSucceeds(c) \/ Die(c)
    PROVE  CInv'
<1> DEFINE p == proc[c]
<1>1. CoreIdle /\ p.at \in Running
  BY DEF ReadUnexpected, SendSucceeds, RecvSucceeds, Die, Answered, Reads
<1>2. CASE ReadUnexpected(c) \/ Die(c)
  BY <1>1, <1>2, ExitConn DEF ReadUnexpected, Die, EndedAt
<1>3. CASE RecvSucceeds(c)
  <2>1. p.at = "accept" /\ Exits(c, "success")
    BY <1>3 DEF RecvSucceeds, Answered
  <2>2. p.mode = "recv"
    BY <2>1, ConnFacts DEF Tidy
  <2> QED BY <1>1, <2>1, <2>2, ExitConn DEF EndedAt
<1>4. CASE SendSucceeds(c)
  <2>1. /\ p.at = "result" /\ Exits(c, "success") /\ toClient[c] # <<>>
        /\ Head(toClient[c]).type = "RESULT" /\ Head(toClient[c]).ok
    BY <1>4 DEF SendSucceeds, Answered, Reads, Expected
  <2>2. p.mode = "send" /\ p.id \in Ids
    BY <2>1, ConnFacts DEF Noted
  <2>3. Mine(p, toClient[c]) = p.id
    BY <2>1, <2>2 DEF Mine
  <2>4. Phases(p, toCore[c], toClient[c], p.id)
    BY <2>2, <2>3, ConnFacts DEF Conn, OwnTransfer
  <2>5. toCore[c] = <<>>
    BY <2>1, <2>4 DEF Phases, Sending
  <2>6. p.id \notin torn \cup lossy => Stored(p.id, p.next)
    BY <2>1, <2>4, <2>5 DEF Phases
  <2> QED BY <1>1, <2>1, <2>5, <2>6, ExitConn DEF EndedAt
<1> QED BY <1>2, <1>3, <1>4

\* The request of do_send or do_recv.
LEMMA LoggedOnConn ==
    ASSUME CInv, PInv, NEW c \in Conns, LoggedOn(c) PROVE CInv'
<1> DEFINE p == proc[c]
           in == toClient[c]
<1>1. CoreIdle /\ p.at = "login" /\ in # <<>> /\ toClient' = [toClient EXCEPT ![c] = Tail(@)]
  BY DEF LoggedOn, Answered, Reads
<1>2. /\ p \in Process /\ in \in Seq(Answer) /\ Len(in) \in Nat /\ Len(toCore[c]) \in Nat
      /\ toCore[c] \in Seq(Request) /\ Tidy(p, toCore[c], in)
  BY ConnFacts
<1>3. toCore[c] = <<>> /\ Tail(in) = <<>>
  <2>1. Len(in) + Len(toCore[c]) <= 1
    BY <1>1, <1>2 DEF Tidy
  <2>2. /\ Len(in) > 0 /\ Tail(in) \in Seq(Answer) /\ Len(Tail(in)) = Len(in) - 1
    BY <1>1, <1>2, NextReply
  <2>3. ASSUME NEW a \in Nat, NEW b \in Nat, a > 0, a + b <= 1 PROVE a = 1 /\ b = 0
    BY <2>3
  <2>4. Len(in) = 1 /\ Len(toCore[c]) = 0
    BY <1>2, <2>1, <2>2, <2>3
  <2>5. Len(Tail(in)) = 0
    BY <2>2, <2>4
  <2> QED BY <1>2, <2>2, <2>4, <2>5, EmptySeq
<1>4. MineOf(c) = 0 /\ ~Ended(c)
  BY <1>1, <1>2 DEF MineOf, Mine, Tidy, Ended
<1>5. ASSUME NEW q, NEW m, Asks(c, q, m), q.mode = p.mode, q.id = p.id,
             \/ q.at = "offer" /\ q.mode = "send" /\ m.type = "OFFER_REQ"
             \/ q.at = "accept" /\ q.mode = "recv" /\ m.type = "ACCEPT_REQ"
      PROVE  CInv'
  <2> DEFINE out == Append(toCore[c], m)
  <2>1. out = <<m>>
    BY <1>3
  <2>2. /\ proc' = [proc EXCEPT ![c] = q] /\ toCore' = [toCore EXCEPT ![c] = out]
        /\ toClient' = [toClient EXCEPT ![c] = <<>>]
    BY <1>1, <1>3, <1>5 DEF Asks
  <2>3. Mine(q, <<>>) = 0
    BY <1>1, <1>2, <1>5 DEF Mine, Tidy
  <2> HIDE DEF out
  <2>4. Len(out) = 1 /\ out[1] = m
    BY <2>1
  <2>5. InPlace(q, m) /\ m.type # "DONE"
    BY <1>5 DEF InPlace
  <2>6. q.mode = "send" => q.id = 0
    BY <1>1, <1>2, <1>5 DEF Tidy
  <2>7. Tidy(q, out, <<>>)
    BY <1>5, <2>4, <2>5, <2>6 DEF Tidy
  <2>8. Conn(c, q, out, <<>>)
    BY <1>5, <2>3, <2>7, NotAnId DEF Conn
  <2> QED BY <1>1, <1>4, <2>2, <2>3, <2>8, ProcessStep
<1>6. CASE p.mode = "send"
  <2> DEFINE q == [p EXCEPT !.at = "offer"]
             m == [type |-> "OFFER_REQ", to |-> p.to, size |-> p.size]
  <2>1. q.at = "offer" /\ q.mode = p.mode /\ q.id = p.id /\ m.type = "OFFER_REQ"
    BY <1>2 DEF Process
  <2>2. Asks(c, q, m)
    BY <1>6 DEF LoggedOn
  <2> HIDE DEF q, m
  <2> QED BY <1>5, <1>6, <2>1, <2>2
<1>7. CASE p.mode = "recv"
  <2> DEFINE q == [p EXCEPT !.at = "accept"]
             m == [type |-> "ACCEPT_REQ", id |-> p.id]
  <2>1. q.at = "accept" /\ q.mode = p.mode /\ q.id = p.id /\ m.type = "ACCEPT_REQ"
    BY <1>2 DEF Process
  <2>2. Asks(c, q, m)
    BY <1>7 DEF LoggedOn
  <2> HIDE DEF q, m
  <2> QED BY <1>5, <1>7, <2>1, <2>2
<1> QED BY <1>2, <1>6, <1>7, ProcessFields

\* do_send learns its transfer id.
LEMMA OfferTakenConn ==
    ASSUME CInv, PInv, NEW c \in Conns, OfferTaken(c) PROVE CInv'
<1> DEFINE p == proc[c]
           in == toClient[c]
           i == Head(in).id
           q == [p EXCEPT !.at = "wait", !.id = i]
<1>1. /\ CoreIdle /\ p.at = "offer" /\ in # <<>> /\ Head(in).ok
      /\ Head(in).type = "OFFER_RESP"
      /\ toClient' = [toClient EXCEPT ![c] = Tail(in)]
  BY DEF OfferTaken, Answered, Reads, Expected
<1>2. /\ p \in Process /\ in \in Seq(Answer) /\ Noted(p) /\ Conn(c, p, toCore[c], in)
      /\ Coming(p, toCore[c], in)
  BY ConnFacts
<1>3. toCore[c] = <<>>
  BY RequestHandled DEF OfferTaken
<1>4. p.mode = "send" /\ MineOf(c) = i
  BY <1>1, <1>2 DEF Noted, MineOf, Mine
<1>5. i \in Ids
  <2>1. 1 \in 1 .. Len(in) /\ Head(in) = in[1]
    BY <1>1, <1>2, NextReply
  <2> QED BY <1>1, <1>2, <2>1 DEF Coming
<1>6. OwnTransfer(c, p, <<>>, in, i)
  BY <1>2, <1>3, <1>4, <1>5 DEF Conn, MineOf
<1>7. /\ proc' = [proc EXCEPT ![c] = q]
      /\ toCore' = [toCore EXCEPT ![c] = <<>>]
  BY <1>2, <1>3 DEF OfferTaken, Process, PInv, ClientTypes
<1> HIDE DEF i
<1>8. q.at = "wait" /\ q.mode = p.mode /\ q.id = i
  BY <1>2 DEF Process
<1> HIDE DEF q
<1>9. Mine(q, Tail(in)) = i
  BY <1>4, <1>8 DEF Mine
<1>10. Tidy(q, <<>>, Tail(in))
  BY <1>8 DEF Tidy
<1>11. OwnTransfer(c, q, <<>>, Tail(in), i)
  <2>1. Known(i) /\ Linked(c, i) /\ i \notin dangling /\ Waiting(i, Tail(in))
    BY <1>1, <1>6 DEF OwnTransfer, DoneAhead, Phases, EndedAt
  <2>2. Phases(q, <<>>, Tail(in), i)
    BY <1>8, <2>1 DEF Phases
  <2>3. ~Using(q, <<>>)
    BY <1>8 DEF Using
  <2> QED BY <2>1, <2>2, <2>3 DEF OwnTransfer
<1>12. Conn(c, q, <<>>, Tail(in))
  BY <1>8, <1>9, <1>10, <1>11 DEF Conn
<1>13. ~Ended(c)
  BY <1>1 DEF Ended
<1> QED BY <1>1, <1>4, <1>7, <1>9, <1>12, <1>13, ProcessStep

\* What a sender past its offer knows.
LEMMA SenderFacts ==
    ASSUME CInv, PInv, NEW c \in Conns, proc[c].at \in {"wait", "send", "result"}
    PROVE  /\ proc[c].mode = "send" /\ proc[c].id \in Ids /\ ~Ended(c)
           /\ \A in : Mine(proc[c], in) = proc[c].id
           /\ MineOf(c) = proc[c].id
           /\ OwnTransfer(c, proc[c], toCore[c], toClient[c], proc[c].id)
<1>1. proc[c].mode = "send" /\ proc[c].id \in Ids
  BY ConnFacts DEF Noted
<1>2. \A in : Mine(proc[c], in) = proc[c].id
  BY <1>1 DEF Mine
<1> QED BY <1>1, <1>2, ConnFacts DEF Conn, MineOf, Ended

\* FILE_ACCEPT_RESP: only if it is the only one is the .part file the sender's.
LEMMA ReceiverAcceptedConn ==
    ASSUME CInv, PInv, NEW c \in Conns, ReceiverAccepted(c) PROVE CInv'
<1> DEFINE p == proc[c]
           in == toClient[c]
           i == p.id
           q == [p EXCEPT !.at = "send"]
<1>1. /\ CoreIdle /\ p.at = "wait" /\ in # <<>>
      /\ toClient' = [toClient EXCEPT ![c] = Tail(in)]
      /\ proc' = [proc EXCEPT ![c] = q]
  BY DEF ReceiverAccepted, Answered, Reads
<1>2. /\ p \in Process /\ in \in Seq(Answer) /\ Noted(p) /\ Written(p, toCore[c])
  BY ConnFacts
<1>3. /\ p.mode = "send" /\ i \in Ids /\ ~Ended(c) /\ MineOf(c) = i
      /\ OwnTransfer(c, p, toCore[c], in, i)
  BY <1>1, SenderFacts
<1>4. toCore[c] = <<>> /\ toCore' = [toCore EXCEPT ![c] = <<>>] /\ p.next = 0
  BY <1>1, <1>2 DEF Written, Noted, ReceiverAccepted, PInv, ClientTypes
<1>5. q.at = "send" /\ q.mode = p.mode /\ q.id = i /\ q.next = p.next
  BY <1>2 DEF Process
<1> HIDE DEF q
<1>6. Mine(q, Tail(in)) = i
  BY <1>3, <1>5 DEF Mine
<1>7. Tidy(q, <<>>, Tail(in))
  BY <1>5 DEF Tidy
<1>8. Known(i) /\ Linked(c, i) /\ i \notin dangling /\ Waiting(i, in)
  BY <1>1, <1>3 DEF OwnTransfer, DoneAhead, Phases, EndedAt
<1>9. Sending(q, <<>>, Tail(in), i)
  <2>1. /\ Tail(in) \in Seq(Answer) /\ Len(Tail(in)) = Len(in) - 1 /\ Len(in) > 0
        /\ Len(in) \in Nat
        /\ \A n \in 1 .. Len(Tail(in)) : Tail(in)[n] = in[n + 1]
    BY <1>1, <1>2, NextReply, LenProperties
  <2>2. CASE Tail(in) = <<>>
    <3>1. Len(Tail(in)) = 0
      BY <2>1, <2>2, EmptySeq
    <3>2. Len(in) = 1
      BY <2>1, <3>1
    <3>3. Feeds(q, <<>>, i)
      BY <1>4, <1>5, <1>8 DEF Feeds, Waiting
    <3> QED BY <1>8, <2>2, <3>2, <3>3 DEF Sending, Waiting
  <2>3. CASE Tail(in) # <<>>
    <3>1. 1 \in 1 .. Len(Tail(in)) /\ Head(Tail(in)) = Tail(in)[1]
      BY <2>1, <2>3, NextReply
    <3>2. 2 \in 1 .. Len(in) /\ Head(Tail(in)) = in[2]
      BY <2>1, <3>1
    <3> QED BY <1>8, <2>3, <3>2 DEF Sending, Waiting, Only
  <2> QED BY <2>2, <2>3
<1>10. OwnTransfer(c, q, <<>>, Tail(in), i)
  <2>1. transfers[i].handle # Null
    BY <1>1, <1>8 DEF Waiting
  <2> QED BY <1>5, <1>8, <1>9, <2>1 DEF OwnTransfer, Phases
<1>11. Conn(c, q, <<>>, Tail(in))
  BY <1>5, <1>6, <1>7, <1>10 DEF Conn
<1> QED BY <1>1, <1>3, <1>4, <1>6, <1>11, ProcessStep

\* One more request of do_send.
LEMMA InPlaceNext ==
    ASSUME NEW p, NEW q, NEW m, InPlace(p, m), p.at = "send", q.at \in {"send", "result"},
           q.mode = p.mode, q.id = p.id
    PROVE  InPlace(q, m)
BY DEF InPlace, EndedAt

LEMMA SendConn ==
    ASSUME FInv, CInv, PInv, NEW c \in Conns, SendChunk(c) \/ SendDone(c) PROVE CInv'
<1> DEFINE p == proc[c]
           in == toClient[c]
           out == toCore[c]
           i == p.id
           q == IF SendChunk(c) THEN [p EXCEPT !.next = @ + 1] ELSE [p EXCEPT !.at = "result"]
           m == IF SendChunk(c) THEN [type |-> "CHUNK", id |-> p.id, index |-> p.next]
                                ELSE [type |-> "DONE", id |-> p.id]
           more == Append(out, m)
<1>1. /\ CoreIdle /\ p.at = "send"
      /\ toClient' = [toClient EXCEPT ![c] = in]
      /\ proc' = [proc EXCEPT ![c] = q]
      /\ toCore' = [toCore EXCEPT ![c] = more]
  BY DEF SendChunk, SendDone, Asks, PInv, ClientTypes
<1>2. /\ p \in Process /\ in \in Seq(Answer) /\ out \in Seq(Request) /\ Len(out) \in Nat
      /\ p.next \in Nat /\ Tidy(p, out, in)
  BY ConnFacts
<1>3. /\ p.mode = "send" /\ i \in Ids /\ ~Ended(c) /\ MineOf(c) = i
      /\ OwnTransfer(c, p, out, in, i)
  BY <1>1, SenderFacts
<1>4. /\ q.mode = "send" /\ q.id = i
      /\ \/ /\ q.at = "send" /\ q.next = p.next + 1
            /\ m.type = "CHUNK" /\ m.index = p.next /\ m.id = i
         \/ /\ q.at = "result" /\ q.next = p.next
            /\ m.type = "DONE" /\ m.id = i
  <2>1. CASE SendChunk(c)
    BY <1>1, <1>2, <1>3, <2>1 DEF Process
  <2>2. CASE ~SendChunk(c)
    BY <1>1, <1>2, <1>3, <2>2 DEF Process
  <2> QED BY <2>1, <2>2
<1> HIDE DEF q, m, more, i
<1>5. /\ Len(more) = Len(out) + 1 /\ more[Len(out) + 1] = m /\ more # <<>>
      /\ \A n \in 1 .. Len(out) : more[n] = out[n]
  <2>1. /\ Len(Append(out, m)) = Len(out) + 1 /\ Append(out, m)[Len(out) + 1] = m
        /\ \A n \in 1 .. Len(out) : Append(out, m)[n] = out[n]
    BY <1>2
  <2>2. Append(out, m) # <<>>
    <3>1. Len(Append(out, m)) # 0 /\ Len(<<>>) = 0
      BY <1>2, <2>1
    <3> QED BY <3>1
  <2> QED BY <1>2, <2>1, <2>2 DEF more
<1>6. Mine(q, in) = i
  BY <1>4 DEF Mine
<1>7. \A n \in 1 .. Len(out) : InPlace(p, out[n]) /\ out[n].type # "DONE"
  BY <1>1, <1>2 DEF Tidy, InPlace, EndedAt
<1>8. Tidy(q, more, in)
  <2>1. InPlace(q, m)
    BY <1>4 DEF InPlace, EndedAt
  <2>2. ASSUME NEW n \in 1 .. Len(more)
        PROVE  InPlace(q, more[n]) /\ (more[n].type = "DONE" => n = Len(more))
    <3>1. CASE n \in 1 .. Len(out)
      <4>1. InPlace(q, out[n])
        BY <1>1, <1>3, <1>4, <1>7, <3>1, InPlaceNext DEF i
      <4> QED BY <1>5, <1>7, <3>1, <4>1
    <3>2. CASE n = Len(out) + 1
      BY <1>5, <2>1, <3>2
    <3> QED BY <1>2, <1>5, <3>1, <3>2
  <2> QED BY <1>4, <2>2 DEF Tidy
<1>9. /\ Known(i) /\ Linked(c, i) /\ i \notin dangling /\ Sending(p, out, in, i)
      /\ transfers[i].handle # Null
  BY <1>1, <1>3 DEF OwnTransfer, DoneAhead, Using, Phases, EndedAt
<1>10. Feeds(p, out, i) => Feeds(q, more, i)
  <2> DEFINE e == transfers[i].expected
  <2> SUFFICES ASSUME Feeds(p, out, i) PROVE Feeds(q, more, i)
    OBVIOUS
  <2>1. /\ e + Len(out) = p.next
        /\ \A k \in 1 .. Len(out) : out[k].type = "CHUNK" /\ out[k].index = e + k - 1
    <3>1. Len(out) - 0 = Len(out)
      BY <1>2
    <3> QED BY <1>1, <3>1 DEF Feeds
  <2>2. e \in Nat
    BY <1>3, TransferBounds DEF FInv, TypeOK, Transfer
  <2> HIDE DEF e
  <2>3. CASE q.at = "send" /\ q.next = p.next + 1 /\ m.type = "CHUNK" /\ m.index = p.next
    <3>1. e + Len(more) = q.next
      BY <1>2, <1>5, <2>1, <2>3, <2>2
    <3>2. ASSUME NEW k \in 1 .. Len(more)
          PROVE  more[k].type = "CHUNK" /\ more[k].index = e + k - 1
      <4>1. CASE k \in 1 .. Len(out)
        BY <1>5, <2>1, <4>1
      <4>2. CASE k = Len(out) + 1
        <5>1. e + (Len(out) + 1) - 1 = p.next
          BY <1>2, <2>1, <2>2
        <5> QED BY <1>5, <2>3, <4>2, <5>1
      <4> QED BY <1>2, <1>5, <4>1, <4>2
    <3>3. Len(more) - 0 = Len(more)
      BY <1>2, <1>5
    <3> QED BY <2>3, <3>1, <3>2, <3>3 DEF Feeds, e
  <2>4. CASE q.at = "result" /\ q.next = p.next
    <3>1. Len(more) - 1 = Len(out)
      BY <1>2, <1>5
    <3>2. \A k \in 1 .. Len(out) : more[k].type = "CHUNK" /\ more[k].index = e + k - 1
      BY <1>5, <2>1
    <3> QED BY <2>1, <2>4, <3>1, <3>2 DEF Feeds, e
  <2> QED BY <1>4, <2>3, <2>4
<1>11. Sending(q, more, in, i)
  BY <1>9, <1>10 DEF Sending
<1>12. OwnTransfer(c, q, more, in, i)
  BY <1>4, <1>5, <1>9, <1>11 DEF OwnTransfer, Phases
<1>13. Conn(c, q, more, in)
  BY <1>4, <1>6, <1>8, <1>12 DEF Conn
<1> QED BY <1>1, <1>3, <1>6, <1>13, ProcessStep

LEMMA LoseConn ==
    ASSUME CInv, PInv, NEW c \in Conns, Lose(c) PROVE CInv'
<1> DEFINE p == proc[c]
           in == toClient[c]
<1>1. /\ CoreIdle /\ p.at \in EndedAt /\ Ended(c)
      /\ proc' = [proc EXCEPT ![c] = p]
      /\ toCore' = [toCore EXCEPT ![c] = <<>>]
      /\ toClient' = [toClient EXCEPT ![c] = in]
  BY DEF Lose, Ended, EndedAt, PInv, ClientTypes
<1>2. Conn(c, p, toCore[c], in)
  BY ConnFacts
<1>3. Tidy(p, <<>>, in)
  BY <1>1, <1>2 DEF Conn, Tidy, EndedAt
<1>4. Mine(p, in) \in Ids => OwnTransfer(c, p, <<>>, in, Mine(p, in))
  <2>1. ~DoneAhead(p, <<>>)
    BY <1>1 DEF DoneAhead, EndedAt
  <2>2. Phases(p, toCore[c], in, Mine(p, in)) => Phases(p, <<>>, in, Mine(p, in))
    BY <1>1 DEF Phases, EndedAt
  <2>3. ~Using(p, <<>>)
    BY <1>1 DEF Using, EndedAt
  <2> QED BY <1>1, <1>2, <2>1, <2>2, <2>3 DEF Conn, OwnTransfer
<1>5. Conn(c, p, <<>>, in)
  BY <1>2, <1>3, <1>4 DEF Conn
<1>6. Mine(p, in) = MineOf(c)
  BY DEF MineOf
<1> QED BY <1>1, <1>5, <1>6, ProcessStep

-----------------------------------------------------------------------------
\* Sessions

LEMMA StoreKept ==
    ASSUME UNCHANGED <<storeVars, histVars, torn>>
    PROVE  /\ \A i \in Ids : Kept(i)
           /\ UNCHANGED <<transfers, ub>>
BY DEF Kept, storeVars, histVars

\* The session of a process that has ended is forgotten.
LEMMA SessionEndsConn ==
    ASSUME FInv, GInv, CInv, PInv, NEW c \in Conns, CoreWriteFails(c) \/ CoreCloses(c)
    PROVE  CInv'
<1>1. /\ Ended(c) /\ UNCHANGED <<proc, toCore, toClient>>
      /\ UNCHANGED <<storeVars, histVars, torn>>
  BY DEF CoreWriteFails, CoreCloses, clientVars
<1>2. /\ \A d \in Conns : d # c => token'[d] = token[d] /\ user'[d] = user[d]
      /\ \A t \in Tokens, d \in Conns : holder'[t] = d => holder[t] = d
  <2>1. LoseAuth(c) \/ Vanish(c)
    BY DEF CoreWriteFails, CoreCloses
  <2>2. CASE LoseAuth(c)
    BY <2>2, NoConnAssumption DEF LoseAuth, IsAuthenticated, FInv, TypeOK, DirTypeOK
  <2>3. CASE Vanish(c)
    BY <2>3, NoConnAssumption DEF Vanish, FInv, TypeOK, DirTypeOK
  <2> QED BY <2>1, <2>2, <2>3
<1>3. ASSUME NEW d \in Conns PROVE Conn(d, proc[d], toCore[d], toClient[d])'
  <2>1. PICK q, o, n : q = proc[d] /\ o = toCore[d] /\ n = toClient[d]
    OBVIOUS
  <2>2. Conn(d, q, o, n) /\ (q.at \notin EndedAt => d # c)
    BY <1>1, <2>1 DEF CInv, Ended, EndedAt
  <2>3. Conn(d, q, o, n)'
    BY <1>1, <1>2, <2>2, StoreKept, KeptConn
  <2> QED BY <1>1, <2>1, <2>3
<1>4. OneSender'
  BY <1>1 DEF CInv, OneSender, MineOf
<1>5. NotifiedOfOwn'
  <2>1. \A i \in Ids : transfers[i].senderToken \in Tokens \cup {NoToken}
    BY DEF FInv, TypeOK, Transfer
  <2>2. UNCHANGED transfers
    BY <1>1 DEF storeVars
  <2> QED BY <1>1, <1>2, <2>1, <2>2 DEF CInv, NotifiedOfOwn, MineOf, Ended, Known
<1> QED BY <1>1, <1>3, <1>4, <1>5, StoreKept DEF CInv

\* Handling a request of a process that has ended.
LEMMA TailRequests ==
    ASSUME NEW out \in Seq(Request), out # <<>>
    PROVE  /\ Head(out) \in Request /\ Head(out) = out[1] /\ 1 \in 1 .. Len(out)
           /\ Tail(out) \in Seq(Request) /\ Len(Tail(out)) = Len(out) - 1
           /\ Len(Tail(out)) \in Nat /\ Len(out) \in Nat
           /\ \A n \in 1 .. Len(Tail(out)) : n + 1 \in 1 .. Len(out) /\ Tail(out)[n] = out[n + 1]
BY HeadTailProperties, EmptySeq, LenProperties

LEMMA TailInPlace ==
    ASSUME NEW p, NEW out \in Seq(Request), out # <<>>,
           \A n \in 1 .. Len(out) :
              InPlace(p, out[n]) /\ (out[n].type = "DONE" => n = Len(out))
    PROVE  \A n \in 1 .. Len(Tail(out)) :
              InPlace(p, Tail(out)[n]) /\ (Tail(out)[n].type = "DONE" => n = Len(Tail(out)))
<1> SUFFICES ASSUME NEW n \in 1 .. Len(Tail(out))
             PROVE  InPlace(p, Tail(out)[n]) /\ (Tail(out)[n].type = "DONE" => n = Len(Tail(out)))
  OBVIOUS
<1>1. /\ n + 1 \in 1 .. Len(out) /\ Tail(out)[n] = out[n + 1]
      /\ Len(Tail(out)) = Len(out) - 1 /\ Len(out) \in Nat
  BY TailRequests
<1>2. ASSUME NEW a \in Nat, NEW b \in Nat, a + 1 = b PROVE a = b - 1
  BY <1>2
<1>3. n \in Nat
  BY TailRequests
<1>4. n + 1 = Len(out) => n = Len(Tail(out))
  BY <1>1, <1>2, <1>3
<1> QED BY <1>1, <1>4

LEMMA DoneStillAhead ==
    ASSUME NEW p, NEW out \in Seq(Request), out # <<>>, DoneAhead(p, Tail(out))
    PROVE  DoneAhead(p, out)
BY TailRequests DEF DoneAhead

LEMMA StillUsing ==
    ASSUME NEW p, NEW out \in Seq(Request), out # <<>>, Using(p, Tail(out))
    PROVE  Using(p, out)
BY TailRequests DEF Using

LEMMA TailEnded ==
    ASSUME NEW c \in Conns, NEW p, NEW out \in Seq(Request), out # <<>>, NEW in,
           p.at \in EndedAt, Conn(c, p, out, in)
    PROVE  Conn(c, p, Tail(out), in)
<1>1. Tidy(p, Tail(out), in)
  <2>1. \A n \in 1 .. Len(Tail(out)) :
           InPlace(p, Tail(out)[n]) /\ (Tail(out)[n].type = "DONE" => n = Len(Tail(out)))
    BY TailInPlace DEF Conn, Tidy
  <2> QED BY <2>1 DEF Conn, Tidy, EndedAt
<1>2. ASSUME Mine(p, in) \in Ids PROVE OwnTransfer(c, p, Tail(out), in, Mine(p, in))
  <2>1. OwnTransfer(c, p, out, in, Mine(p, in))
    BY <1>2 DEF Conn
  <2>2. Phases(p, Tail(out), in, Mine(p, in))
    BY <2>1 DEF OwnTransfer, Phases, EndedAt
  <2> QED BY <2>1, <2>2, DoneStillAhead, StillUsing DEF OwnTransfer
<1> QED BY <1>1, <1>2 DEF Conn

LEMMA CoreLoginConn ==
    ASSUME FInv, GInv, CInv, PInv, NEW c \in Conns, CoreLogin(c) PROVE CInv'
<1> DEFINE p == proc[c]
           in == toClient[c]
           out == toCore[c]
<1>1. /\ out # <<>> /\ Head(out).type = "LOGIN_REQ" /\ proc' = proc
      /\ UNCHANGED <<storeVars, histVars, torn>>
      /\ toCore' = [toCore EXCEPT ![c] = Tail(out)]
  BY DEF CoreLogin, Receives
<1>2. PICK ok \in BOOLEAN :
         /\ IF ok THEN LogIn(c, proc[c].me) ELSE UNCHANGED dirVars
         /\ toClient' = [toClient EXCEPT ![c] = IF Ended(c) THEN @
               ELSE Append(@, [type |-> "LOGIN_RESP", ok |-> ok, id |-> 0])]
  BY DEF CoreLogin
<1>3. /\ p \in Process /\ in \in Seq(Answer) /\ out \in Seq(Request)
      /\ Len(in) \in Nat /\ Tidy(p, out, in) /\ Conn(c, p, out, in)
  BY ConnFacts
<1>4. p.at \in {"login"} \cup EndedAt
  BY <1>1, <1>3, TailRequests DEF Tidy, InPlace
<1>5. /\ proc'[c] = p /\ toCore'[c] = Tail(out)
      /\ toClient'[c] = IF Ended(c) THEN in
            ELSE Append(in, [type |-> "LOGIN_RESP", ok |-> ok, id |-> 0])
      /\ \A d \in Conns : d # c =>
            proc'[d] = proc[d] /\ toCore'[d] = toCore[d] /\ toClient'[d] = toClient[d]
  BY <1>1, <1>2 DEF PInv, ClientTypes
<1>6. Conn(c, p, Tail(out), toClient'[c])
  <2>1. CASE p.at \in EndedAt
    <3>1. toClient'[c] = in
      BY <1>5, <2>1 DEF Ended, EndedAt
    <3> QED BY <1>1, <1>3, <2>1, <3>1, TailEnded
  <2>2. CASE p.at = "login"
    <3> DEFINE m == [type |-> "LOGIN_RESP", ok |-> ok, id |-> 0]
    <3>1. Len(in) + Len(out) <= 1 /\ Len(Tail(out)) = Len(out) - 1
          /\ Len(Tail(out)) \in Nat /\ Len(out) \in Nat
      BY <1>1, <1>3, <2>2, TailRequests DEF Tidy
    <3>2. ASSUME NEW a \in Nat, NEW b \in Nat, NEW e \in Nat, a + b <= 1, e = b - 1
          PROVE  a = 0 /\ e = 0
      BY <3>2
    <3>3. Len(in) = 0 /\ Len(Tail(out)) = 0
      BY <1>3, <3>1, <3>2
    <3>4. in = <<>> /\ Tail(out) = <<>>
      BY <1>1, <1>3, <3>3, EmptySeq, TailRequests
    <3>5. toClient'[c] = Append(in, m)
      BY <1>5, <2>2 DEF Ended
    <3> HIDE DEF m
    <3>6. toClient'[c] = <<m>> /\ Len(<<m>>) = 1
      BY <3>4, <3>5
    <3>7. Tidy(p, <<>>, <<m>>)
      BY <1>3, <2>2, <3>6 DEF Tidy
    <3>8. Mine(p, <<m>>) = 0
      BY <1>3, <2>2 DEF Mine, Tidy
    <3> QED BY <2>2, <3>4, <3>6, <3>7, <3>8, NotAnId DEF Conn
  <2> QED BY <1>4, <2>1, <2>2
<1>7. Mine(p, toClient'[c]) = MineOf(c)
  <2>1. p.at \in EndedAt => toClient'[c] = in
    BY <1>5 DEF Ended, EndedAt
  <2> QED BY <1>4, <2>1 DEF MineOf, Mine
<1>8. /\ \A d \in Conns : d # c => token'[d] = token[d] /\ user'[d] = user[d]
      /\ \A i \in Ids : transfers[i].senderToken # NoToken =>
            holder'[transfers[i].senderToken] = holder[transfers[i].senderToken]
  <2>1. \A i \in Ids : /\ transfers[i].senderToken \in Tokens \cup {NoToken}
                       /\ transfers[i].senderToken <= issued
    BY DEF FInv, TypeOK, Transfer, GInv, SessionsLinked
  <2>2. CASE ok
    <3>1. /\ token' = [token EXCEPT ![c] = issued + 1]
          /\ user' = [user EXCEPT ![c] = proc[c].me]
          /\ holder' = [holder EXCEPT ![issued + 1] = c] /\ issued \in Nat
      BY <1>2, <2>2, MaxLoginsAssumption DEF LogIn, FInv, TypeOK, DirTypeOK
    <3>2. \A i \in Ids : transfers[i].senderToken # issued + 1
      BY <2>1, <3>1, MaxLoginsAssumption DEF Tokens, NoToken
    <3> QED BY <2>1, <3>1, <3>2 DEF FInv, TypeOK, DirTypeOK
  <2>3. CASE ~ok
    BY <1>2, <2>3 DEF dirVars
  <2> QED BY <2>2, <2>3
<1>9. ASSUME NEW d \in Conns PROVE Conn(d, proc[d], toCore[d], toClient[d])'
  <2>1. PICK q, o, n : q = proc'[d] /\ o = toCore'[d] /\ n = toClient'[d]
    OBVIOUS
  <2>2. Conn(d, q, o, n)
    BY <1>5, <1>6, <2>1 DEF CInv
  <2>3. Conn(d, q, o, n)'
    <3>1. CASE d # c
      BY <1>1, <1>8, <2>2, <3>1, StoreKept, KeptConn
    <3>2. CASE d = c
      <4>1. q.at = "login" => Mine(q, n) \notin Ids
        BY <1>3, <1>5, <1>7, <2>1, <3>2, NotAnId DEF MineOf, Mine, Tidy
      <4>2. CASE q.at = "login"
        BY <2>2, <4>1, <4>2 DEF Conn
      <4>3. CASE q.at \in EndedAt
        BY <1>1, <2>2, <4>3, StoreKept, KeptConn
      <4> QED BY <1>4, <1>5, <2>1, <3>2, <4>2, <4>3
    <3> QED BY <3>1, <3>2
  <2> QED BY <2>1, <2>3
<1>10. \A d \in Conns : MineOf(d)' = MineOf(d) /\ Ended(d)' = Ended(d)
  BY <1>1, <1>5, <1>7 DEF MineOf, Ended
<1>11. UNCHANGED <<transfers, ub>>
  BY <1>1, StoreKept
<1>12. OneSender' /\ NotifiedOfOwn'
  BY <1>8, <1>10, <1>11 DEF CInv, OneSender, NotifiedOfOwn, Known
<1> QED BY <1>9, <1>11, <1>12 DEF CInv

-----------------------------------------------------------------------------
\* The handlers of the file messages

\* Which frames arrive where.
LEMMA NothingArrives ==
    ASSUME NEW d \in Conns, NEW id, Ended(d) \/ sent' = <<>>
    PROVE  Arriving(d, id) = <<>>
<1>1. Arrives(d, sent', 1, id) = <<>> /\ Arrives(d, sent', 2, id) = <<>>
  <2>1. CASE Ended(d)
    BY <2>1 DEF Arrives
  <2>2. CASE sent' = <<>>
    <3>1. Len(sent') = 0
      BY <2>2
    <3> QED BY <3>1 DEF Arrives
  <2> QED BY <2>1, <2>2
<1> QED BY <1>1 DEF Arriving

LEMMA ReplyArrives ==
    ASSUME NEW c \in Conns, NEW d \in Conns, NEW id, NEW type, NEW ok,
           sent' = Reply(c, type, ok)
    PROVE  /\ d # c => Arriving(d, id) = <<>>
           /\ ~Ended(c) => Arriving(c, id) = <<[type |-> type, ok |-> ok, id |-> id]>>
<1> DEFINE f == [to |-> c, type |-> type, ok |-> ok]
           m == [type |-> type, ok |-> ok, id |-> id]
<1>1. Len(sent') = 1 /\ sent'[1] = f
  BY DEF Reply
<1>2. \A e \in Conns : Arrives(e, sent', 2, id) = <<>>
  BY <1>1 DEF Arrives
<1>3. d # c => Arrives(d, sent', 1, id) = <<>>
  BY <1>1 DEF Arrives
<1>4. ~Ended(c) => Arrives(c, sent', 1, id) = <<m>>
  BY <1>1 DEF Arrives
<1> HIDE DEF m
<1>5. <<m>> \o <<>> = <<m>> /\ <<>> \o <<>> = <<>>
  OBVIOUS
<1> QED BY <1>2, <1>3, <1>4, <1>5 DEF Arriving, m

LEMMA ReplyElsewhere ==
    ASSUME NEW c \in Conns, NEW d \in Conns, d # c, NEW id,
           \E type, ok : sent' = Reply(c, type, ok)
    PROVE  Arriving(d, id) = <<>>
BY ReplyArrives

LEMMA ArriveTwo ==
    ASSUME NEW c \in Conns, NEW d \in Conns, d # c, NEW q, NEW id, NEW h, NEW m,
           Len(q) = 2, q[1].to = h, q[2].to = c,
           [type |-> q[1].type, ok |-> q[1].ok, id |-> id] = m
    PROVE  /\ Arrives(d, q, 2, id) = <<>>
           /\ Arrives(d, q, 1, id) = IF h = d /\ ~Ended(d) THEN <<m>> ELSE <<>>
BY DEF Arrives

LEMMA TwoFrames ==
    ASSUME NEW s \in Seq(Frame), NEW r \in Seq(Frame), Len(r) = 1
    PROVE  /\ Len(s) = 1 =>
                 Len(s \o r) = 2 /\ (s \o r)[1] = s[1] /\ (s \o r)[2] = r[1]
           /\ s = <<>> => s \o r = r
<1>1. s = <<>> => s \o r = r
  BY ConcatEmptySeq
<1>2. /\ Len(s \o r) = Len(s) + Len(r)
      /\ \A n \in 1 .. Len(s) + Len(r) :
            (s \o r)[n] = IF n <= Len(s) THEN s[n] ELSE r[n - Len(s)]
  BY ConcatProperties
<1>3. PICK q, k, e : q = s \o r /\ k = Len(s) /\ e = Len(r)
  OBVIOUS
<1>4. k = 1 => Len(q) = 2 /\ q[1] = s[1] /\ q[2] = r[1]
  <2>1. /\ e = 1 /\ Len(q) = k + e
        /\ \A n \in 1 .. k + e : q[n] = IF n <= k THEN s[n] ELSE r[n - k]
    BY <1>2, <1>3
  <2> QED BY <2>1
<1> QED BY <1>1, <1>3, <1>4

\* An accept reaches the process at the sender's session, whoever accepted.
LEMMA AcceptArrives ==
    ASSUME FInv, NEW c \in Conns, NEW d \in Conns, d # c, NEW i \in Ids,
           sent' = NotifySender(i, TRUE) \o Reply(c, "ACCEPT_RESP", TRUE)
    PROVE  LET t == transfers[i].senderToken IN
           IF t # NoToken /\ holder[t] = d /\ ~Ended(d)
           THEN Arriving(d, 0) = <<[type |-> "ACCEPT_RESP", ok |-> TRUE, id |-> 0]>>
           ELSE Arriving(d, 0) = <<>>
<1> DEFINE t == transfers[i].senderToken
           m == [type |-> "ACCEPT_RESP", ok |-> TRUE, id |-> 0]
<1>1. PICK s, r : s = NotifySender(i, TRUE) /\ r = Reply(c, "ACCEPT_RESP", TRUE)
  OBVIOUS
<1>2. s \in Seq(Frame) /\ r \in Seq(Frame) /\ sent' = s \o r
  BY <1>1, NotifyType, ReplyType DEF FInv
<1>3. Len(r) = 1 /\ r[1].to = c
  BY <1>1 DEF Reply
<1>4. IF t # NoToken /\ holder[t] # NoConn
      THEN /\ Len(s) = 1 /\ s[1].to = holder[t]
           /\ [type |-> s[1].type, ok |-> s[1].ok, id |-> 0] = m
      ELSE s = <<>>
  BY <1>1 DEF NotifySender, Reply
<1> HIDE DEF t
<1>5. IF t # NoToken /\ holder[t] = d /\ ~Ended(d)
      THEN Arriving(d, 0) = <<m>> ELSE Arriving(d, 0) = <<>>
  <2>1. CASE t # NoToken /\ holder[t] # NoConn
    <3>1. /\ Len(s) = 1 /\ s[1].to = holder[t]
          /\ [type |-> s[1].type, ok |-> s[1].ok, id |-> 0] = m
      BY <1>4, <2>1
    <3>2. Len(s \o r) = 2 /\ (s \o r)[1] = s[1] /\ (s \o r)[2] = r[1]
      BY <1>2, <1>3, <3>1, TwoFrames
    <3>3. PICK q : q = s \o r /\ q = sent'
      BY <1>2
    <3>4. Len(q) = 2 /\ q[1].to = holder[t] /\ q[2].to = c
          /\ [type |-> q[1].type, ok |-> q[1].ok, id |-> 0] = m
      BY <1>3, <3>1, <3>2, <3>3
    <3> HIDE DEF m
    <3>5. Arrives(d, q, 2, 0) = <<>>
          /\ Arrives(d, q, 1, 0) = IF holder[t] = d /\ ~Ended(d) THEN <<m>> ELSE <<>>
      BY <3>4, ArriveTwo
    <3>6. <<m>> \o <<>> = <<m>> /\ <<>> \o <<>> = <<>>
      OBVIOUS
    <3> QED BY <2>1, <3>3, <3>5, <3>6 DEF Arriving
  <2>2. CASE ~(t # NoToken /\ holder[t] # NoConn)
    <3>1. \E type, ok : sent' = Reply(c, type, ok)
      <4>1. s = <<>>
        BY <1>4, <2>2
      <4>2. s \o r = r
        BY <1>2, <1>3, <4>1, TwoFrames
      <4> QED BY <1>1, <1>2, <4>2
    <3>2. Arriving(d, 0) = <<>> /\ d # NoConn
      BY <3>1, ReplyElsewhere, NoConnAssumption
    <3> HIDE DEF m
    <3> QED BY <2>2, <3>2
  <2> QED BY <2>1, <2>2
<1> QED BY <1>5 DEF t

\* What a handler does to the connections.
LEMMA Answering ==
    ASSUME PInv, NEW c \in Conns, NEW id \in 0 .. MaxTransfers + 1, Replies(c, id),
           sent' \in Seq(Frame)
    PROVE  /\ proc' = proc
           /\ toCore'[c] = Tail(toCore[c])
           /\ \A d \in Conns : d # c => toCore'[d] = toCore[d]
           /\ \A d \in Conns : /\ toClient'[d] = toClient[d] \o Arriving(d, id)
                               /\ Arriving(d, id) = <<>> => toClient'[d] = toClient[d]
                               /\ Arriving(d, id) \in Seq(Answer)
                               /\ Ended(d)' = Ended(d)
<1>1. /\ proc' = proc
      /\ toCore' = [toCore EXCEPT ![c] = Tail(toCore[c])]
      /\ toClient' = [d \in Conns |-> toClient[d] \o Arriving(d, id)]
  BY RepliesEffect
<1>2. \A d \in Conns : Arriving(d, id) \in Seq(Answer) /\ toClient[d] \in Seq(Answer)
  BY ArrivingFacts, ConnTypes DEF PInv
<1>3. \A d \in Conns : toClient[d] \o <<>> = toClient[d]
  BY <1>2, ConcatEmptySeq
<1>4. toCore'[c] = Tail(toCore[c]) /\ \A d \in Conns : d # c => toCore'[d] = toCore[d]
  BY <1>1 DEF PInv, ClientTypes
<1>5. \A d \in Conns : toClient'[d] = toClient[d] \o Arriving(d, id)
  BY <1>1
<1> QED BY <1>1, <1>2, <1>3, <1>4, <1>5 DEF Ended

\* A process that neither asked nor is notified, and whose transfer is kept.
LEMMA ConnStays ==
    ASSUME PInv, CInv, NEW c \in Conns, NEW id \in 0 .. MaxTransfers + 1, Replies(c, id),
           sent' \in Seq(Frame), UNCHANGED dirVars,
           NEW d \in Conns, d # c, Arriving(d, id) = <<>>,
           MineOf(d) \in Ids => Kept(MineOf(d))
    PROVE  Conn(d, proc[d], toCore[d], toClient[d])'
<1>1. PICK q, o, n : q = proc[d] /\ o = toCore[d] /\ n = toClient[d]
  OBVIOUS
<1>2. q = proc'[d] /\ o = toCore'[d] /\ n = toClient'[d]
  BY <1>1, Answering
<1>3. Conn(d, q, o, n) /\ (Mine(q, n) \in Ids => Kept(Mine(q, n)))
  BY <1>1 DEF CInv, MineOf
<1>4. token' = token /\ user' = user
  BY DEF dirVars
<1>5. Conn(d, q, o, n)'
  BY <1>3, <1>4, KeptConn
<1> QED BY <1>2, <1>5

\* What is left of a handler's proof once every process is dealt with.
LEMMA HandlerConn ==
    ASSUME PInv, CInv, UNCHANGED dirVars, ~ub', proc' = proc,
           \A i \in Ids : /\ transfers'[i].senderToken = transfers[i].senderToken
                          /\ Known(i)' => Known(i),
           \A d \in Conns : MineOf(d)' = MineOf(d),
           \A d \in Conns : Conn(d, proc[d], toCore[d], toClient[d])'
    PROVE  CInv'
<1>1. \A d \in Conns : Ended(d)' = Ended(d)
  BY DEF Ended
<1>2. holder' = holder
  BY DEF dirVars
<1>3. OneSender'
  BY DEF CInv, OneSender
<1>4. NotifiedOfOwn'
  BY <1>1, <1>2 DEF CInv, NotifiedOfOwn
<1> QED BY <1>3, <1>4 DEF CInv

\* A request of a process that has given up is handled.
LEMMA FailedConn ==
    ASSUME NEW c \in Conns, NEW p, NEW out \in Seq(Request), out # <<>>, NEW in,
           p.at \in EndedAt, Conn(c, p, out, in),
           Mine(p, in) \in Ids =>
              /\ Known(Mine(p, in)) => Known(Mine(p, in))'
              /\ transfers'[Mine(p, in)].handle = transfers[Mine(p, in)].handle
              /\ Mine(p, in) \in dangling' =>
                    Mine(p, in) \in dangling \/ ~DoneAhead(p, Tail(out))
    PROVE  Conn(c, p, Tail(out), in)'
<1>1. Conn(c, p, Tail(out), in)
  BY TailEnded
<1>2. Tidy(p, Tail(out), in)
  BY <1>1 DEF Conn
<1> DEFINE i == Mine(p, in)
<1>3. p.at = "success" => i \notin Ids
  BY NotAnId DEF Conn, Mine
<1>4. ASSUME i \in Ids PROVE OwnTransfer(c, p, Tail(out), in, i)'
  <2>1. OwnTransfer(c, p, Tail(out), in, i) /\ p.at = "failed"
    BY <1>1, <1>3, <1>4 DEF Conn, EndedAt
  <2> HIDE DEF i
  <2>2. Phases(p, Tail(out), in, i)'
    BY <2>1 DEF Phases
  <2> QED BY <1>4, <2>1, <2>2 DEF OwnTransfer, EndedAt, i
<1>5. p.at = "success" /\ p.mode = "send" => FALSE
  BY DEF Conn
<1> HIDE DEF i
<1> QED BY <1>2, <1>4, <1>5 DEF Conn, i

\* FILE_OFFER_REQ: the new transfer is the sender's, and nobody else's.
LEMMA CoreOfferConn ==
    ASSUME FInv, FInv', GInv, CInv, PInv, NEW c \in Conns, CoreOffer(c) PROVE CInv'
<1> DEFINE p == proc[c]
           in == toClient[c]
           out == toCore[c]
           m == Head(out)
<1>1. /\ out # <<>> /\ m.type = "OFFER_REQ" /\ Replies(c, nextId) /\ UNCHANGED torn
      /\ nextId \in 0 .. MaxTransfers + 1 /\ sent' \in Seq(Frame)
  BY TransferBounds DEF CoreOffer, Receives, FInv, TypeOK
<1>2. /\ p \in Process /\ in \in Seq(Answer) /\ out \in Seq(Request)
      /\ Tidy(p, out, in) /\ Conn(c, p, out, in) /\ Noted(p) /\ Written(p, out)
  BY ConnFacts
<1>3. p.at \in {"offer"} \cup EndedAt
  BY <1>1, <1>2, TailRequests DEF Tidy, InPlace
<1>4. PICK ok \in BOOLEAN :
         /\ sent' = Reply(c, "OFFER_RESP", ok)
         /\ UNCHANGED <<dirVars, histVars, disk>>
         /\ ok => /\ nextId \in Ids /\ token[c] # NoToken
                  /\ transfers'[nextId].sender = user[c]
                  /\ transfers'[nextId].senderToken = token[c]
                  /\ transfers'[nextId].state = "OFFERED"
                  /\ transfers'[nextId].expected = 0
         /\ \A j \in Ids : (ok /\ j = nextId) \/ transfers'[j] = transfers[j]
  <2>1. CASE m.to \in Users /\ Offer(c, m.to, m.size, nextId)
    <3>1. nextId \in Ids /\ token[c] # NoToken
      BY <2>1, TransferBounds DEF Offer, CreateTransfer, IsAuthenticated, FInv, TypeOK, Ids
    <3>2. /\ transfers'[nextId].sender = user[c]
          /\ transfers'[nextId].senderToken = token[c]
          /\ transfers'[nextId].state = "OFFERED"
          /\ transfers'[nextId].expected = 0
          /\ \A j \in Ids : j # nextId => transfers'[j] = transfers[j]
      BY <2>1, <3>1 DEF Offer, CreateTransfer, FInv, TypeOK
    <3>3. sent' = Reply(c, "OFFER_RESP", TRUE) /\ UNCHANGED <<dirVars, histVars, disk>>
      BY <2>1 DEF Offer
    <3> QED BY <3>1, <3>2, <3>3
  <2>2. CASE OfferRefused(c, m.to, TRUE)
    BY <2>2 DEF OfferRefused, storeVars
  <2> QED BY <2>1, <2>2 DEF CoreOffer
<1>5. \A j \in Ids : Known(j) => j # nextId
  <2>1. nextId >= nextId
    BY <1>1, TransferBounds
  <2> QED BY <2>1, KnownIsOld DEF FInv
<1>6. ASSUME NEW j \in Ids, Known(j) PROVE Kept(j)
  BY <1>1, <1>4, <1>5, <1>6 DEF Kept, histVars
<1>7. \A d \in Conns : MineOf(d) \in Ids => Known(MineOf(d))
  BY DEF CInv, Conn, MineOf, OwnTransfer
<1>8. \A d \in Conns : d # c => Arriving(d, nextId) = <<>>
  BY <1>4, ReplyElsewhere
<1>9. ASSUME NEW d \in Conns, d # c
      PROVE  Conn(d, proc[d], toCore[d], toClient[d])' /\ MineOf(d)' = MineOf(d)
  <2>1. MineOf(d) \in Ids => Kept(MineOf(d))
    BY <1>6, <1>7
  <2>2. Conn(d, proc[d], toCore[d], toClient[d])'
    BY <1>1, <1>4, <1>8, <1>9, <2>1, ConnStays
  <2>3. MineOf(d)' = MineOf(d)
    BY <1>1, <1>8, <1>9, Answering DEF MineOf
  <2> QED BY <2>2, <2>3
<1>10. CASE p.at \in EndedAt
  <2>1. Ended(c) /\ Arriving(c, nextId) = <<>>
    BY <1>10, NothingArrives DEF Ended, EndedAt
  <2>2. PICK q, o, n : q = p /\ o = out /\ n = in
    OBVIOUS
  <2>3. q = proc'[c] /\ Tail(o) = toCore'[c] /\ n = toClient'[c]
    BY <1>1, <2>1, <2>2, Answering
  <2>4. Conn(c, q, Tail(o), n)'
    <3>1. Mine(q, n) \in Ids => Kept(Mine(q, n))
      BY <1>6, <1>7, <2>2 DEF MineOf
    <3>2. Mine(q, n) \in Ids =>
             /\ Known(Mine(q, n)) => Known(Mine(q, n))'
             /\ transfers'[Mine(q, n)].handle = transfers[Mine(q, n)].handle
             /\ Mine(q, n) \in dangling' => Mine(q, n) \in dangling
      BY <3>1 DEF Kept, Known
    <3> QED BY <1>1, <1>2, <1>10, <2>2, <3>2, FailedConn
  <2>5. Conn(c, proc[c], toCore[c], toClient[c])'
    BY <2>3, <2>4
  <2>6. MineOf(c)' = MineOf(c)
    BY <2>2, <2>3 DEF MineOf
  <2>7. OneSender'
    <3>1. \A d \in Conns : MineOf(d)' = MineOf(d)
      BY <1>9, <2>6
    <3> QED BY <3>1 DEF CInv, OneSender
  <2>8. NotifiedOfOwn'
    <3> SUFFICES ASSUME NEW d \in Conns, NEW j \in Ids, ~Ended(d)', Known(j)',
                        transfers'[j].senderToken # NoToken,
                        holder'[transfers'[j].senderToken] = d
                 PROVE  MineOf(d)' = j
      BY DEF NotifiedOfOwn
    <3>1. holder' = holder /\ ~Ended(d) /\ d # c
      BY <1>1, <1>4, <2>1, Answering DEF dirVars
    <3>2. CASE ok /\ j = nextId
      BY <1>4, <3>1, <3>2 DEF GInv, SessionsLinked
    <3>3. CASE transfers'[j] = transfers[j]
      BY <1>9, <3>1, <3>3 DEF CInv, NotifiedOfOwn, Known
    <3> QED BY <1>4, <3>2, <3>3
  <2> QED BY <1>4, <1>9, <2>5, <2>7, <2>8 DEF CInv, histVars
<1>11. CASE p.at = "offer"
  <2>1. ~Ended(c) /\ in = <<>> /\ p.mode = "send" /\ p.id = 0 /\ p.next = 0
    BY <1>1, <1>2, <1>11 DEF Ended, Tidy, Noted
  <2>2. Tail(out) = <<>>
    <3>1. Len(out) <= 1 /\ Len(out) \in Nat /\ Len(Tail(out)) = Len(out) - 1
          /\ Tail(out) \in Seq(Request) /\ Len(Tail(out)) \in Nat
      BY <1>1, <1>2, <2>1, TailRequests DEF Written
    <3>2. ASSUME NEW a \in Nat, NEW b \in Nat, a <= 1, b = a - 1 PROVE b = 0
      BY <3>2
    <3>3. Len(Tail(out)) = 0
      BY <3>1, <3>2
    <3> QED BY <3>1, <3>3, EmptySeq
  <2>3. PICK q, a, n : /\ q = p /\ a = [type |-> "OFFER_RESP", ok |-> ok, id |-> nextId]
                       /\ n = <<a>>
    OBVIOUS
  <2>4. Arriving(c, nextId) = n
    BY <1>4, <2>1, <2>3, ReplyArrives
  <2>5. n # <<>> /\ Head(n) = a /\ Tail(n) = <<>> /\ <<>> \o n = n
    BY <2>3
  <2>6. a.type = "OFFER_RESP" /\ a.ok = ok /\ a.id = nextId
    BY <2>3
  <2>7. q = proc'[c] /\ <<>> = toCore'[c] /\ n = toClient'[c]
    BY <1>1, <2>1, <2>2, <2>3, <2>4, <2>5, Answering
  <2>8. Mine(q, n) = IF ok THEN nextId ELSE 0
    BY <1>11, <2>1, <2>3, <2>5, <2>6 DEF Mine
  <2>9. Tidy(q, <<>>, n)
    BY <1>2, <1>11, <2>1, <2>3, <2>5, <2>6 DEF Tidy
  <2>10. ASSUME ok, NEW i \in Ids, i = nextId PROVE OwnTransfer(c, q, <<>>, n, i)'
    <3>1. nextId \in Ids /\ nextId \notin consent \cup disorder \cup dangling
      BY <1>4, <1>5, <2>10 DEF GInv, HistoryKnown
    <3>2. i \notin consent' \cup disorder' \cup dangling' /\ transfers'[i].expected = 0
      BY <1>4, <2>10, <3>1 DEF histVars
    <3>3. Waiting(i, <<>>)'
      BY <3>2 DEF Waiting, Only
    <3>4. Phases(q, <<>>, n, i)'
      BY <1>11, <2>3, <2>5, <3>3 DEF Phases
    <3>5. Known(i)' /\ Linked(c, i)'
      BY <1>4, <2>10 DEF Known, Linked, dirVars
    <3>6. ~Using(q, <<>>)
      BY <1>11, <2>3 DEF Using
    <3> QED BY <3>2, <3>4, <3>5, <3>6 DEF OwnTransfer
  <2>11. Conn(c, q, <<>>, n)'
    <3>1. \A i \in Ids : i = Mine(q, n) => ok /\ i = nextId
      BY <2>8, NotAnId
    <3>2. Mine(q, n) \in Ids => OwnTransfer(c, q, <<>>, n, Mine(q, n))'
      BY <2>10, <3>1
    <3> QED BY <1>11, <2>3, <2>9, <3>2 DEF Conn
  <2>12. Conn(c, proc[c], toCore[c], toClient[c])'
    BY <2>7, <2>11
  <2>13. MineOf(c)' = (IF ok THEN nextId ELSE 0) /\ MineOf(c) = 0
    BY <1>11, <2>1, <2>7, <2>8 DEF MineOf, Mine
  <2>14. OneSender'
    <3>1. \A d \in Conns : d # c => MineOf(d)' = MineOf(d)
      BY <1>9
    <3>2. \A d \in Conns : d # c /\ MineOf(d)' \in Ids => MineOf(d)' # nextId
      BY <1>5, <1>7, <3>1
    <3> QED BY <2>13, <3>1, <3>2, NotAnId DEF CInv, OneSender
  <2>15. NotifiedOfOwn'
    <3> SUFFICES ASSUME NEW d \in Conns, NEW j \in Ids, ~Ended(d)', Known(j)',
                        transfers'[j].senderToken # NoToken,
                        holder'[transfers'[j].senderToken] = d
                 PROVE  MineOf(d)' = j
      BY DEF NotifiedOfOwn
    <3>1. holder' = holder /\ ~Ended(d)
      BY <1>1, <1>4, Answering DEF dirVars
    <3>2. CASE ok /\ j = nextId
      BY <1>4, <2>13, <3>1, <3>2 DEF GInv, SessionsLinked
    <3>3. CASE transfers'[j] = transfers[j]
      <4>1. MineOf(d) = j
        BY <3>1, <3>3 DEF CInv, NotifiedOfOwn, Known
      <4> QED BY <1>9, <2>13, <4>1, NotAnId
    <3> QED BY <1>4, <3>2, <3>3
  <2> QED BY <1>4, <1>9, <2>12, <2>14, <2>15 DEF CInv, histVars
<1> QED BY <1>3, <1>10, <1>11

-----------------------------------------------------------------------------
\* FILE_ACCEPT_REQ

\* The request of a receiver.
LEMMA RecvConn ==
    ASSUME NEW c \in Conns, NEW p, NEW out \in Seq(Request), out # <<>>, NEW in, NEW n,
           p.mode = "recv", p.at \in {"accept"} \cup EndedAt, Conn(c, p, out, in)
    PROVE  Conn(c, p, Tail(out), n)'
<1>1. \A k \in 1 .. Len(Tail(out)) :
         InPlace(p, Tail(out)[k]) /\ (Tail(out)[k].type = "DONE" => k = Len(Tail(out)))
  BY TailInPlace DEF Conn, Tidy
<1>2. Tidy(p, Tail(out), n)
  BY <1>1 DEF Tidy, EndedAt
<1>3. Mine(p, n) = 0
  BY DEF Mine
<1> QED BY <1>2, <1>3, NotAnId DEF Conn

\* A reply behind those that are on their way.
LEMMA OneMoreReply ==
    ASSUME NEW in \in Seq(Answer), NEW a \in Answer
    PROVE  /\ in \o <<a>> \in Seq(Answer) /\ in \o <<a>> # <<>>
           /\ Len(in \o <<a>>) = Len(in) + 1
           /\ in = <<>> => Head(in \o <<a>>) = a
           /\ in # <<>> => /\ Head(in \o <<a>>) = Head(in)
                           /\ Tail(in \o <<a>>) = Tail(in) \o <<a>>
<1>1. PICK r : r = <<a>>
  OBVIOUS
<1>2. r \in Seq(Answer) /\ Len(r) = 1 /\ r[1] = a
  BY <1>1
<1>3. PICK s : s = in \o r
  OBVIOUS
<1>4. PICK k : k = Len(in)
  OBVIOUS
<1>5. /\ s \in Seq(Answer) /\ Len(s) = k + 1 /\ k \in Nat
      /\ \A n \in 1 .. k + 1 : s[n] = IF n <= k THEN in[n] ELSE r[n - k]
  <2>1. k \in Nat
    BY <1>4, LenProperties
  <2>2. /\ in \o r \in Seq(Answer) /\ Len(in \o r) = Len(in) + Len(r)
        /\ \A n \in 1 .. Len(in) + Len(r) :
              (in \o r)[n] = IF n <= Len(in) THEN in[n] ELSE r[n - Len(in)]
    BY <1>2, ConcatProperties
  <2> QED BY <1>2, <1>3, <1>4, <2>1, <2>2
<1>6. s # <<>> /\ Head(s) = s[1]
  BY <1>5, EmptySeq, HeadTailProperties
<1>7. in = <<>> => Head(s) = a
  <2> SUFFICES ASSUME in = <<>> PROVE s[1] = a
    BY <1>6
  <2>1. k = 0
    BY <1>4
  <2> QED BY <1>2, <1>5, <2>1
<1>8. ASSUME in # <<>> PROVE Head(s) = Head(in) /\ Tail(s) = Tail(in) \o r
  <2>1. k >= 1 /\ Head(in) = in[1] /\ Tail(in) \in Seq(Answer) /\ Len(Tail(in)) = k - 1
        /\ \A n \in 1 .. k - 1 : Tail(in)[n] = in[n + 1]
    BY <1>4, <1>8, EmptySeq, HeadTailProperties, LenProperties
  <2>2. Head(s) = Head(in)
    BY <1>5, <1>6, <2>1
  <2>3. PICK t, u : t = Tail(s) /\ u = Tail(in) \o r
    OBVIOUS
  <2>4. t \in Seq(Answer) /\ Len(t) = k /\ \A n \in 1 .. k : t[n] = s[n + 1]
    <3>1. Tail(s) \in Seq(Answer) /\ Len(Tail(s)) = Len(s) - 1
          /\ \A n \in 1 .. Len(s) - 1 : Tail(s)[n] = s[n + 1]
      BY <1>5, <1>6, HeadTailProperties
    <3> QED BY <1>5, <2>3, <3>1
  <2>5. /\ u \in Seq(Answer) /\ Len(u) = k
        /\ \A n \in 1 .. k : u[n] = IF n <= k - 1 THEN Tail(in)[n] ELSE r[n - (k - 1)]
    <3>1. PICK v : v = Tail(in)
      OBVIOUS
    <3>2. v \in Seq(Answer) /\ Len(v) = k - 1 /\ u = v \o r
      BY <2>1, <2>3, <3>1
    <3>3. /\ u \in Seq(Answer) /\ Len(u) = Len(v) + Len(r)
          /\ \A n \in 1 .. Len(v) + Len(r) :
                u[n] = IF n <= Len(v) THEN v[n] ELSE r[n - Len(v)]
      BY <1>2, <3>2, ConcatProperties
    <3>4. (k - 1) + 1 = k
      BY <1>5
    <3> QED BY <1>2, <3>1, <3>2, <3>3, <3>4
  <2>6. ASSUME NEW n \in 1 .. k PROVE t[n] = u[n]
    <3>1. CASE n <= k - 1
      BY <1>5, <2>1, <2>4, <2>5, <3>1
    <3>2. CASE n = k
      <4>1. t[n] = r[1]
        BY <1>5, <2>4, <3>2
      <4>2. u[n] = r[1]
        BY <1>5, <2>5, <3>2
      <4> QED BY <4>1, <4>2
    <3> QED BY <1>5, <3>1, <3>2
  <2>7. t = u
    BY <2>4, <2>5, <2>6, SeqEqual
  <2> QED BY <2>2, <2>3, <2>7
<1>9. s \in Seq(Answer) /\ s # <<>> /\ Len(s) = Len(in) + 1
  BY <1>4, <1>5, <1>6
<1> QED BY <1>1, <1>3, <1>7, <1>8, <1>9

\* What an accept does to the transfer.
Accepted(i) ==
    /\ transfers'[i].expected = transfers[i].expected /\ transfers'[i].state = "ACCEPTED"
    /\ transfers'[i].handle # Null
    /\ transfers'[i].sender = transfers[i].sender
    /\ transfers'[i].senderToken = transfers[i].senderToken
    /\ consent' = consent \cup {i}
    /\ disorder' = IF i \in consent THEN disorder \cup {i} ELSE disorder
    /\ i \notin dangling'
    /\ torn' = torn /\ lossy' = lossy
    /\ disk'[<<i, "final">>] = disk[<<i, "final">>]

AcceptResp == [type |-> "ACCEPT_RESP", ok |-> TRUE, id |-> 0]

LEMMA AcceptRespFacts == AcceptResp \in Answer /\ AcceptResp.type = "ACCEPT_RESP"
BY TransferBounds DEF AcceptResp, Answer

LEMMA WaitingAccepted ==
    ASSUME NEW i \in Ids, Accepted(i), NEW q \in Seq(Answer), Waiting(i, q)
    PROVE  Waiting(i, q \o <<AcceptResp>>)'
<1>1. PICK r, n : r = <<AcceptResp>> /\ n = q \o r
  OBVIOUS
<1>2. r \in Seq(Answer) /\ Only(r, {"ACCEPT_RESP"})
  <2>1. r \in Seq(Answer) /\ Len(r) = 1 /\ r[1] = AcceptResp
    BY <1>1, AcceptRespFacts
  <2> QED BY <2>1, AcceptRespFacts DEF Only
<1>3. Only(n, {"ACCEPT_RESP"})
  BY <1>1, <1>2, OnlyBoth DEF Waiting
<1>4. n # <<>> /\ Len(n) = Len(q) + 1 /\ Len(q) \in Nat
  BY <1>1, AcceptRespFacts, OneMoreReply
<1>5. Len(n) = 1 => q = <<>>
  <2>1. ASSUME NEW k \in Nat, 1 = k + 1 PROVE k = 0
    BY <2>1
  <2> QED BY <1>4, <2>1, EmptySeq
<1>6. q = <<>> => Ready(i)'
  BY DEF Waiting, Accepted, Ready, TakesChunks
<1>7. transfers'[i].expected = 0 /\ transfers'[i].handle # Null
  BY DEF Waiting, Accepted
<1>8. Waiting(i, n)'
  BY <1>3, <1>4, <1>5, <1>6, <1>7 DEF Waiting
<1> QED BY <1>1, <1>8 DEF AcceptResp

LEMMA PhasesAccepted ==
    ASSUME NEW i \in Ids, Accepted(i), NEW p, NEW out, NEW in \in Seq(Answer),
           Phases(p, out, in, i), p.at = "offer" => in # <<>>
    PROVE  Phases(p, out, in \o <<AcceptResp>>, i)'
<1>1. PICK n : n = in \o <<AcceptResp>>
  OBVIOUS
<1>2. /\ n # <<>>
      /\ in = <<>> => Head(n) = AcceptResp
      /\ in # <<>> => Head(n) = Head(in) /\ Tail(n) = Tail(in) \o <<AcceptResp>>
  BY <1>1, AcceptRespFacts, OneMoreReply
<1>3. \A k : Stored(i, k)' <=> Stored(i, k)
  BY DEF Accepted, Stored
<1>4. p.at = "wait" => Waiting(i, n)'
  <2> SUFFICES ASSUME p.at = "wait" PROVE Waiting(i, n)'
    OBVIOUS
  <2>1. Waiting(i, in)
    BY DEF Phases
  <2> QED BY <1>1, <2>1, WaitingAccepted DEF AcceptResp
<1>5. p.at = "offer" => Waiting(i, Tail(n))'
  <2> SUFFICES ASSUME p.at = "offer" PROVE Waiting(i, Tail(n))'
    OBVIOUS
  <2>1. PICK s : s = Tail(in)
    OBVIOUS
  <2>2. s \in Seq(Answer) /\ Waiting(i, s) /\ Tail(n) = s \o <<AcceptResp>>
    BY <1>2, <2>1, HeadTailProperties DEF Phases
  <2> QED BY <2>2, WaitingAccepted DEF AcceptResp
<1>6. p.at = "send" \/ (p.at = "result" /\ out # <<>>) => Sending(p, out, n, i)'
  BY <1>2, AcceptRespFacts DEF Phases, Sending
<1>7. Phases(p, out, n, i)'
  <2>1. torn' = torn /\ lossy' = lossy
    BY DEF Accepted
  <2> QED BY <1>2, <1>3, <1>4, <1>5, <1>6, <2>1, AcceptRespFacts DEF Phases
<1> QED BY <1>1, <1>7 DEF AcceptResp

\* The sender of an accepted transfer.
LEMMA ConnAccepted ==
    ASSUME NEW c \in Conns, NEW p, NEW out, NEW in \in Seq(Answer), Conn(c, p, out, in),
           NEW i \in Ids, Mine(p, in) = i, Accepted(i), UNCHANGED dirVars,
           NEW n, p.at \in EndedAt => n = in,
           p.at \notin EndedAt => n = in \o <<AcceptResp>>
    PROVE  Conn(c, p, out, n)' /\ Mine(p, n) = i
<1>1. /\ p.mode = "send" /\ (p.at = "offer" => in # <<>>)
      /\ p.at \notin {"none", "login"}
  BY NotAnId DEF Conn, Tidy, Mine
<1>2. OwnTransfer(c, p, out, in, i) /\ Tidy(p, out, in)
  BY DEF Conn
<1>3. in # <<>> /\ p.at \notin EndedAt => n # <<>> /\ Head(n) = Head(in)
  BY AcceptRespFacts, OneMoreReply
<1>4. Mine(p, n) = i
  BY <1>1, <1>3 DEF Mine, EndedAt
<1>5. Tidy(p, out, n)
  BY <1>1, <1>2, <1>3 DEF Tidy, EndedAt
<1>6. Phases(p, out, n, i)'
  <2>1. CASE p.at \in EndedAt
    <3>1. \A k : Stored(i, k)' <=> Stored(i, k)
      BY DEF Accepted, Stored
    <3>2. torn' = torn /\ lossy' = lossy
      BY DEF Accepted
    <3> QED BY <1>2, <2>1, <3>1, <3>2 DEF OwnTransfer, Phases, EndedAt
  <2>2. CASE p.at \notin EndedAt
    BY <1>1, <1>2, <2>2, PhasesAccepted DEF OwnTransfer, AcceptResp
  <2> QED BY <2>1, <2>2
<1>7. /\ Known(i)' /\ i \notin dangling' /\ transfers'[i].handle # Null
      /\ p.at \notin EndedAt => Linked(c, i)'
  BY <1>2 DEF Accepted, Known, OwnTransfer, Linked, dirVars
<1>8. OwnTransfer(c, p, out, n, i)'
  BY <1>6, <1>7 DEF OwnTransfer
<1>9. p.at = "success" /\ p.mode = "send" => out = <<>> /\ p.id \in Ids
  BY DEF Conn
<1> QED BY <1>4, <1>5, <1>8, <1>9 DEF Conn

\* The .part file cannot be opened: the sender is not told.
LEMMA ConnNotOpened ==
    ASSUME NEW c \in Conns, NEW p, NEW out, NEW in, Conn(c, p, out, in),
           NEW i \in Ids, Mine(p, in) = i,
           transfers'[i].expected = transfers[i].expected, transfers'[i].state = "FAILED",
           transfers'[i].handle = transfers[i].handle,
           transfers'[i].sender = transfers[i].sender,
           transfers'[i].senderToken = transfers[i].senderToken,
           torn' = torn \cup ({i} \cap consent),
           UNCHANGED <<dirVars, disk, histVars>>
    PROVE  Conn(c, p, out, in)'
<1>1. OwnTransfer(c, p, out, in, i)
  BY DEF Conn
<1>2. UNCHANGED <<token, user, consent, dangling, disorder, lossy>>
  BY DEF dirVars, histVars
<1>3. \A k : Stored(i, k)' <=> Stored(i, k)
  BY DEF Stored
<1>4. ~Ready(i) \/ i \in torn'
  BY DEF Ready
<1>5. \A q : Waiting(i, q) => Waiting(i, q)'
  BY <1>2, <1>4 DEF Waiting
<1>6. Sending(p, out, in, i) => Sending(p, out, in, i)'
  BY <1>4 DEF Sending
<1>7. Phases(p, out, in, i)'
  BY <1>1, <1>2, <1>3, <1>5, <1>6 DEF OwnTransfer, Phases
<1>8. Known(i)' /\ (p.at \notin EndedAt => Linked(c, i)')
  BY <1>1, <1>2 DEF Known, OwnTransfer, Linked
<1>9. OwnTransfer(c, p, out, in, i)'
  BY <1>1, <1>2, <1>7, <1>8 DEF OwnTransfer
<1> QED BY <1>9 DEF Conn

\* What the three outcomes of an accept change.
LEMMA AcceptEffect ==
    ASSUME FInv, OwnFolders, NEW c \in Conns, NEW i \in Ids, NEW a \in Addresses,
           Accept(c, i, a), UNCHANGED torn
    PROVE  /\ Known(i) /\ Accepted(i)
           /\ \A j \in Ids : j # i => Kept(j) /\ transfers'[j] = transfers[j]
           /\ ub' = ub /\ UNCHANGED dirVars
           /\ sent' = NotifySender(i, TRUE) \o Reply(c, "ACCEPT_RESP", TRUE)
<1>1. /\ consent' = consent \cup {i} /\ dangling' = dangling \ {i}
      /\ disorder' = IF i \in consent THEN disorder \cup {i} ELSE disorder
      /\ UNCHANGED <<dirVars, lossy, ub>> /\ Known(i)
      /\ sent' = NotifySender(i, TRUE) \o Reply(c, "ACCEPT_RESP", TRUE)
  BY DEF Accept, MayAnswer
<1>2. \A j \in Ids : <<j, "final">> \in Paths /\ <<j, "final">> # Path(i, "part")
  BY InOwnFolder
<1>3. \A j \in Ids : disk'[<<j, "final">>] = disk[<<j, "final">>]
  BY <1>2 DEF Accept, OpenForWrite, FInv, TypeOK
<1>4. transfers[i] \in Transfer
  BY DEF FInv, TypeOK
<1>5. /\ transfers'[i].expected = transfers[i].expected /\ transfers'[i].state = "ACCEPTED"
      /\ transfers'[i].handle # Null
      /\ transfers'[i].sender = transfers[i].sender
      /\ transfers'[i].senderToken = transfers[i].senderToken
      /\ \A j \in Ids : j # i => transfers'[j] = transfers[j]
  <2> DEFINE x == [transfers[i] EXCEPT !.handle = a, !.state = "ACCEPTED"]
  <2>1. /\ x.expected = transfers[i].expected /\ x.state = "ACCEPTED" /\ x.handle = a
        /\ x.sender = transfers[i].sender /\ x.senderToken = transfers[i].senderToken
    BY <1>4 DEF Transfer
  <2>2. transfers' = [transfers EXCEPT ![i] = x]
    BY <1>4 DEF Accept, FInv, TypeOK, Transfer
  <2>3. a # Null
    BY NullAssumption
  <2> HIDE DEF x
  <2> QED BY <2>1, <2>2, <2>3 DEF FInv, TypeOK
<1>6. Accepted(i)
  BY <1>1, <1>3, <1>5 DEF Accepted
<1>7. \A j \in Ids : j # i => Kept(j)
  BY <1>1, <1>3, <1>5 DEF Kept
<1> QED BY <1>1, <1>5, <1>6, <1>7

LEMMA NotOpenedEffect ==
    ASSUME FInv, NEW c \in Conns, NEW i \in Ids, AcceptCannotOpen(c, i),
           torn' = torn \cup ({i} \cap consent)
    PROVE  /\ Known(i) /\ UNCHANGED <<dirVars, disk, histVars>>
           /\ transfers'[i].expected = transfers[i].expected
           /\ transfers'[i].state = "FAILED" /\ transfers'[i].handle = transfers[i].handle
           /\ transfers'[i].sender = transfers[i].sender
           /\ transfers'[i].senderToken = transfers[i].senderToken
           /\ \A j \in Ids : j # i => Kept(j) /\ transfers'[j] = transfers[j]
           /\ ub' = ub
           /\ sent' = Reply(c, "ACCEPT_RESP", FALSE)
<1>1. /\ UNCHANGED <<dirVars, disk, histVars>> /\ Known(i)
      /\ sent' = Reply(c, "ACCEPT_RESP", FALSE)
  BY DEF AcceptCannotOpen, MayAnswer
<1>2. transfers[i] \in Transfer
  BY DEF FInv, TypeOK
<1>3. /\ transfers'[i].expected = transfers[i].expected /\ transfers'[i].state = "FAILED"
      /\ transfers'[i].handle = transfers[i].handle
      /\ transfers'[i].sender = transfers[i].sender
      /\ transfers'[i].senderToken = transfers[i].senderToken
      /\ \A j \in Ids : j # i => transfers'[j] = transfers[j]
  <2> DEFINE x == [transfers[i] EXCEPT !.state = "FAILED"]
  <2>1. /\ x.expected = transfers[i].expected /\ x.state = "FAILED"
        /\ x.handle = transfers[i].handle
        /\ x.sender = transfers[i].sender /\ x.senderToken = transfers[i].senderToken
    BY <1>2 DEF Transfer
  <2>2. transfers' = [transfers EXCEPT ![i] = x]
    BY DEF AcceptCannotOpen
  <2> HIDE DEF x
  <2> QED BY <2>1, <2>2 DEF FInv, TypeOK
<1>4. \A j \in Ids : j # i => Kept(j)
  BY <1>1, <1>3 DEF Kept, histVars
<1>5. ub' = ub
  BY <1>1 DEF histVars
<1> QED BY <1>1, <1>3, <1>4, <1>5

LEMMA CoreAcceptConn ==
    ASSUME FInv, FInv', OwnFolders, GInv, CInv, PInv, NEW c \in Conns, CoreAccept(c) PROVE CInv'
<1> DEFINE p == proc[c]
           in == toClient[c]
           out == toCore[c]
<1>1. PICK i : i = Head(out).id
  OBVIOUS
<1>2. /\ out # <<>> /\ Head(out).type = "ACCEPT_REQ" /\ Replies(c, 0)
      /\ 0 \in 0 .. MaxTransfers + 1 /\ sent' \in Seq(Frame)
  BY TransferBounds DEF CoreAccept, Receives, FInv, TypeOK
<1>3. /\ in \in Seq(Answer) /\ out \in Seq(Request)
      /\ Tidy(p, out, in) /\ Conn(c, p, out, in)
  BY ConnFacts
<1>4. p.at \in {"accept"} \cup EndedAt /\ p.mode = "recv"
  BY <1>2, <1>3, TailRequests DEF Tidy, InPlace
<1>5. i \in Ids
  <2>1. Head(out) \in Request
    BY <1>2, <1>3, TailRequests
  <2> QED BY <1>1, <1>2, <2>1 DEF Request
<1>6. Conn(c, proc[c], toCore[c], toClient[c])' /\ MineOf(c)' = MineOf(c)
  <2>1. PICK q, o, r, n : q = p /\ o = out /\ r = in /\ n = toClient'[c]
    OBVIOUS
  <2>2. Conn(c, q, Tail(o), n)' /\ Mine(q, n) = Mine(q, r)
    <3>1. /\ o \in Seq(Request) /\ o # <<>> /\ Conn(c, q, o, r)
          /\ q.mode = "recv" /\ q.at \in {"accept"} \cup EndedAt
      BY <1>2, <1>3, <1>4, <2>1
    <3>2. Conn(c, q, Tail(o), n)'
      BY <3>1, RecvConn
    <3>3. Mine(q, n) = 0 /\ Mine(q, r) = 0
      BY <3>1 DEF Mine
    <3> QED BY <3>2, <3>3
  <2>3. q = proc'[c] /\ Tail(o) = toCore'[c]
    BY <1>2, <2>1, Answering
  <2> QED BY <2>1, <2>2, <2>3 DEF MineOf
<1>7. ASSUME NEW d \in Conns, d # c, Arriving(d, 0) = <<>>,
             MineOf(d) \in Ids => Kept(MineOf(d)), UNCHANGED dirVars
      PROVE  Conn(d, proc[d], toCore[d], toClient[d])' /\ MineOf(d)' = MineOf(d)
  <2>1. Conn(d, proc[d], toCore[d], toClient[d])'
    BY <1>2, <1>7, ConnStays
  <2>2. MineOf(d)' = MineOf(d)
    BY <1>2, <1>7, Answering DEF MineOf
  <2> QED BY <2>1, <2>2
<1>8. proc' = proc
  BY <1>2, Answering
<1>9. CASE \E a \in Addresses : Accept(c, i, a) /\ UNCHANGED torn
  <2>1. /\ Known(i) /\ Accepted(i)
        /\ \A j \in Ids : j # i => Kept(j) /\ transfers'[j] = transfers[j]
        /\ ub' = ub /\ UNCHANGED dirVars
        /\ sent' = NotifySender(i, TRUE) \o Reply(c, "ACCEPT_RESP", TRUE)
    BY <1>5, <1>9, AcceptEffect
  <2>2. ASSUME NEW d \in Conns, d # c
        PROVE  Conn(d, proc[d], toCore[d], toClient[d])' /\ MineOf(d)' = MineOf(d)
    <3> DEFINE t == transfers[i].senderToken
    <3>1. IF t # NoToken /\ holder[t] = d /\ ~Ended(d)
          THEN Arriving(d, 0) = <<AcceptResp>> ELSE Arriving(d, 0) = <<>>
      BY <1>5, <2>1, <2>2, AcceptArrives DEF AcceptResp
    <3>2. CASE MineOf(d) = i
      <4>1. PICK q, o, r, n : q = proc[d] /\ o = toCore[d] /\ r = toClient[d] /\ n = toClient'[d]
        OBVIOUS
      <4>2. /\ Conn(d, q, o, r) /\ r \in Seq(Answer) /\ Mine(q, r) = i
            /\ (q.at \in EndedAt <=> Ended(d))
        BY <3>2, <4>1, ConnFacts DEF MineOf, Ended, EndedAt
      <4>3. q.at \notin EndedAt => t # NoToken /\ holder[t] = d
        BY <1>5, <4>2 DEF Conn, OwnTransfer, Linked, GInv, SessionsLinked
      <4>4. q = proc'[d] /\ o = toCore'[d]
        BY <1>2, <2>2, <4>1, Answering
      <4>5. /\ q.at \in EndedAt => n = r
            /\ q.at \notin EndedAt => n = r \o <<AcceptResp>>
        <5>1. /\ n = r \o Arriving(d, 0)
              /\ Arriving(d, 0) = <<>> => n = r
          BY <1>2, <2>2, <4>1, Answering
        <5>2. /\ q.at \in EndedAt => Arriving(d, 0) = <<>>
              /\ q.at \notin EndedAt => Arriving(d, 0) = <<AcceptResp>>
          BY <3>1, <4>2, <4>3
        <5> QED BY <5>1, <5>2
      <4>6. Conn(d, q, o, n)'
        BY <1>5, <2>1, <4>2, <4>5, ConnAccepted
      <4>7. Mine(q, n) = i
        BY <1>5, <2>1, <4>2, <4>5, ConnAccepted
      <4> QED BY <3>2, <4>1, <4>4, <4>6, <4>7 DEF MineOf
    <3>3. CASE MineOf(d) # i
      <4>1. Arriving(d, 0) = <<>>
        BY <1>5, <2>1, <3>1, <3>3 DEF CInv, NotifiedOfOwn
      <4> QED BY <1>7, <2>1, <2>2, <3>3, <4>1
    <3> QED BY <3>2, <3>3
  <2>3. \A j \in Ids : /\ transfers'[j].senderToken = transfers[j].senderToken
                       /\ Known(j)' => Known(j)
    BY <2>1 DEF Accepted, Known
  <2>4. \A d \in Conns :
           Conn(d, proc[d], toCore[d], toClient[d])' /\ MineOf(d)' = MineOf(d)
    BY <1>6, <2>2
  <2>5. ~ub'
    BY <2>1 DEF CInv
  <2> QED BY <1>8, <2>1, <2>3, <2>4, <2>5, HandlerConn
<1>10. CASE AcceptCannotOpen(c, i) /\ torn' = torn \cup ({i} \cap consent)
  <2>1. /\ Known(i) /\ UNCHANGED <<dirVars, disk, histVars>>
        /\ transfers'[i].expected = transfers[i].expected
        /\ transfers'[i].state = "FAILED" /\ transfers'[i].handle = transfers[i].handle
        /\ transfers'[i].sender = transfers[i].sender
        /\ transfers'[i].senderToken = transfers[i].senderToken
        /\ \A j \in Ids : j # i => Kept(j) /\ transfers'[j] = transfers[j]
        /\ ub' = ub
        /\ sent' = Reply(c, "ACCEPT_RESP", FALSE)
    BY <1>5, <1>10, NotOpenedEffect
  <2>2. ASSUME NEW d \in Conns, d # c
        PROVE  Conn(d, proc[d], toCore[d], toClient[d])' /\ MineOf(d)' = MineOf(d)
    <3>1. Arriving(d, 0) = <<>>
      BY <2>1, <2>2, ReplyElsewhere
    <3>2. CASE MineOf(d) = i
      <4>1. PICK q, o, r : q = proc[d] /\ o = toCore[d] /\ r = toClient[d]
        OBVIOUS
      <4>2. Conn(d, q, o, r) /\ Mine(q, r) = i
        BY <3>2, <4>1 DEF MineOf, CInv
      <4>3. q = proc'[d] /\ o = toCore'[d] /\ r = toClient'[d]
        BY <1>2, <2>2, <3>1, <4>1, Answering
      <4>4. Conn(d, q, o, r)'
        BY <1>5, <1>10, <2>1, <4>2, ConnNotOpened
      <4> QED BY <4>1, <4>3, <4>4 DEF MineOf
    <3>3. CASE MineOf(d) # i
      BY <1>7, <2>1, <2>2, <3>1, <3>3
    <3> QED BY <3>2, <3>3
  <2>3. \A j \in Ids : /\ transfers'[j].senderToken = transfers[j].senderToken
                       /\ Known(j)' => Known(j)
    BY <2>1 DEF Known
  <2>4. \A d \in Conns :
           Conn(d, proc[d], toCore[d], toClient[d])' /\ MineOf(d)' = MineOf(d)
    BY <1>6, <2>2
  <2>5. ~ub'
    BY <2>1 DEF CInv
  <2> QED BY <1>8, <2>1, <2>3, <2>4, <2>5, HandlerConn
<1>11. CASE AcceptRefused(c, i, TRUE) /\ UNCHANGED torn
  <2>1. /\ UNCHANGED <<dirVars, storeVars, histVars, torn>>
        /\ sent' = Reply(c, "ACCEPT_RESP", FALSE)
    BY <1>11 DEF AcceptRefused
  <2>2. (\A j \in Ids : Kept(j)) /\ UNCHANGED <<transfers, ub>>
    BY <2>1, StoreKept
  <2>3. ASSUME NEW d \in Conns, d # c
        PROVE  Conn(d, proc[d], toCore[d], toClient[d])' /\ MineOf(d)' = MineOf(d)
    BY <1>7, <2>1, <2>2, <2>3, ReplyElsewhere
  <2>4. \A d \in Conns :
           Conn(d, proc[d], toCore[d], toClient[d])' /\ MineOf(d)' = MineOf(d)
    BY <1>6, <2>3
  <2>5. ~ub' /\ \A j \in Ids : /\ transfers'[j].senderToken = transfers[j].senderToken
                               /\ Known(j)' => Known(j)
    BY <2>2 DEF CInv, Known
  <2> QED BY <1>8, <2>1, <2>4, <2>5, HandlerConn
<1> QED BY <1>1, <1>9, <1>10, <1>11 DEF CoreAccept

-----------------------------------------------------------------------------
\* FILE_CHUNK

\* As long as chunks come as expected, the next one is the first on its way.
LEMMA FeedsBounds ==
    ASSUME NEW p, NEW out \in Seq(Request), out # <<>>, NEW b \in {0, 1},
           b = IF p.at = "result" THEN 1 ELSE 0, p.at = "result" => Tail(out) # <<>>
    PROVE  Len(out) - b \in Nat /\ Len(out) - b >= 1
<1>1. Len(out) \in Nat /\ Len(Tail(out)) = Len(out) - 1 /\ Len(Tail(out)) \in Nat
      /\ Tail(out) \in Seq(Request) /\ 1 \in 1 .. Len(out)
  BY TailRequests
<1>2. p.at = "result" => Len(Tail(out)) # 0
  BY <1>1, EmptySeq
<1>3. ASSUME NEW a \in Nat, NEW e \in Nat, e = a - 1, 1 \in 1 .. a, b = 1 => e # 0
      PROVE  a - b \in Nat /\ a - b >= 1
  BY <1>3
<1> QED BY <1>1, <1>2, <1>3

LEMMA FeedsHead ==
    ASSUME NEW p, NEW out \in Seq(Request), out # <<>>, NEW i \in Ids,
           transfers[i].expected \in Nat, Feeds(p, out, i),
           p.at = "result" => Tail(out) # <<>>
    PROVE  Head(out).index = transfers[i].expected
<1>1. PICK b \in {0, 1} : b = IF p.at = "result" THEN 1 ELSE 0
  OBVIOUS
<1>2. PICK n, e : n = Len(out) - b /\ e = transfers[i].expected
  OBVIOUS
<1>3. n \in Nat /\ n >= 1 /\ e \in Nat
  BY <1>1, <1>2, FeedsBounds
<1>4. \A k \in 1 .. n : out[k].index = e + k - 1
  BY <1>1, <1>2 DEF Feeds
<1>5. out[1].index = e
  <2>1. 1 \in 1 .. n /\ e + 1 - 1 = e
    BY <1>3
  <2> QED BY <1>4, <2>1
<1> QED BY <1>2, <1>5, TailRequests

LEMMA FeedsTail ==
    ASSUME NEW p, NEW out \in Seq(Request), out # <<>>, NEW i \in Ids,
           transfers[i].expected \in Nat, Feeds(p, out, i), p.next \in Nat,
           p.at = "result" => Tail(out) # <<>>,
           transfers'[i].expected = transfers[i].expected + 1
    PROVE  Feeds(p, Tail(out), i)'
<1>1. PICK b \in {0, 1} : b = IF p.at = "result" THEN 1 ELSE 0
  OBVIOUS
<1>2. PICK n, e, r : n = Len(out) - b /\ e = transfers[i].expected /\ r = Tail(out)
  OBVIOUS
<1>3. n \in Nat /\ n >= 1 /\ e \in Nat
  BY <1>1, <1>2, FeedsBounds
<1>4. /\ e + n = p.next
      /\ \A k \in 1 .. n : out[k].type = "CHUNK" /\ out[k].index = e + k - 1
  BY <1>1, <1>2 DEF Feeds
<1>5. /\ Len(r) - b = n - 1
      /\ \A k \in 1 .. n - 1 : r[k] = out[k + 1]
  <2>1. /\ Len(out) \in Nat /\ Len(r) = Len(out) - 1
        /\ \A k \in 1 .. Len(r) : r[k] = out[k + 1]
    BY <1>2, TailRequests
  <2>2. PICK a : a = Len(out)
    OBVIOUS
  <2>3. a \in Nat /\ n = a - b /\ Len(r) = a - 1
    BY <1>2, <2>1, <2>2
  <2>4. (a - 1) - b = n - 1 /\ \A k \in 1 .. n - 1 : k \in 1 .. a - 1
    BY <1>3, <2>3
  <2> QED BY <2>1, <2>3, <2>4
<1>6. (e + 1) + (n - 1) = p.next
  BY <1>3, <1>4
<1>7. ASSUME NEW k \in 1 .. n - 1
      PROVE  r[k].type = "CHUNK" /\ r[k].index = (e + 1) + k - 1
  <2>1. k + 1 \in 1 .. n /\ e + (k + 1) - 1 = (e + 1) + k - 1
    BY <1>3
  <2> QED BY <1>4, <1>5, <2>1
<1>8. transfers'[i].expected = e + 1
  BY <1>2
<1>9. Feeds(p, r, i)'
  <2>1. Feeds(p, r, i)' <=>
           /\ transfers'[i].expected + (Len(r) - b) = p.next
           /\ \A k \in 1 .. (Len(r) - b) :
                 r[k].type = "CHUNK" /\ r[k].index = transfers'[i].expected + k - 1
    BY <1>1 DEF Feeds
  <2> QED BY <1>5, <1>6, <1>7, <1>8, <2>1
<1> QED BY <1>2, <1>9

\* A chunk of a process that is sending is handled.
LEMMA SendingTail ==
    ASSUME NEW c \in Conns, NEW p, NEW out \in Seq(Request), out # <<>>, NEW in,
           NEW i \in Ids, Mine(p, in) = i, p.at \in {"send", "result"},
           Conn(c, p, out, in), UNCHANGED dirVars,
           Known(i)', transfers'[i].sender = transfers[i].sender,
           transfers'[i].senderToken = transfers[i].senderToken, dangling' = dangling,
           transfers'[i].handle = transfers[i].handle,
           in = <<>> /\ i \notin torn' /\ (p.at = "result" => Tail(out) # <<>>) =>
              Ready(i)' /\ Feeds(p, Tail(out), i)'
    PROVE  Conn(c, p, Tail(out), in)'
<1>1. OwnTransfer(c, p, out, in, i) /\ Sending(p, out, in, i)
  BY DEF Conn, OwnTransfer, Phases
<1>2. Tidy(p, Tail(out), in)
  <2>1. \A n \in 1 .. Len(Tail(out)) :
           InPlace(p, Tail(out)[n]) /\ (Tail(out)[n].type = "DONE" => n = Len(Tail(out)))
    BY TailInPlace DEF Conn, Tidy
  <2> QED BY <2>1 DEF Tidy
<1>3. PICK r : r = Tail(out)
  OBVIOUS
<1>4. (p.at = "result" => r # <<>>) => Sending(p, r, in, i)'
  BY <1>1, <1>3 DEF Sending
<1>5. Phases(p, r, in, i)'
  BY <1>1, <1>4 DEF Phases, Sending
<1>6. Linked(c, i)' /\ (DoneAhead(p, r) => i \notin dangling') /\ transfers'[i].handle # Null
  <2>1. Linked(c, i)
    BY <1>1 DEF OwnTransfer, EndedAt
  <2>2. DoneAhead(p, r) => i \notin dangling
    BY <1>1, <1>3, DoneStillAhead DEF OwnTransfer
  <2>3. transfers[i].handle # Null
    BY <1>1 DEF OwnTransfer, Using
  <2> QED BY <2>1, <2>2, <2>3 DEF Linked, dirVars
<1>7. OwnTransfer(c, p, r, in, i)'
  BY <1>5, <1>6 DEF OwnTransfer
<1>8. Conn(c, p, r, in)'
  BY <1>2, <1>3, <1>7 DEF Conn
<1> QED BY <1>3, <1>8

\* What a chunk changes.
LEMMA ChunkEffect ==
    ASSUME FInv, OwnFolders, ~ub, NEW i \in Ids, TakesChunks(i), NEW x \in Data,
           WriteThrough(transfers[i].handle, x) \/ UNCHANGED <<disk, streams>>,
           \A j \in Ids : j # i => transfers'[j] = transfers[j],
           UNCHANGED <<consent, dangling, lossy>>,
           disorder' = disorder \/ disorder' = disorder \cup {i},
           torn' = torn \/ torn' = torn \cup {i}
    PROVE  \A j \in Ids : j # i => Kept(j)
<1>1. \A q \in Paths : q \notin Own(i) => disk'[q] = disk[q]
  BY TakerOwns, WriteTouches
<1>2. \A j \in Ids : j # i => <<j, "final">> \in Paths /\ <<j, "final">> \notin Own(i)
  BY InOwnFolder
<1> QED BY <1>1, <1>2 DEF Kept

LEMMA MarkedFields ==
    ASSUME NEW x \in Transfer, NEW k
    PROVE  /\ Marked(x, k).sender = x.sender /\ Marked(x, k).handle = x.handle
           /\ k = x.expected => Marked(x, k).expected = x.expected + 1
           /\ x.state \in {"ACCEPTED", "RECEIVING"} =>
                 Marked(x, k).state \in {"ACCEPTED", "RECEIVING"}
BY DEF Marked, Transfer

LEMMA CoreChunkConn ==
    ASSUME FInv, FInv', OwnFolders, GInv, CInv, PInv, NEW c \in Conns, CoreChunk(c) PROVE CInv'
<1>1. PICK p, in, out, i, k :
         /\ p = proc[c] /\ in = toClient[c] /\ out = toCore[c]
         /\ i = Head(toCore[c]).id /\ k = Head(toCore[c]).index
  OBVIOUS
<1>2. /\ out # <<>> /\ Head(out).type = "CHUNK" /\ Replies(c, 0)
      /\ 0 \in 0 .. MaxTransfers + 1 /\ sent' \in Seq(Frame)
  BY <1>1, TransferBounds DEF CoreChunk, Receives, FInv, TypeOK
<1>3. /\ p \in Process /\ in \in Seq(Answer) /\ out \in Seq(Request)
      /\ Tidy(p, out, in) /\ Conn(c, p, out, in) /\ p.next \in Nat
  BY <1>1, ConnFacts
<1>4. p.at \in {"send", "result"} \cup EndedAt /\ p.mode = "send" /\ Head(out).id = p.id
  BY <1>2, <1>3, TailRequests DEF Tidy, InPlace
<1>5. i \in Ids /\ k \in 0 .. MaxIndex /\ Mine(p, in) = i /\ MineOf(c) = i
      /\ Head(out).index = k
  <2>1. Head(out) \in Request
    BY <1>2, <1>3, TailRequests
  <2> QED BY <1>1, <1>2, <1>4, <2>1 DEF Request, Mine, MineOf, EndedAt
<1>6. transfers[i] \in Transfer /\ transfers[i].expected \in Nat /\ ~ub
  <2>1. transfers[i] \in Transfer
    BY <1>5 DEF FInv, TypeOK
  <2>2. transfers[i].expected \in 0 .. MaxIndex + 1
    BY <2>1 DEF Transfer
  <2> QED BY <2>1, <2>2, TransferBounds DEF CInv
<1>7. Known(i)
  BY <1>3, <1>5 DEF Conn, OwnTransfer
\* Each of the outcomes leaves other transfers alone.
<1>8. /\ sent' = <<>> /\ UNCHANGED <<dirVars, dangling, lossy, ub>>
      /\ \A j \in Ids : j # i => Kept(j) /\ transfers'[j] = transfers[j]
      /\ Known(i)' /\ transfers'[i].sender = transfers[i].sender
      /\ transfers'[i].senderToken = transfers[i].senderToken
      /\ transfers'[i].handle = transfers[i].handle
      /\ \/ i \in torn'
         \/ ~(MaySend(c, i) /\ TakesChunks(i)) /\ torn' = torn
         \/ /\ transfers' = [transfers EXCEPT ![i] = Marked(@, k)] /\ torn' = torn
            /\ disorder' = IF k # transfers[i].expected THEN disorder \cup {i} ELSE disorder
            /\ consent' = consent
  <2>1. CASE ChunkWritten(c, i, k) /\ UNCHANGED torn
    <3>1. /\ TakesChunks(i) /\ WriteThrough(transfers[i].handle, Chunk(i, k))
          /\ transfers' = [transfers EXCEPT ![i] = Marked(@, k)]
          /\ disorder' = IF k # transfers[i].expected THEN disorder \cup {i} ELSE disorder
          /\ sent' = <<>> /\ UNCHANGED <<dirVars, consent, dangling, lossy, ub>>
      BY <2>1 DEF ChunkWritten
    <3>2. Chunk(i, k) \in Data
      BY <1>5, DataFacts
    <3>3. /\ \A j \in Ids : j # i => transfers'[j] = transfers[j]
          /\ transfers'[i] = Marked(transfers[i], k)
      BY <1>5, <3>1 DEF FInv, TypeOK
    <3>4. \A j \in Ids : j # i => Kept(j)
      BY <1>5, <1>6, <2>1, <3>1, <3>2, <3>3, ChunkEffect
    <3>5. /\ Known(i)' /\ transfers'[i].sender = transfers[i].sender
          /\ transfers'[i].senderToken = transfers[i].senderToken
          /\ transfers'[i].handle = transfers[i].handle
      BY <1>6, <1>7, <3>3, MarkedKeeps, MarkedFields DEF Known
    <3> QED BY <2>1, <3>1, <3>3, <3>4, <3>5
  <2>2. CASE ChunkWriteFails(c, i) /\ torn' = torn \cup {i}
    <3>1. /\ TakesChunks(i) /\ disorder' = disorder \cup {i}
          /\ WriteThrough(transfers[i].handle, Torn) \/ UNCHANGED <<disk, streams>>
          /\ transfers' = [transfers EXCEPT ![i].state = "FAILED"]
          /\ sent' = <<>> /\ UNCHANGED <<dirVars, consent, dangling, lossy, ub>>
      BY <2>2 DEF ChunkWriteFails, WriteShort, WriteThrough
    <3>2. Torn \in Data
      BY DataFacts
    <3>3. /\ \A j \in Ids : j # i => transfers'[j] = transfers[j]
          /\ transfers'[i].state = "FAILED" /\ transfers'[i].sender = transfers[i].sender
          /\ transfers'[i].senderToken = transfers[i].senderToken
          /\ transfers'[i].handle = transfers[i].handle
      <4> DEFINE x == [transfers[i] EXCEPT !.state = "FAILED"]
      <4>1. /\ x.state = "FAILED" /\ x.sender = transfers[i].sender
            /\ x.senderToken = transfers[i].senderToken /\ x.handle = transfers[i].handle
        BY <1>6 DEF Transfer
      <4>2. transfers' = [transfers EXCEPT ![i] = x]
        BY <3>1
      <4> HIDE DEF x
      <4> QED BY <1>5, <4>1, <4>2 DEF FInv, TypeOK
    <3>4. \A j \in Ids : j # i => Kept(j)
      BY <1>5, <1>6, <2>2, <3>1, <3>2, <3>3, ChunkEffect
    <3> QED BY <2>2, <3>1, <3>3, <3>4 DEF Known
  <2>3. CASE ~(MaySend(c, i) /\ TakesChunks(i)) /\ Ignored(c, i, TRUE) /\ UNCHANGED torn
    <3>1. sent' = <<>> /\ UNCHANGED <<dirVars, storeVars, histVars, torn>>
      BY <2>3 DEF Ignored
    <3>2. (\A j \in Ids : Kept(j)) /\ UNCHANGED <<transfers, ub, dangling, lossy>>
      BY <3>1, StoreKept DEF histVars
    <3> QED BY <1>7, <2>3, <3>1, <3>2 DEF Known
  <2> QED BY <1>1, <2>1, <2>2, <2>3 DEF CoreChunk
<1>9. ASSUME NEW d \in Conns, d # c
      PROVE  Conn(d, proc[d], toCore[d], toClient[d])' /\ MineOf(d)' = MineOf(d)
  <2>1. MineOf(d) # i
    BY <1>5, <1>9 DEF CInv, OneSender
  <2>2. Arriving(d, 0) = <<>>
    BY <1>8, NothingArrives
  <2>3. Conn(d, proc[d], toCore[d], toClient[d])'
    BY <1>2, <1>8, <1>9, <2>1, <2>2, ConnStays
  <2>4. MineOf(d)' = MineOf(d)
    BY <1>2, <1>9, <2>2, Answering DEF MineOf
  <2> QED BY <2>3, <2>4
<1>10. p = proc'[c] /\ Tail(out) = toCore'[c] /\ in = toClient'[c] /\ proc' = proc
  <2>1. Arriving(c, 0) = <<>>
    BY <1>8, NothingArrives
  <2> QED BY <1>1, <1>2, <2>1, Answering
<1>11. Conn(c, p, Tail(out), in)'
  <2>1. CASE p.at \in EndedAt
    <3>1. Mine(p, in) \in Ids =>
             /\ Known(Mine(p, in)) => Known(Mine(p, in))'
             /\ transfers'[Mine(p, in)].handle = transfers[Mine(p, in)].handle
             /\ Mine(p, in) \in dangling' => Mine(p, in) \in dangling
      BY <1>5, <1>8
    <3> QED BY <1>2, <1>3, <2>1, <3>1, FailedConn
  <2>2. CASE p.at \in {"send", "result"}
    <3>1. ASSUME in = <<>>, i \notin torn', p.at = "result" => Tail(out) # <<>>
          PROVE  Ready(i)' /\ Feeds(p, Tail(out), i)'
      <4>1. i \notin torn
        BY <1>8, <3>1
      <4>2. OwnTransfer(c, p, out, in, i) /\ Sending(p, out, in, i)
        BY <1>2, <1>3, <1>5, <2>2 DEF Conn, OwnTransfer, Phases
      <4>3. Ready(i) /\ Feeds(p, out, i)
        BY <3>1, <4>1, <4>2 DEF Sending
      <4>4. MaySend(c, i) /\ TakesChunks(i)
        BY <1>7, <2>2, <4>2, <4>3 DEF OwnTransfer, Linked, MaySend, IsAuthenticated, EndedAt, Ready
      <4>5. k = transfers[i].expected
        BY <1>2, <1>3, <1>5, <1>6, <3>1, <4>3, FeedsHead
      <4>6. /\ transfers' = [transfers EXCEPT ![i] = Marked(@, k)]
            /\ disorder' = disorder /\ consent' = consent
        BY <1>8, <3>1, <4>4, <4>5
      <4>7. transfers'[i] = Marked(transfers[i], k)
        BY <1>5, <4>6 DEF FInv, TypeOK
      <4>8. /\ transfers'[i].expected = transfers[i].expected + 1
            /\ transfers'[i].state \in {"ACCEPTED", "RECEIVING"}
        BY <1>6, <4>4, <4>5, <4>7, MarkedFields DEF TakesChunks
      <4>9. Ready(i)'
        BY <4>3, <4>6, <4>8 DEF Ready, TakesChunks
      <4>10. Feeds(p, Tail(out), i)'
        BY <1>2, <1>3, <1>5, <1>6, <3>1, <4>3, <4>8, FeedsTail
      <4> QED BY <4>9, <4>10
    <3> QED BY <1>2, <1>3, <1>5, <1>8, <2>2, <3>1, SendingTail
  <2> QED BY <1>4, <2>1, <2>2
<1>12. \A d \in Conns :
          Conn(d, proc[d], toCore[d], toClient[d])' /\ MineOf(d)' = MineOf(d)
  <2>1. Conn(c, proc[c], toCore[c], toClient[c])'
    BY <1>10, <1>11
  <2>2. MineOf(c)' = MineOf(c)
    BY <1>1, <1>10 DEF MineOf
  <2> QED BY <1>9, <2>1, <2>2
<1>13. ~ub' /\ \A j \in Ids : /\ transfers'[j].senderToken = transfers[j].senderToken
                              /\ Known(j)' => Known(j)
  BY <1>6, <1>7, <1>8 DEF Known
<1> QED BY <1>8, <1>10, <1>12, <1>13, HandlerConn

-----------------------------------------------------------------------------
\* FILE_DONE

\* What the first FILE_DONE of a transfer changes.
LEMMA DoneEffect ==
    ASSUME FInv, FInv', OwnFolders, ContentInv, ~ub, NEW c \in Conns, NEW i \in Ids,
           Done(c, i), i \notin dangling, UNCHANGED torn
    PROVE  /\ \A j \in Ids : j # i => Kept(j) /\ transfers'[j] = transfers[j]
           /\ Known(i)' /\ transfers'[i].sender = transfers[i].sender
           /\ transfers'[i].senderToken = transfers[i].senderToken
           /\ transfers'[i].handle = transfers[i].handle
           /\ ~ub' /\ UNCHANGED dirVars
           /\ \A e \in Nat : /\ transfers[i].expected = e /\ transfers'[i].state = "COMPLETED"
                             /\ i \notin disorder \cup lossy'
                             => Stored(i, e)'
<1>1. /\ UNCHANGED <<dirVars, consent, disorder>> /\ ~ub' /\ dangling' = dangling \cup {i}
      /\ lossy \subseteq lossy' /\ lossy' \subseteq lossy \cup {i}
      /\ Owns(i) /\ i < nextId /\ UNCHANGED <<folder, nextId>>
  BY KnownIsOld DEF Done, MaySend, Owns, FInv
<1>2. /\ \A q \in Paths : q \notin Own(i) => disk'[q] = disk[q]
      /\ transfers'[i].expected = transfers[i].expected
      /\ \A j \in Ids : j # i => transfers'[j] = transfers[j]
  BY <1>1, DoneTouches
<1>3. \A j \in Ids : j # i => <<j, "final">> \in Paths /\ <<j, "final">> \notin Own(i)
  BY InOwnFolder
<1>4. \A j \in Ids : j # i => Kept(j)
  BY <1>1, <1>2, <1>3 DEF Kept
<1>5. /\ Known(i)' /\ transfers'[i].sender = transfers[i].sender
      /\ transfers'[i].senderToken = transfers[i].senderToken
      /\ transfers'[i].handle = transfers[i].handle
  <2>1. transfers[i] \in Transfer
    BY DEF FInv, TypeOK
  <2>2. PICK s \in {"COMPLETED", "FAILED"} : transfers' = [transfers EXCEPT ![i].state = s]
    BY DEF Done, Finalize
  <2> DEFINE x == [transfers[i] EXCEPT !.state = s]
  <2>3. /\ x.state = s /\ x.sender = transfers[i].sender
        /\ x.senderToken = transfers[i].senderToken /\ x.handle = transfers[i].handle
    BY <2>1 DEF Transfer
  <2>4. transfers' = [transfers EXCEPT ![i] = x]
    BY <2>2
  <2> HIDE DEF x
  <2>5. transfers'[i] = x
    BY <2>4 DEF FInv, TypeOK
  <2> QED BY <2>2, <2>3, <2>5 DEF Known
<1>6. ASSUME NEW e \in Nat, transfers[i].expected = e, transfers'[i].state = "COMPLETED",
             i \notin disorder \cup lossy'
      PROVE  Stored(i, e)'
  <2>1. ContentInv'
    BY DoneContent
  <2>2. Alone(i)' /\ Path(i, "final")' = <<i, "final">>
    BY <1>1, InOwnFolder, PathsKept
  <2>3. Content(i)'
    BY <1>1, <1>6, <2>1, <2>2 DEF ContentInv
  <2>4. disk'[<<i, "final">>].data = Prefix(i, e)
    BY <1>2, <1>6, <2>2, <2>3 DEF Content, Prefix, Chunk
  <2>5. disk'[<<i, "final">>] # NoFile
    BY <1>6, <2>2 DEF FInv, CompletedInPlace
  <2> QED BY <2>4, <2>5 DEF Stored, Prefix, Chunk
<1> QED BY <1>1, <1>2, <1>4, <1>5, <1>6

\* The DONE that is handled is the last request of its process.
LEMMA DoneIsLast ==
    ASSUME NEW p, NEW out \in Seq(Request), out # <<>>, NEW in, Tidy(p, out, in),
           Head(out).type = "DONE"
    PROVE  /\ Len(out) = 1 /\ Tail(out) = <<>> /\ DoneAhead(p, out)
           /\ p.at \in {"result"} \cup EndedAt /\ p.mode = "send" /\ Head(out).id = p.id
           /\ ~DoneAhead(p, Tail(out))
<1>1. /\ Head(out) = out[1] /\ 1 \in 1 .. Len(out) /\ Len(out) \in Nat
      /\ Tail(out) \in Seq(Request) /\ Len(Tail(out)) = Len(out) - 1
  BY TailRequests
<1>2. InPlace(p, out[1]) /\ 1 = Len(out)
  BY <1>1 DEF Tidy
<1>3. Len(Tail(out)) = 0
  <2>1. ASSUME NEW a \in Nat, NEW b, 1 = a, b = a - 1 PROVE b = 0
    BY <2>1
  <2> QED BY <1>1, <1>2, <2>1
<1>4. Tail(out) = <<>>
  BY <1>1, <1>3, EmptySeq
<1>5. p.at \in {"result"} \cup EndedAt /\ p.mode = "send" /\ Head(out).id = p.id
  BY <1>1, <1>2 DEF InPlace
<1>6. DoneAhead(p, out)
  BY <1>1 DEF DoneAhead
<1>7. ~DoneAhead(p, Tail(out))
  <2>1. ~DoneAhead(p, <<>>)
    BY <1>5 DEF DoneAhead, EndedAt
  <2> QED BY <1>4, <2>1
<1> QED BY <1>2, <1>4, <1>5, <1>6, <1>7

\* The process has asked for the result; nothing is left to send.
LEMMA ResultConn ==
    ASSUME NEW c \in Conns, NEW p, NEW out \in Seq(Request), out # <<>>, NEW in, NEW n,
           p.at = "result", Conn(c, p, out, in), Head(out).type = "DONE",
           NEW i \in Ids, p.id = i, UNCHANGED dirVars,
           Known(i)', transfers'[i].sender = transfers[i].sender,
           transfers'[i].senderToken = transfers[i].senderToken,
           transfers'[i].handle = transfers[i].handle,
           n # <<>> /\ Head(n).type = "RESULT" /\ Head(n).ok /\ i \notin torn' \cup lossy'
              => Stored(i, p.next)'
    PROVE  Conn(c, p, <<>>, n)' /\ Mine(p, n) = i
<1>1. Tidy(p, out, in) /\ Mine(p, n) = i /\ Mine(p, in) = i
  <2>1. Tidy(p, out, in)
    BY DEF Conn
  <2>2. p.mode = "send"
    BY <2>1, DoneIsLast
  <2> QED BY <2>1, <2>2 DEF Mine
<1>2. Tidy(p, <<>>, n)
  BY DEF Tidy
<1>3. OwnTransfer(c, p, out, in, i)
  BY <1>1 DEF Conn
<1>4. Linked(c, i)' /\ ~DoneAhead(p, <<>>) /\ transfers'[i].handle # Null
  BY <1>3 DEF OwnTransfer, Linked, EndedAt, dirVars, DoneAhead, Using
<1>5. Phases(p, <<>>, n, i)'
  BY DEF Phases
<1>6. OwnTransfer(c, p, <<>>, n, i)'
  BY <1>4, <1>5 DEF OwnTransfer
<1> QED BY <1>1, <1>2, <1>6 DEF Conn

LEMMA CoreDoneConn ==
    ASSUME FInv, FInv', OwnFolders, ContentInv, GInv, CInv, PInv, NEW c \in Conns,
           CoreDone(c)
    PROVE  CInv'
<1>1. PICK p, in, out, i :
         /\ p = proc[c] /\ in = toClient[c] /\ out = toCore[c]
         /\ i = Head(toCore[c]).id
  OBVIOUS
<1>2. /\ out # <<>> /\ Head(out).type = "DONE" /\ Replies(c, i) /\ UNCHANGED torn
      /\ sent' \in Seq(Frame)
  BY <1>1 DEF CoreDone, Receives, FInv, TypeOK
<1>3. /\ p \in Process /\ in \in Seq(Answer) /\ out \in Seq(Request)
      /\ Tidy(p, out, in) /\ Conn(c, p, out, in) /\ p.next \in Nat
  BY <1>1, ConnFacts
<1>4. /\ Len(out) = 1 /\ Tail(out) = <<>> /\ DoneAhead(p, out)
      /\ p.at \in {"result"} \cup EndedAt /\ p.mode = "send" /\ p.id = i
      /\ ~DoneAhead(p, Tail(out))
  <2>1. /\ Len(out) = 1 /\ Tail(out) = <<>> /\ DoneAhead(p, out)
        /\ p.at \in {"result"} \cup EndedAt /\ p.mode = "send" /\ Head(out).id = p.id
        /\ ~DoneAhead(p, Tail(out))
    BY <1>2, <1>3, DoneIsLast
  <2> QED BY <1>1, <2>1
<1>5. i \in Ids /\ i \in 0 .. MaxTransfers + 1 /\ Mine(p, in) = i /\ MineOf(c) = i
  <2>1. Head(out) \in Request
    BY <1>2, <1>3, TailRequests
  <2>2. i \in Ids
    BY <1>1, <1>2, <2>1 DEF Request
  <2> QED BY <1>1, <1>4, <2>2, TransferBounds DEF Mine, MineOf, EndedAt, Ids
<1>6. ~ub /\ OwnTransfer(c, p, out, in, i) /\ Known(i) /\ i \notin dangling
  BY <1>3, <1>4, <1>5 DEF CInv, Conn, OwnTransfer
<1>7. /\ UNCHANGED dirVars /\ ~ub'
      /\ \A j \in Ids : j # i => Kept(j) /\ transfers'[j] = transfers[j]
      /\ Known(i)' /\ transfers'[i].sender = transfers[i].sender
      /\ transfers'[i].senderToken = transfers[i].senderToken
      /\ transfers'[i].handle = transfers[i].handle
      /\ \/ sent' = <<>>
         \/ /\ sent' = Reply(c, "RESULT", transfers'[i].state = "COMPLETED")
            /\ \A e \in Nat : /\ transfers[i].expected = e
                              /\ transfers'[i].state = "COMPLETED"
                              /\ i \notin disorder \cup lossy'
                              => Stored(i, e)'
            /\ lossy \subseteq lossy'
  <2>1. CASE Done(c, i)
    <3>1. sent' = Reply(c, "RESULT", transfers'[i].state = "COMPLETED") /\ lossy \subseteq lossy'
      BY <2>1 DEF Done
    <3>2. /\ \A j \in Ids : j # i => Kept(j) /\ transfers'[j] = transfers[j]
          /\ Known(i)' /\ transfers'[i].sender = transfers[i].sender
          /\ transfers'[i].senderToken = transfers[i].senderToken
          /\ transfers'[i].handle = transfers[i].handle
          /\ ~ub' /\ UNCHANGED dirVars
          /\ \A e \in Nat : /\ transfers[i].expected = e
                            /\ transfers'[i].state = "COMPLETED"
                            /\ i \notin disorder \cup lossy'
                            => Stored(i, e)'
      BY <1>2, <1>5, <1>6, <2>1, DoneEffect
    <3> QED BY <3>1, <3>2
  <2>2. CASE Ignored(c, i, TRUE)
    <3>1. sent' = <<>> /\ UNCHANGED <<dirVars, storeVars, histVars, torn>>
      BY <1>2, <2>2 DEF Ignored
    <3>2. (\A j \in Ids : Kept(j)) /\ UNCHANGED <<transfers, ub>>
      BY <3>1, StoreKept
    <3> QED BY <1>6, <3>1, <3>2 DEF Known
  <2> QED BY <1>1, <2>1, <2>2 DEF CoreDone
<1>8. ASSUME NEW d \in Conns, d # c
      PROVE  Conn(d, proc[d], toCore[d], toClient[d])' /\ MineOf(d)' = MineOf(d)
  <2>1. MineOf(d) # i
    BY <1>5, <1>8 DEF CInv, OneSender
  <2>2. Arriving(d, i) = <<>>
    BY <1>7, <1>8, NothingArrives, ReplyElsewhere
  <2>3. Conn(d, proc[d], toCore[d], toClient[d])'
    BY <1>2, <1>5, <1>7, <1>8, <2>1, <2>2, ConnStays
  <2>4. MineOf(d)' = MineOf(d)
    BY <1>2, <1>5, <1>8, <2>2, Answering DEF MineOf
  <2> QED BY <2>3, <2>4
<1>9. PICK n : n = toClient'[c]
  OBVIOUS
<1>10. /\ p = proc'[c] /\ Tail(out) = toCore'[c] /\ proc' = proc
       /\ n = in \o Arriving(c, i)
       /\ Arriving(c, i) = <<>> => n = in
       /\ Arriving(c, i) \in Seq(Answer)
  BY <1>1, <1>2, <1>5, <1>9, Answering
<1>11. Conn(c, p, Tail(out), n)' /\ Mine(p, n) = i
  <2>1. CASE p.at \in EndedAt
    <3>1. Arriving(c, i) = <<>>
      BY <1>1, <2>1, NothingArrives DEF Ended, EndedAt
    <3>2. n = in
      BY <1>10, <3>1
    <3>3. Mine(p, in) \in Ids =>
             /\ Known(Mine(p, in)) => Known(Mine(p, in))'
             /\ transfers'[Mine(p, in)].handle = transfers[Mine(p, in)].handle
             /\ Mine(p, in) \in dangling' =>
                   Mine(p, in) \in dangling \/ ~DoneAhead(p, Tail(out))
      BY <1>4, <1>5, <1>7
    <3>4. Conn(c, p, Tail(out), in)'
      BY <1>2, <1>3, <2>1, <3>3, FailedConn
    <3> QED BY <1>5, <3>2, <3>4
  <2>2. CASE p.at = "result"
    <3>1. Sending(p, out, in, i)
      BY <1>2, <1>6, <2>2 DEF OwnTransfer, Phases
    <3>2. ~Ended(c)
      BY <1>1, <2>2 DEF Ended
    <3>3. ASSUME n # <<>>, Head(n).type = "RESULT", Head(n).ok, i \notin torn' \cup lossy'
          PROVE  Stored(i, p.next)'
      <4>1. in = <<>>
        <5>1. ASSUME in # <<>> PROVE Head(n) = Head(in)
          <6>1. CASE sent' = <<>>
            BY <1>10, <6>1, NothingArrives
          <6>2. CASE \E ok \in BOOLEAN : sent' = Reply(c, "RESULT", ok)
            <7>1. PICK ok \in BOOLEAN : sent' = Reply(c, "RESULT", ok)
              BY <6>2
            <7>2. PICK a : a = [type |-> "RESULT", ok |-> ok, id |-> i]
              OBVIOUS
            <7>3. Arriving(c, i) = <<a>> /\ a \in Answer
              BY <1>5, <3>2, <7>1, <7>2, ReplyArrives DEF Answer
            <7> QED BY <1>3, <1>10, <5>1, <7>3, OneMoreReply
          <6> QED BY <1>7, <6>1, <6>2
        <5> QED BY <3>1, <3>3, <5>1 DEF Sending
      <4>2. i \notin torn /\ Ready(i) /\ Feeds(p, out, i)
        BY <1>2, <3>1, <3>3, <4>1 DEF Sending
      <4>3. transfers[i].expected = p.next
        <5>1. transfers[i].expected \in 0 .. MaxIndex + 1
          BY <1>5 DEF FInv, TypeOK, Transfer
        <5>2. transfers[i].expected + (Len(out) - 1) = p.next
          BY <2>2, <4>2 DEF Feeds
        <5>3. PICK e : e = transfers[i].expected
          OBVIOUS
        <5>4. e \in Nat /\ e + (1 - 1) = p.next
          BY <1>4, <5>1, <5>2, <5>3, TransferBounds
        <5> QED BY <5>3, <5>4
      <4>4. CASE sent' = <<>>
        <5>1. n = <<>>
          BY <1>10, <4>1, <4>4, NothingArrives
        <5> QED BY <3>3, <5>1
      <4>5. CASE /\ sent' = Reply(c, "RESULT", transfers'[i].state = "COMPLETED")
                 /\ \A e \in Nat : /\ transfers[i].expected = e
                                   /\ transfers'[i].state = "COMPLETED"
                                   /\ i \notin disorder \cup lossy'
                                   => Stored(i, e)'
        <5>1. PICK ok \in BOOLEAN : ok <=> transfers'[i].state = "COMPLETED"
          OBVIOUS
        <5>2. sent' = Reply(c, "RESULT", ok)
          BY <4>5, <5>1
        <5>3. PICK a : a = [type |-> "RESULT", ok |-> ok, id |-> i]
          OBVIOUS
        <5>4. Arriving(c, i) = <<a>> /\ a \in Answer
          BY <1>5, <3>2, <5>2, <5>3, ReplyArrives DEF Answer
        <5>5. Head(n) = a
          BY <1>3, <1>10, <4>1, <5>4, OneMoreReply
        <5>6. ok
          BY <3>3, <5>3, <5>5
        <5> QED BY <1>3, <3>3, <4>2, <4>3, <4>5, <5>1, <5>6 DEF Ready
      <4> QED BY <1>7, <4>4, <4>5
    <3>4. Conn(c, p, <<>>, n)'
      BY <1>2, <1>3, <1>4, <1>5, <1>7, <2>2, <3>3, ResultConn
    <3>5. Mine(p, n) = i
      BY <1>4, <2>2 DEF Mine
    <3> QED BY <1>4, <3>4, <3>5
  <2> QED BY <1>4, <2>1, <2>2
<1>12. \A d \in Conns :
          Conn(d, proc[d], toCore[d], toClient[d])' /\ MineOf(d)' = MineOf(d)
  <2>1. Conn(c, proc[c], toCore[c], toClient[c])'
    BY <1>9, <1>10, <1>11
  <2>2. MineOf(c)' = MineOf(c)
    BY <1>5, <1>9, <1>10, <1>11 DEF MineOf
  <2> QED BY <1>8, <2>1, <2>2
<1>13. \A j \in Ids : /\ transfers'[j].senderToken = transfers[j].senderToken
                      /\ Known(j)' => Known(j)
  BY <1>6, <1>7 DEF Known
<1> QED BY <1>7, <1>10, <1>12, <1>13, HandlerConn

-----------------------------------------------------------------------------
LEMMA StepConn ==
    ASSUME FInv, FInv', OwnFolders, ContentInv, GInv, CInv, PInv, [ClientNext]_allVars
    PROVE  CInv'
<1>1. CASE UNCHANGED allVars
  <2>1. UNCHANGED <<proc, toCore, toClient, token, user, holder, transfers, ub>>
    BY <1>1 DEF allVars, vars, clientVars, dirVars, storeVars, histVars
  <2>2. \A i \in Ids : Kept(i)
    BY <1>1, StoreKept DEF allVars, vars, clientVars
  <2>3. ASSUME NEW d \in Conns PROVE Conn(d, proc[d], toCore[d], toClient[d])'
    <3>1. PICK q, o, n : q = proc[d] /\ o = toCore[d] /\ n = toClient[d]
      OBVIOUS
    <3>2. Conn(d, q, o, n)
      BY <3>1 DEF CInv
    <3>3. Conn(d, q, o, n)'
      BY <2>1, <2>2, <3>2, KeptConn
    <3> QED BY <2>1, <3>1, <3>3
  <2>4. OneSender'
    BY <2>1 DEF CInv, OneSender, MineOf
  <2>5. NotifiedOfOwn'
    BY <2>1 DEF CInv, NotifiedOfOwn, MineOf, Ended, Known
  <2> QED BY <2>1, <2>3, <2>4, <2>5 DEF CInv
<1>2. ASSUME NEW c \in Conns,
             \/ \E u \in SendAs, r \in Users \cup {NoUser}, n \in FileSizes :
                   StartSend(c, u, r, n)
             \/ \E u \in RecvAs, i \in Ids : StartRecv(c, u, i)
      PROVE  CInv'
  BY <1>2, StartsConn
<1>3. ASSUME NEW c \in Conns, ClientStep(c) \/ Die(c) PROVE CInv'
  BY <1>3, LoggedOnConn, OfferTakenConn, ReceiverAcceptedConn, SendConn, ExitsConn
     DEF ClientStep
<1>4. ASSUME NEW c \in Conns, CoreStep(c) PROVE CInv'
  BY <1>4, CoreLoginConn, CoreOfferConn, CoreAcceptConn, CoreChunkConn, CoreDoneConn
     DEF CoreStep
<1>5. ASSUME NEW c \in Conns, Lose(c) \/ CoreWriteFails(c) \/ CoreCloses(c) PROVE CInv'
  BY <1>5, LoseConn, SessionEndsConn
<1> QED BY <1>1, <1>2, <1>3, <1>4, <1>5 DEF ClientNext

\* The inductive invariant of the processes and the Core together.
AllInv == FInv /\ OwnFolders /\ ContentInv /\ GInv /\ PInv /\ CInv

LEMMA AllInvariant == ClientSpec => []AllInv
<1>1. ClientInit => AllInv
  <2> SUFFICES ASSUME ClientInit PROVE AllInv
    OBVIOUS
  <2>1. Init
    BY DEF ClientInit
  <2>2. OwnFolders
    BY <2>1 DEF Init, OwnFolders
  <2> QED BY <2>1, <2>2, InitInvariant, InitContent, InitHistory, InitProtocol, InitConn
          DEF AllInv
<1>2. AllInv /\ [ClientNext]_allVars => AllInv'
  <2> SUFFICES ASSUME AllInv, [ClientNext]_allVars PROVE AllInv'
    OBVIOUS
  <2>1. FInv /\ OwnFolders /\ ContentInv /\ GInv /\ PInv /\ CInv
    BY DEF AllInv
  <2>2. [Next]_vars
    BY <2>1, ClientStepSimulates
  <2>3. FInv' /\ OwnFolders' /\ ContentInv' /\ GInv'
    BY <2>1, <2>2, StepInvariant, StepFolders, StepContent, StepHistory
  <2>4. PInv' /\ CInv'
    BY <2>1, <2>3, StepProtocol, StepConn
  <2> QED BY <2>3, <2>4 DEF AllInv
<1> QED BY <1>1, <1>2, PTL DEF ClientSpec

(***************************************************************************)
(* A sender that prints SUCCESS has the chunks it sent, all of them and in *)
(* order, in the file stored under its transfer, however processes end,    *)
(* receivers accept again and replies overtake requests, unless a write,   *)
(* an fopen or a flush failed (test_file_transfer.cpp:214-398,             *)
(* tcp_session.cpp:442-613).                                               *)
(***************************************************************************)
THEOREM SuccessIsStored == ClientSpec => []SuccessMeansStored
<1>1. AllInv => SuccessMeansStored
  <2> SUFFICES ASSUME AllInv, NEW c \in Conns, proc[c].at = "success",
                      proc[c].mode = "send", proc[c].id \notin torn \cup lossy
               PROVE  /\ disk[Path(proc[c].id, "final")] # NoFile
                      /\ disk[Path(proc[c].id, "final")].data =
                            Prefix(proc[c].id, proc[c].next)
    BY DEF SuccessMeansStored
  <2>1. proc[c].id \in Ids /\ Mine(proc[c], toClient[c]) = proc[c].id
    BY DEF AllInv, CInv, Conn, Mine
  <2>2. Phases(proc[c], toCore[c], toClient[c], proc[c].id)
    BY <2>1 DEF AllInv, CInv, Conn, OwnTransfer
  <2>3. Stored(proc[c].id, proc[c].next)
    BY <2>2 DEF Phases
  <2>4. Path(proc[c].id, "final") = <<proc[c].id, "final">>
    BY <2>1, InOwnFolder DEF AllInv
  <2> QED BY <2>3, <2>4 DEF Stored
<1> QED BY <1>1, AllInvariant, PTL

(***************************************************************************)
(* The Core never writes to or closes a FILE* that is null, closed or      *)
(* another transfer's for these clients, although it keeps file_handle     *)
(* after fclose and looks at no state before finalize_file                 *)
(* (tcp_session.cpp:541-613, file_store.cpp:101-115).                      *)
(***************************************************************************)
THEOREM UsedFilesAreOpen == ClientSpec => []FilesOpenWhenUsed
<1>1. AllInv => FilesOpenWhenUsed
  <2> SUFFICES ASSUME AllInv, NEW c \in Conns, toCore[c] # <<>>, NEW m, m = Head(toCore[c]),
                      m.type \in {"CHUNK", "DONE"}, m.type = "CHUNK" => TakesChunks(m.id)
               PROVE  LET a == transfers[m.id].handle
                      IN  a # Null /\ streams[a] # Closed /\ streams[a].path = Path(m.id, "part")
    BY DEF FilesOpenWhenUsed
  <2>1. FInv /\ OwnFolders /\ CInv /\ PInv /\ ~ub
    BY DEF AllInv, CInv
  <2>2. PICK p, out, in : p = proc[c] /\ out = toCore[c] /\ in = toClient[c]
    OBVIOUS
  <2>3. /\ out \in Seq(Request) /\ out # <<>> /\ Tidy(p, out, in) /\ Conn(c, p, out, in)
    BY <2>1, <2>2, ConnFacts
  <2>4. m \in Request /\ m = out[1] /\ 1 \in 1 .. Len(out)
    BY <2>2, <2>3, TailRequests
  <2>5. p.at \in {"send", "result"} \cup EndedAt /\ p.mode = "send" /\ m.id = p.id
    BY <2>3, <2>4 DEF Tidy, InPlace
  <2>6. m.id \in Ids /\ Mine(p, in) = m.id
    BY <2>4, <2>5 DEF Request, Mine, EndedAt
  <2>7. OwnTransfer(c, p, out, in, m.id)
    BY <2>3, <2>6 DEF Conn
  <2>8. Owns(m.id)
    <3>1. CASE m.type = "CHUNK"
      BY <2>1, <2>6, <3>1, TakerOwns
    <3>2. CASE m.type = "DONE"
      <4>1. DoneAhead(p, out) /\ Using(p, out)
        BY <2>4, <3>2 DEF DoneAhead, Using
      <4> QED BY <2>7, <4>1 DEF OwnTransfer, Owns
    <3> QED BY <3>1, <3>2
  <2>9. transfers[m.id].handle # Null
    BY <2>8 DEF Owns
  <2> QED BY <2>1, <2>6, <2>8, <2>9, OwnerAt, InOwnFolder
<1> QED BY <1>1, AllInvariant, PTL
=============================================================================
