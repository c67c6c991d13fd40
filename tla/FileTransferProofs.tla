------------------------- MODULE FileTransferProofs -------------------------
(***************************************************************************)
(* Proofs about FileTransfer, for any connections, users, FILE addresses,  *)
(* bounds and faults.                                                      *)
(***************************************************************************)
EXTENDS FileTransfer, SequenceTheorems, TLAPS

-----------------------------------------------------------------------------
\* Files and streams

LEMMA PathFacts ==
    ASSUME TypeOK, NEW i \in Ids, NEW j \in Ids
    PROVE  /\ Path(i, "part") \in Paths /\ Path(i, "final") \in Paths
           /\ Path(i, "part") # Path(j, "final")
           /\ Path(i, "part") = Path(j, "part") => Path(i, "final") = Path(j, "final")
           /\ Path(i, "final") = Path(j, "final") => Path(i, "part") = Path(j, "part")
           /\ Path(i, "part") # Unlinked /\ Path(i, "final") # Unlinked
BY DEF TypeOK, Path, Paths, Unlinked

\* The files of transfer i, and the one that is not there any more.
Own(i) == {Path(i, "part"), Path(i, "final"), Unlinked}

\* A transfer whose directory no other offer leads into has its files for itself.
LEMMA AlonePaths ==
    ASSUME TypeOK, NEW i \in Ids, NEW j \in Ids, Alone(i), j # i, j < nextId
    PROVE  /\ Path(i, "part") \notin Own(j) /\ Path(i, "final") \notin Own(j)
           /\ Path(j, "part") \notin Own(i) /\ Path(j, "final") \notin Own(i)
<1>1. folder[j] # folder[i]
  BY DEF Alone
<1>2. \A p \in {"part", "final"}, q \in {"part", "final"} : Path(i, p) # Path(j, q)
  BY <1>1 DEF Path
<1> QED BY <1>2, PathFacts DEF Own

\* Only an offer and a restart change where the files are.
LEMMA PathsKept ==
    ASSUME UNCHANGED <<folder, nextId>>, NEW i \in Ids
    PROVE  /\ Path(i, "part")' = Path(i, "part") /\ Path(i, "final")' = Path(i, "final")
           /\ Own(i)' = Own(i)
           /\ Alone(i)' <=> Alone(i)
BY DEF Path, Own, Unlinked, Alone

LEMMA DataFacts ==
    /\ \A i \in Ids, k \in Nat : Chunk(i, k) \in Data
    /\ Torn \in Data /\ Hole \in Data
BY TransferBounds DEF Chunk, Torn, Hole, Data, Ids

LEMMA PutType ==
    ASSUME NEW data \in Seq(Data), NEW pos \in Nat, NEW buf \in Seq(Data)
    PROVE  Put(data, pos, buf) \in Seq(Data)
<1> DEFINE end == pos + Len(buf)
           size == IF end > Len(data) THEN end ELSE Len(data)
           at(n) == IF pos < n /\ n <= end THEN buf[n - pos]
                    ELSE IF n <= Len(data) THEN data[n] ELSE Hole
<1>1. CASE buf = <<>>
  BY <1>1 DEF Put
<1>2. CASE buf # <<>>
  <2>1. Put(data, pos, buf) = [n \in 1 .. size |-> at(n)]
    BY <1>2 DEF Put
  <2>2. size \in Nat
    OBVIOUS
  <2>3. ASSUME NEW n \in 1 .. size PROVE at(n) \in Data
    BY DataFacts
  <2> QED BY <2>1, <2>2, <2>3
<1> QED BY <1>1, <1>2

LEMMA FlushedType ==
    ASSUME TypeOK, NEW s \in Stream, NEW more \in Seq(Data),
           s.path # Unlinked => disk[s.path] # NoFile
    PROVE  /\ Flushed(s, more) \in [Paths -> File \cup {NoFile}]
           /\ \A p \in Paths : Flushed(s, more)[p] = NoFile <=> disk[p] = NoFile
           /\ \A p \in Paths : p # s.path => Flushed(s, more)[p] = disk[p]
<1>1. CASE s.path = Unlinked
  BY <1>1 DEF Flushed, TypeOK
<1>2. CASE s.path # Unlinked
  <2>1. s.path \in Paths /\ disk[s.path] \in File /\ s.pos \in Nat /\ s.buf \in Seq(Data)
    BY <1>2 DEF Stream, TypeOK
  <2>2. disk[s.path].data \in Seq(Data)
    BY <2>1 DEF File
  <2>3. Put(disk[s.path].data, s.pos, s.buf \o more) \in Seq(Data)
    <3>1. s.buf \o more \in Seq(Data)
      BY <2>1, ConcatProperties
    <3> QED BY <2>1, <2>2, <3>1, PutType
  <2>4. [disk[s.path] EXCEPT !.data = Put(disk[s.path].data, s.pos, s.buf \o more)] \in File
    BY <2>1, <2>3 DEF File
  <2>5. Flushed(s, more) = [disk EXCEPT ![s.path] =
           [disk[s.path] EXCEPT !.data = Put(disk[s.path].data, s.pos, s.buf \o more)]]
    BY <1>2 DEF Flushed
  <2> QED BY <2>1, <2>4, <2>5, NoFileAssumption DEF TypeOK
<1> QED BY <1>1, <1>2

-----------------------------------------------------------------------------
(***************************************************************************)
(* The inductive invariant.                                                *)
(***************************************************************************)

\* An open stream's file exists, or the file was replaced under it.
StreamsHaveFiles ==
    \A a \in Addresses :
        streams[a] # Closed /\ streams[a].path # Unlinked => disk[streams[a].path] # NoFile

\* Only accepting opens a file; only an opened, not yet closed one takes chunks.
HandlesExplained ==
    \A i \in Ids :
        /\ transfers[i].handle # Null => i \in consent
        /\ transfers[i].state \in {"ACCEPTED", "RECEIVING", "COMPLETED"}
              => transfers[i].handle # Null
        /\ TakesChunks(i) => i \notin dangling

Owns(i) == transfers[i].handle # Null /\ i \notin dangling

\* Until a FILE* is closed twice, a transfer that has not closed its FILE* has
\* an open stream on a file of its own there, on its .part file when no other
\* transfer can rename that.
OwnerHolds(i) ==
    /\ streams[transfers[i].handle] # Closed
    /\ streams[transfers[i].handle].path \in Own(i)
    /\ Alone(i) => streams[transfers[i].handle].path = Path(i, "part")

HandlesOwned == ~ub => \A i \in Ids : Owns(i) => OwnerHolds(i)

\* Until then, no two transfers have the same FILE open.
HandlesApart ==
    ~ub => \A i, j \in Ids : i # j /\ Owns(i) /\ Owns(j) =>
        transfers[i].handle # transfers[j].handle

\* Ids that have not been given out name no transfer: creating one overwrites no
\* file_handle.
FreshIds == \A i \in Ids : i >= nextId => transfers[i] = NoTransfer

FInv == /\ TypeOK /\ FreshIds /\ StreamsHaveFiles /\ HandlesExplained
        /\ HandlesOwned /\ HandlesApart /\ CompletedInPlace

LEMMA KnownIsOld ==
    ASSUME TypeOK, FreshIds, NEW i \in Ids, Known(i) PROVE i < nextId /\ ~(i >= nextId)
BY TransferBounds DEF TypeOK, Ids, FreshIds, Known, NoTransfer

-----------------------------------------------------------------------------
\* Frames and sessions

LEMMA ReplyType ==
    ASSUME NEW c \in Conns, NEW ok \in BOOLEAN,
           NEW type \in {"OFFER_RESP", "ACCEPT_RESP", "RESULT"}
    PROVE  Reply(c, type, ok) \in Seq(Frame)
BY DEF Reply, Frame

LEMMA NotifyType ==
    ASSUME TypeOK, NEW i \in Ids, NEW ok \in BOOLEAN
    PROVE  NotifySender(i, ok) \in Seq(Frame)
<1> DEFINE t == transfers[i].senderToken
<1>1. t \in Tokens \cup {NoToken}
  BY DEF TypeOK, Transfer
<1>2. CASE t # NoToken /\ holder[t] # NoConn
  <2>1. holder[t] \in Conns
    BY <1>1, <1>2 DEF TypeOK, DirTypeOK
  <2> QED BY <1>2, <2>1, ReplyType DEF NotifySender
<1>3. CASE ~(t # NoToken /\ holder[t] # NoConn)
  BY <1>3 DEF NotifySender
<1> QED BY <1>2, <1>3

LEMMA DirStepType ==
    ASSUME DirTypeOK, DirNext PROVE DirTypeOK'
<1> USE MaxLoginsAssumption DEF DirTypeOK, Tokens, NoToken
<1>1. PICK c \in Conns : (\E u \in Users : LogIn(c, u)) \/ LoseAuth(c) \/ Vanish(c)
  BY DEF DirNext
<1>2. CASE \E u \in Users : LogIn(c, u)
  BY <1>2 DEF LogIn
<1>3. CASE LoseAuth(c)
  BY <1>3 DEF LoseAuth, IsAuthenticated
<1>4. CASE Vanish(c)
  BY <1>4 DEF Vanish
<1> QED BY <1>1, <1>2, <1>3, <1>4

LEMMA DirUnchangedType ==
    ASSUME DirTypeOK, UNCHANGED dirVars PROVE DirTypeOK'
BY DEF DirTypeOK, dirVars

-----------------------------------------------------------------------------
\* Steps

LEMMA InitInvariant == Init => FInv
<1> SUFFICES ASSUME Init PROVE FInv
  OBVIOUS
<1> USE DEF Init
<1>1. DirTypeOK
  BY MaxLoginsAssumption DEF DirInit, DirTypeOK, Tokens, NoToken
<1>2. NoTransfer \in Transfer
  BY TransferBounds DEF NoTransfer, Transfer, States, NoToken
<1>3. TypeOK
  <2>1. /\ transfers \in [Ids -> Transfer] /\ nextId \in 1 .. MaxTransfers + 1
        /\ folder \in [Ids -> Folders]
    BY <1>2, TransferBounds DEF Ids, Folders
  <2>2. /\ streams \in [Addresses -> Stream \cup {Closed}]
        /\ disk \in [Paths -> File \cup {NoFile}]
    OBVIOUS
  <2>3. sent \in Seq(Frame) /\ epoch \in 0 .. MaxRestarts
    BY TransferBounds
  <2> QED BY <1>1, <2>1, <2>2, <2>3 DEF TypeOK
<1>4. StreamsHaveFiles /\ CompletedInPlace
  BY DEF StreamsHaveFiles, CompletedInPlace, NoTransfer
<1>5. HandlesExplained /\ HandlesOwned /\ HandlesApart /\ FreshIds
  BY DEF HandlesExplained, HandlesOwned, HandlesApart, FreshIds, Owns, TakesChunks, NoTransfer
<1> QED BY <1>3, <1>4, <1>5 DEF FInv

\* Session steps and refused messages change nothing of the transfers.
LEMMA QuietStep ==
    ASSUME FInv, UNCHANGED <<storeVars, histVars>>, DirTypeOK', sent' \in Seq(Frame)
    PROVE  FInv'
<1> USE DEF FInv, storeVars, histVars
<1>1. TypeOK'
  BY DEF TypeOK
<1>2. StreamsHaveFiles' /\ CompletedInPlace'
  BY PathsKept DEF StreamsHaveFiles, CompletedInPlace
<1>3. HandlesExplained' /\ HandlesOwned' /\ HandlesApart' /\ FreshIds'
  BY PathsKept DEF HandlesExplained, HandlesOwned, OwnerHolds, HandlesApart, FreshIds,
                   Owns, TakesChunks
<1> QED BY <1>1, <1>2, <1>3

\* Steps that only change one transfer's record, and neither its FILE* nor to a
\* state that takes chunks or is completed, unless it was in such a state.
LEMMA RecordStep ==
    ASSUME FInv, NEW i \in Ids, NEW x \in Transfer, Known(i),
           transfers' = [transfers EXCEPT ![i] = x],
           x.handle = transfers[i].handle,
           x.state = "COMPLETED" => transfers[i].state = "COMPLETED",
           x.state \in {"ACCEPTED", "RECEIVING"} => TakesChunks(i),
           DirTypeOK', sent' \in Seq(Frame),
           ub' \in BOOLEAN, ub => ub', disorder' \subseteq Ids,
           UNCHANGED <<folder, nextId, streams, disk, epoch, consent, dangling, lossy>>
    PROVE  FInv'
<1> USE DEF FInv
<1>1. TypeOK'
  BY DEF TypeOK
<1>2. StreamsHaveFiles'
  BY DEF StreamsHaveFiles
<1>3. CompletedInPlace'
  BY PathsKept DEF CompletedInPlace, TypeOK
<1>4. HandlesExplained'
  BY DEF HandlesExplained, TakesChunks, TypeOK
<1>5. \A j \in Ids : transfers'[j].handle = transfers[j].handle /\ (Owns(j)' <=> Owns(j))
  BY DEF Owns, TypeOK
<1>6. HandlesOwned' /\ HandlesApart'
  BY <1>5, PathsKept DEF HandlesOwned, OwnerHolds, HandlesApart
<1>7. FreshIds'
  BY KnownIsOld DEF FreshIds, TypeOK
<1> QED BY <1>1, <1>2, <1>3, <1>4, <1>6, <1>7

LEMMA OfferKeeps ==
    ASSUME TypeOK, NEW f, nextId' = nextId + 1, folder' = [folder EXCEPT ![nextId] = f],
           NEW j \in Ids, j # nextId
    PROVE  /\ Path(j, "part")' = Path(j, "part") /\ Path(j, "final")' = Path(j, "final")
           /\ Own(j)' = Own(j)
           /\ Alone(j)' => Alone(j)
<1>1. /\ folder'[j] = folder[j]
      /\ \A l \in Ids : l < nextId => l < nextId' /\ folder'[l] = folder[l]
  BY TransferBounds DEF TypeOK, Ids
<1>2. /\ Path(j, "part")' = Path(j, "part") /\ Path(j, "final")' = Path(j, "final")
      /\ Own(j)' = Own(j)
  BY <1>1 DEF Path, Own, Unlinked
<1> QED BY <1>1, <1>2 DEF Alone

LEMMA OfferStep ==
    ASSUME FInv, NEW c \in Conns, NEW r \in Users, NEW n \in FileSizes,
           NEW f \in OtherFolders \cup {nextId}, Offer(c, r, n, f)
    PROVE  FInv'
<1> DEFINE x == [sender |-> user[c], senderToken |-> token[c], receiver |-> r,
                 chunks |-> n, state |-> "OFFERED", expected |-> 0, handle |-> Null]
<1> USE DEF FInv, Offer, CreateTransfer, histVars
<1>1. x \in Transfer /\ x.handle = Null /\ x.state = "OFFERED"
  BY TransferBounds DEF TypeOK, DirTypeOK, Transfer, States
<1>2. /\ nextId \in Ids /\ nextId' \in 1 .. MaxTransfers + 1
      /\ f \in Folders
  <2>1. nextId \in 1 .. MaxTransfers + 1 /\ nextId <= MaxTransfers
    BY DEF TypeOK
  <2>2. nextId \in Ids /\ nextId \in Folders /\ nextId' \in 1 .. MaxTransfers + 1
    BY <2>1, TransferBounds DEF Ids, Folders
  <2> QED BY <2>2, FoldersAssumption
<1>3. transfers' = [transfers EXCEPT ![nextId] = x] /\ folder' = [folder EXCEPT ![nextId] = f]
  OBVIOUS
<1>4. TypeOK'
  <2>1. DirTypeOK' /\ sent' \in Seq(Frame)
    BY DirUnchangedType, ReplyType DEF TypeOK
  <2>2. folder' \in [Ids -> Folders] /\ transfers' \in [Ids -> Transfer]
    BY <1>1, <1>2, <1>3 DEF TypeOK
  <2> QED BY <1>2, <2>1, <2>2 DEF TypeOK
<1> HIDE DEF x
<1>5. ASSUME NEW j \in Ids, j # nextId
      PROVE  /\ transfers'[j] = transfers[j]
             /\ Path(j, "part")' = Path(j, "part") /\ Path(j, "final")' = Path(j, "final")
             /\ Own(j)' = Own(j)
             /\ Alone(j)' => Alone(j)
  BY <1>2, <1>3, <1>5, OfferKeeps DEF TypeOK
<1>6. StreamsHaveFiles'
  BY DEF StreamsHaveFiles
<1>7. CompletedInPlace'
  <2> SUFFICES ASSUME NEW j \in Ids, transfers'[j].state = "COMPLETED", Alone(j)'
               PROVE  disk'[Path(j, "final")'] # NoFile /\ disk'[Path(j, "part")'] = NoFile
    BY DEF CompletedInPlace
  <2>1. j # nextId
    BY <1>1, <1>2, <1>3 DEF TypeOK
  <2> QED BY <1>5, <2>1 DEF CompletedInPlace
<1>8. HandlesExplained'
  BY <1>1, <1>2, <1>3 DEF HandlesExplained, TakesChunks, TypeOK
<1>9. \A j \in Ids : Owns(j)' => j # nextId /\ Owns(j)
  BY <1>1, <1>2, <1>3 DEF Owns, TypeOK
<1>10. HandlesOwned' /\ HandlesApart'
  BY <1>5, <1>9 DEF HandlesOwned, OwnerHolds, HandlesApart
<1>11. FreshIds'
  BY <1>2, <1>3 DEF FreshIds, TypeOK, Ids
<1> QED BY <1>4, <1>6, <1>7, <1>8, <1>10, <1>11

LEMMA FailSteps ==
    ASSUME FInv, NEW c \in Conns, NEW i \in Ids,
           \/ AcceptCannotOpen(c, i) \/ Reject(c, i)
           \/ ChunkEmpty(c, i) \/ DoneNeverOpened(c, i)
    PROVE  FInv'
<1> DEFINE x == [transfers[i] EXCEPT !.state = "FAILED"]
<1> USE DEF FInv
<1>1. /\ transfers' = [transfers EXCEPT ![i] = x] /\ Known(i)
      /\ UNCHANGED <<dirVars, folder, nextId, streams, disk, histVars>>
  BY DEF AcceptCannotOpen, Reject, ChunkEmpty, DoneNeverOpened, MayAnswer, MaySend
<1>2. x \in Transfer /\ x.handle = transfers[i].handle /\ x.state = "FAILED"
  BY DEF TypeOK, Transfer, States
<1>3. sent' \in Seq(Frame)
  <2>1. NotifySender(i, FALSE) \o Reply(c, "ACCEPT_RESP", TRUE) \in Seq(Frame)
    BY NotifyType, ReplyType, ConcatProperties
  <2>2. Reply(c, "ACCEPT_RESP", FALSE) \in Seq(Frame)
    BY ReplyType
  <2>3. Reply(c, "RESULT", FALSE) \in Seq(Frame)
    BY ReplyType
  <2>4. <<>> \in Seq(Frame)
    OBVIOUS
  <2>5. sent' \in {NotifySender(i, FALSE) \o Reply(c, "ACCEPT_RESP", TRUE),
                   Reply(c, "ACCEPT_RESP", FALSE), Reply(c, "RESULT", FALSE), <<>>}
    BY DEF AcceptCannotOpen, Reject, ChunkEmpty, DoneNeverOpened
  <2> QED BY <2>1, <2>2, <2>3, <2>4, <2>5
<1>4. DirTypeOK'
  BY <1>1, DirUnchangedType DEF TypeOK
<1> QED BY <1>1, <1>2, <1>3, <1>4, RecordStep DEF TypeOK, histVars

LEMMA MarkedFacts ==
    ASSUME NEW x \in Transfer, NEW k \in 0 .. MaxIndex
    PROVE  /\ Marked(x, k) \in Transfer
           /\ Marked(x, k).handle = x.handle
           /\ Marked(x, k).state \in {x.state, "RECEIVING"}
<1>1. CASE k # x.expected
  BY <1>1 DEF Marked
<1>2. CASE k = x.expected
  <2> DEFINE next == IF x.state = "ACCEPTED" THEN "RECEIVING" ELSE x.state
  <2>1. next \in States /\ next \in {x.state, "RECEIVING"}
    BY DEF Transfer, States
  <2>2. x.expected + 1 \in 0 .. MaxIndex + 1
    BY <1>2, TransferBounds
  <2>3. Marked(x, k) = [x EXCEPT !.expected = x.expected + 1, !.state = next]
    BY <1>2 DEF Marked
  <2> HIDE DEF next
  <2> QED BY <2>1, <2>2, <2>3 DEF Transfer
<1> QED BY <1>1, <1>2

LEMMA ChunkToClosedStep ==
    ASSUME FInv, NEW c \in Conns, NEW i \in Ids, NEW k \in 0 .. MaxIndex,
           ChunkToClosed(c, i, k)
    PROVE  FInv'
<1> USE DEF FInv
<1>1. transfers[i] \in Transfer /\ TakesChunks(i)
  BY DEF TypeOK, ChunkToClosed
<1>2. /\ Marked(transfers[i], k) \in Transfer
      /\ Marked(transfers[i], k).handle = transfers[i].handle
      /\ Marked(transfers[i], k).state \in {transfers[i].state, "RECEIVING"}
  BY <1>1, MarkedFacts
<1>3. /\ [transfers[i] EXCEPT !.state = "FAILED"] \in Transfer
      /\ [transfers[i] EXCEPT !.state = "FAILED"].handle = transfers[i].handle
      /\ [transfers[i] EXCEPT !.state = "FAILED"].state = "FAILED"
  BY <1>1 DEF Transfer, States
<1>4. PICK x \in Transfer : /\ transfers' = [transfers EXCEPT ![i] = x]
                            /\ x.handle = transfers[i].handle
                            /\ x.state \in {transfers[i].state, "RECEIVING", "FAILED"}
  BY <1>2, <1>3 DEF ChunkToClosed
<1>5. DirTypeOK' /\ sent' \in Seq(Frame)
  BY DirUnchangedType DEF TypeOK, ChunkToClosed
<1>6. /\ ub' = TRUE /\ Known(i)
      /\ UNCHANGED <<folder, nextId, streams, disk, epoch, consent, dangling, disorder, lossy>>
  BY DEF ChunkToClosed, MaySend
<1> QED BY <1>1, <1>4, <1>5, <1>6, RecordStep DEF TypeOK, TakesChunks

\* A new .part file and a new stream on it; no other owner can have had one there.
LEMMA AcceptStep ==
    ASSUME FInv, NEW c \in Conns, NEW i \in Ids, NEW a \in Addresses, Accept(c, i, a)
    PROVE  FInv'
<1> DEFINE part == Path(i, "part")
           s == [path |-> part, pos |-> 0, buf |-> <<>>]
           f == [by |-> epoch, data |-> <<>>]
           x == [transfers[i] EXCEPT !.handle = a, !.state = "ACCEPTED"]
<1> USE DEF FInv
<1>1. /\ streams[a] = Closed
      /\ streams' = [streams EXCEPT ![a] = s]
      /\ disk' = [disk EXCEPT ![part] = f]
      /\ transfers' = [transfers EXCEPT ![i] = x]
  BY DEF Accept, OpenForWrite
<1>2. /\ consent' = consent \cup {i} /\ dangling' = dangling \ {i}
      /\ disorder' \subseteq Ids
      /\ Known(i)
      /\ UNCHANGED <<dirVars, folder, nextId, epoch, lossy, ub>>
  BY DEF Accept, TypeOK, MayAnswer
<1>3. part \in Paths /\ part # Unlinked /\ s.path = part /\ x.handle = a /\ x.state = "ACCEPTED"
  BY PathFacts DEF TypeOK, Transfer
<1>4. s \in Stream /\ s # Closed
  <2>1. <<>> \in Seq(Data)
    OBVIOUS
  <2>2. s \in Stream
    BY <1>3, <2>1 DEF Stream
  <2> QED BY <2>2, ClosedAssumption
<1>5. f \in File /\ f # NoFile
  <2>1. <<>> \in Seq(Data) /\ epoch \in 0 .. MaxRestarts
    BY DEF TypeOK
  <2>2. f \in File
    BY <2>1 DEF File
  <2> QED BY <2>2, NoFileAssumption
<1>6. x \in Transfer
  <2>1. transfers[i] \in Transfer
    BY DEF TypeOK
  <2> QED BY <2>1 DEF Transfer, States
<1>7. sent' \in Seq(Frame)
  <2>1. NotifySender(i, TRUE) \o Reply(c, "ACCEPT_RESP", TRUE) \in Seq(Frame)
    BY NotifyType, ReplyType, ConcatProperties
  <2> QED BY <2>1 DEF Accept
<1> HIDE DEF part, s, f, x
<1>8. TypeOK'
  <2>1. DirTypeOK'
    BY <1>2, DirUnchangedType DEF TypeOK
  <2> QED BY <1>1, <1>2, <1>3, <1>4, <1>5, <1>6, <1>7, <2>1 DEF TypeOK
<1>9. StreamsHaveFiles'
  BY <1>1, <1>3, <1>4, <1>5 DEF StreamsHaveFiles, TypeOK
<1>10. HandlesExplained'
  BY <1>1, <1>2, <1>3, NullAssumption DEF HandlesExplained, TakesChunks, TypeOK
<1>11. i < nextId
  BY <1>2, KnownIsOld
<1>12. CompletedInPlace'
  <2> SUFFICES ASSUME NEW j \in Ids, transfers'[j].state = "COMPLETED", Alone(j)
               PROVE  disk'[Path(j, "final")] # NoFile /\ disk'[Path(j, "part")] = NoFile
    BY <1>2, PathsKept DEF CompletedInPlace
  <2>1. j # i /\ transfers[j].state = "COMPLETED"
    BY <1>1, <1>3 DEF TypeOK
  <2>2. Path(j, "part") # part /\ Path(j, "final") # part
    BY <1>11, <2>1, AlonePaths DEF part, Own
  <2>3. Path(j, "part") \in Paths /\ Path(j, "final") \in Paths
    BY PathFacts
  <2> QED BY <1>1, <2>1, <2>2, <2>3 DEF CompletedInPlace, TypeOK
<1>13. ASSUME ~ub, NEW j \in Ids, j # i, Owns(j)'
       PROVE  /\ Owns(j) /\ transfers'[j] = transfers[j] /\ OwnerHolds(j)
              /\ transfers[j].handle \in Addresses /\ transfers[j].handle # a
              /\ streams'[transfers[j].handle] = streams[transfers[j].handle]
  <2>1. Owns(j) /\ transfers'[j] = transfers[j]
    BY <1>1, <1>2, <1>13 DEF Owns, TypeOK
  <2>2. OwnerHolds(j)
    BY <1>13, <2>1 DEF HandlesOwned
  <2>3. transfers[j].handle \in Addresses /\ transfers[j].handle # a
    BY <1>1, <2>1, <2>2 DEF Owns, OwnerHolds, TypeOK, Transfer
  <2> QED BY <1>1, <2>1, <2>2, <2>3 DEF TypeOK
<1>14. transfers'[i].handle = a /\ streams'[a] = s
  BY <1>1, <1>3 DEF TypeOK
<1>15. HandlesOwned'
  <2> SUFFICES ASSUME ~ub, NEW j \in Ids, Owns(j)' PROVE OwnerHolds(j)'
    BY <1>2 DEF HandlesOwned
  <2>1. CASE j = i
    <3>1. s.path = Path(i, "part") /\ Path(i, "part") \in Own(i)
      BY <1>3 DEF part, Own
    <3> QED BY <1>2, <1>4, <1>14, <2>1, <3>1, PathsKept DEF OwnerHolds
  <2>2. CASE j # i
    BY <1>2, <1>13, <2>2, PathsKept DEF OwnerHolds
  <2> QED BY <2>1, <2>2
<1>16. HandlesApart'
  <2> SUFFICES ASSUME ~ub, NEW j \in Ids, NEW l \in Ids, j # l, Owns(j)', Owns(l)'
               PROVE  transfers'[j].handle # transfers'[l].handle
    BY <1>2 DEF HandlesApart
  <2>1. CASE j # i /\ l # i
    BY <1>13, <2>1 DEF HandlesApart
  <2>2. CASE j = i \/ l = i
    BY <1>13, <1>14, <2>2
  <2> QED BY <2>1, <2>2
<1>17. FreshIds'
  BY <1>1, <1>2, <1>11, KnownIsOld DEF FreshIds, TypeOK
<1> QED BY <1>8, <1>9, <1>10, <1>12, <1>15, <1>16, <1>17

\* Writing through a FILE*: which files exist, and which file each stream is on,
\* stays the same.
LEMMA WriteStep ==
    ASSUME FInv, NEW i \in Ids, NEW x \in Transfer, TakesChunks(i), Known(i),
           transfers' = [transfers EXCEPT ![i] = x],
           x.handle = transfers[i].handle,
           x.state \in {"ACCEPTED", "RECEIVING", "FAILED"},
           disk' \in [Paths -> File \cup {NoFile}],
           \A p \in Paths : disk'[p] = NoFile <=> disk[p] = NoFile,
           streams' \in [Addresses -> Stream \cup {Closed}],
           \A a \in Addresses : /\ streams'[a] = Closed <=> streams[a] = Closed
                                /\ streams[a] # Closed => streams'[a].path = streams[a].path,
           sent' = <<>>, disorder' \subseteq Ids,
           UNCHANGED <<dirVars, folder, nextId, epoch, consent, dangling, lossy, ub>>
    PROVE  FInv'
<1> USE DEF FInv
<1>1. TypeOK'
  <2>1. DirTypeOK'
    BY DirUnchangedType DEF TypeOK
  <2> QED BY <2>1 DEF TypeOK
<1>2. StreamsHaveFiles'
  <2> SUFFICES ASSUME NEW a \in Addresses, streams'[a] # Closed, streams'[a].path # Unlinked
               PROVE  disk'[streams'[a].path] # NoFile
    BY DEF StreamsHaveFiles
  <2>1. streams[a] # Closed /\ streams'[a].path = streams[a].path
    OBVIOUS
  <2>2. streams[a].path \in Paths
    BY <2>1 DEF TypeOK, Stream
  <2> QED BY <2>1, <2>2 DEF StreamsHaveFiles
<1>3. HandlesExplained'
  BY DEF HandlesExplained, TakesChunks, TypeOK
<1>4. CompletedInPlace'
  BY PathFacts, PathsKept DEF CompletedInPlace, TypeOK
<1>5. \A j \in Ids : transfers'[j].handle = transfers[j].handle /\ (Owns(j)' <=> Owns(j))
  BY DEF Owns, TypeOK
<1>6. HandlesOwned'
  <2> SUFFICES ASSUME ~ub, NEW j \in Ids, Owns(j)' PROVE OwnerHolds(j)'
    BY DEF HandlesOwned
  <2>1. transfers'[j].handle = transfers[j].handle /\ Owns(j) /\ OwnerHolds(j)
    BY <1>5 DEF HandlesOwned
  <2>2. transfers[j].handle \in Addresses
    BY <2>1 DEF Owns, TypeOK, Transfer
  <2> QED BY <2>1, <2>2, PathsKept DEF OwnerHolds
<1>7. HandlesApart'
  BY <1>5 DEF HandlesApart
<1>8. FreshIds'
  BY KnownIsOld DEF FreshIds, TypeOK
<1> QED BY <1>1, <1>2, <1>3, <1>4, <1>6, <1>7, <1>8

LEMMA StreamAt ==
    ASSUME FInv, NEW a \in Addresses, streams[a] # Closed
    PROVE  /\ streams[a] \in Stream /\ streams[a].pos \in Nat /\ streams[a].buf \in Seq(Data)
           /\ streams[a].path # Unlinked => disk[streams[a].path] # NoFile
BY DEF FInv, TypeOK, Stream, StreamsHaveFiles

LEMMA WriteThroughEffect ==
    ASSUME FInv, NEW a \in Addresses, streams[a] # Closed, NEW d \in Data,
           \/ WriteThrough(a, d)
           \/ UNCHANGED <<disk, streams>>
    PROVE  /\ disk' \in [Paths -> File \cup {NoFile}]
           /\ \A p \in Paths : disk'[p] = NoFile <=> disk[p] = NoFile
           /\ streams' \in [Addresses -> Stream \cup {Closed}]
           /\ \A b \in Addresses : /\ streams'[b] = Closed <=> streams[b] = Closed
                                   /\ streams[b] # Closed => streams'[b].path = streams[b].path
<1> DEFINE s == streams[a]
<1>1. /\ s \in Stream /\ s.pos \in Nat /\ s.buf \in Seq(Data)
      /\ s.path # Unlinked => disk[s.path] # NoFile
  BY StreamAt
<1>2. CASE UNCHANGED <<disk, streams>>
  BY <1>2 DEF FInv, TypeOK
<1>3. CASE /\ disk' = Flushed(s, <<d>>)
           /\ streams' = [streams EXCEPT ![a].pos = @ + Len(streams[a].buf) + 1,
                                         ![a].buf = <<>>]
  <2> DEFINE s2 == [s EXCEPT !.pos = @ + Len(streams[a].buf) + 1, !.buf = <<>>]
  <2>1. /\ disk' \in [Paths -> File \cup {NoFile}]
        /\ \A p \in Paths : disk'[p] = NoFile <=> disk[p] = NoFile
    <3>1. <<d>> \in Seq(Data)
      OBVIOUS
    <3>2. TypeOK
      BY DEF FInv
    <3> QED BY <1>1, <1>3, <3>1, <3>2, FlushedType
  <2>2. s2 \in Stream /\ s2.path = s.path
    <3>1. <<>> \in Seq(Data) /\ s.pos + Len(s.buf) + 1 \in Nat
      BY <1>1
    <3> QED BY <1>1, <3>1 DEF Stream
  <2>3. s2 # Closed
    BY <2>2, ClosedAssumption
  <2>4. streams' = [streams EXCEPT ![a] = s2]
    BY <1>3
  <2> HIDE DEF s2
  <2> QED BY <2>1, <2>2, <2>3, <2>4 DEF FInv, TypeOK
<1>4. CASE /\ streams' = [streams EXCEPT ![a].buf = Append(@, d)]
           /\ UNCHANGED disk
  <2> DEFINE s2 == [s EXCEPT !.buf = Append(@, d)]
  <2>1. s2 \in Stream /\ s2.path = s.path
    <3>1. Append(s.buf, d) \in Seq(Data)
      BY <1>1
    <3> QED BY <1>1, <3>1 DEF Stream
  <2>2. s2 # Closed
    BY <2>1, ClosedAssumption
  <2>3. streams' = [streams EXCEPT ![a] = s2]
    BY <1>4
  <2> HIDE DEF s2
  <2> QED BY <1>4, <2>1, <2>2, <2>3 DEF FInv, TypeOK
<1> QED BY <1>2, <1>3, <1>4 DEF WriteThrough

LEMMA ChunkWrittenStep ==
    ASSUME FInv, NEW c \in Conns, NEW i \in Ids, NEW k \in 0 .. MaxIndex,
           ChunkWritten(c, i, k)
    PROVE  FInv'
<1> DEFINE a == transfers[i].handle
<1>1. /\ transfers[i] \in Transfer /\ TakesChunks(i) /\ streams[a] # Closed /\ a \in Addresses
      /\ Known(i)
  BY DEF FInv, TypeOK, ChunkWritten, Transfer, MaySend
<1>2. Chunk(i, k) \in Data /\ WriteThrough(a, Chunk(i, k))
  BY DataFacts, TransferBounds DEF ChunkWritten
<1>3. /\ disk' \in [Paths -> File \cup {NoFile}]
      /\ \A p \in Paths : disk'[p] = NoFile <=> disk[p] = NoFile
      /\ streams' \in [Addresses -> Stream \cup {Closed}]
      /\ \A b \in Addresses : /\ streams'[b] = Closed <=> streams[b] = Closed
                              /\ streams[b] # Closed => streams'[b].path = streams[b].path
  BY <1>1, <1>2, WriteThroughEffect
<1>4. /\ Marked(transfers[i], k) \in Transfer
      /\ Marked(transfers[i], k).handle = transfers[i].handle
      /\ Marked(transfers[i], k).state \in {"ACCEPTED", "RECEIVING", "FAILED"}
  BY <1>1, MarkedFacts DEF TakesChunks
<1>5. /\ transfers' = [transfers EXCEPT ![i] = Marked(transfers[i], k)]
      /\ sent' = <<>> /\ disorder' \subseteq Ids
      /\ UNCHANGED <<dirVars, folder, nextId, epoch, consent, dangling, lossy, ub>>
  BY DEF ChunkWritten, FInv, TypeOK
<1> QED BY <1>1, <1>3, <1>4, <1>5, WriteStep

LEMMA ChunkWriteFailsStep ==
    ASSUME FInv, NEW c \in Conns, NEW i \in Ids, ChunkWriteFails(c, i)
    PROVE  FInv'
<1> DEFINE a == transfers[i].handle
           x == [transfers[i] EXCEPT !.state = "FAILED"]
<1>1. /\ transfers[i] \in Transfer /\ TakesChunks(i) /\ streams[a] # Closed /\ a \in Addresses
      /\ Known(i)
  BY DEF FInv, TypeOK, ChunkWriteFails, Transfer, MaySend
<1>2. WriteThrough(a, Torn) \/ UNCHANGED <<disk, streams>>
  BY DEF ChunkWriteFails, WriteShort, WriteThrough
<1>3. /\ disk' \in [Paths -> File \cup {NoFile}]
      /\ \A p \in Paths : disk'[p] = NoFile <=> disk[p] = NoFile
      /\ streams' \in [Addresses -> Stream \cup {Closed}]
      /\ \A b \in Addresses : /\ streams'[b] = Closed <=> streams[b] = Closed
                              /\ streams[b] # Closed => streams'[b].path = streams[b].path
  BY <1>1, <1>2, DataFacts, WriteThroughEffect
<1>4. x \in Transfer /\ x.handle = transfers[i].handle /\ x.state = "FAILED"
  BY <1>1 DEF Transfer, States
<1>5. /\ transfers' = [transfers EXCEPT ![i] = x]
      /\ sent' = <<>> /\ disorder' \subseteq Ids
      /\ UNCHANGED <<dirVars, folder, nextId, epoch, consent, dangling, lossy, ub>>
  BY DEF ChunkWriteFails, FInv, TypeOK
<1> HIDE DEF x
<1> QED BY <1>1, <1>3, <1>4, <1>5, WriteStep

\* fclose changes neither which files exist nor any file but its own.
LEMMA FcloseEffect ==
    ASSUME FInv, NEW a \in Addresses, NEW d \in FcloseOutcomes(a)
    PROVE  /\ d \in [Paths -> File \cup {NoFile}]
           /\ \A p \in Paths : d[p] = NoFile <=> disk[p] = NoFile
<1>1. CASE d = disk
  BY <1>1 DEF FInv, TypeOK
<1>2. CASE streams[a] # Closed /\ d = Flushed(streams[a], <<>>)
  <2>1. /\ streams[a] \in Stream
        /\ streams[a].path # Unlinked => disk[streams[a].path] # NoFile
    BY <1>2, StreamAt
  <2>2. <<>> \in Seq(Data) /\ TypeOK
    BY DEF FInv
  <2> QED BY <1>2, <2>1, <2>2, FlushedType
<1> QED BY <1>1, <1>2 DEF FcloseOutcomes

LEMMA RenamedType ==
    ASSUME TypeOK, NEW i \in Ids, NEW s \in Stream
    PROVE  /\ [s EXCEPT !.path = Path(i, "final")] \in Stream
           /\ [s EXCEPT !.path = Path(i, "final")].path = Path(i, "final")
           /\ [s EXCEPT !.path = Unlinked] \in Stream
           /\ [s EXCEPT !.path = Unlinked].path = Unlinked
BY PathFacts DEF Stream

\* After rename, a stream is open exactly where it was, and on the renamed file,
\* on the replaced one, or on the file it was on before.
LEMMA RenamedAt ==
    ASSUME TypeOK, NEW i \in Ids, NEW open \in [Addresses -> Stream \cup {Closed}],
           NEW b \in Addresses
    PROVE  /\ Renamed(i, open)[b] \in Stream \cup {Closed}
           /\ Renamed(i, open)[b] = Closed <=> open[b] = Closed
           /\ open[b] # Closed =>
                \/ /\ open[b].path = Path(i, "part")
                   /\ Renamed(i, open)[b].path = Path(i, "final")
                \/ /\ open[b].path = Path(i, "final")
                   /\ Renamed(i, open)[b].path = Unlinked
                \/ /\ open[b].path \notin {Path(i, "part"), Path(i, "final")}
                   /\ Renamed(i, open)[b] = open[b]
<1>1. CASE open[b] = Closed
  BY <1>1 DEF Renamed
<1>2. CASE open[b] # Closed
  <2>1. open[b] \in Stream
    BY <1>2
  <2>2. /\ [open[b] EXCEPT !.path = Path(i, "final")] \in Stream
        /\ [open[b] EXCEPT !.path = Path(i, "final")].path = Path(i, "final")
        /\ [open[b] EXCEPT !.path = Unlinked] \in Stream
        /\ [open[b] EXCEPT !.path = Unlinked].path = Unlinked
    BY <2>1, RenamedType
  <2>3. CASE open[b].path = Path(i, "part")
    <3>1. Renamed(i, open)[b] = [open[b] EXCEPT !.path = Path(i, "final")]
      BY <1>2, <2>3 DEF Renamed
    <3> QED BY <1>2, <2>2, <2>3, <3>1, ClosedAssumption
  <2>4. CASE open[b].path = Path(i, "final")
    <3>1. Path(i, "part") # Path(i, "final")
      BY PathFacts
    <3>2. Renamed(i, open)[b] = [open[b] EXCEPT !.path = Unlinked]
      BY <1>2, <2>4, <3>1 DEF Renamed
    <3> QED BY <1>2, <2>2, <2>4, <3>2, ClosedAssumption
  <2>5. CASE open[b].path \notin {Path(i, "part"), Path(i, "final")}
    BY <1>2, <2>1, <2>5 DEF Renamed
  <2> QED BY <2>3, <2>4, <2>5
<1> QED BY <1>1, <1>2

\* Another transfer that still has its FILE* open when i's is closed.
LEMMA DoneOthers ==
    ASSUME FInv, NEW i \in Ids, NEW x, transfers' = [transfers EXCEPT ![i] = x],
           transfers[i].handle # Null,
           ub' = (ub \/ i \in dangling), dangling' = dangling \cup {i}, ~ub',
           NEW j \in Ids, Owns(j)'
    PROVE  /\ j # i /\ ~ub /\ Owns(j) /\ OwnerHolds(j)
           /\ transfers'[j] = transfers[j]
           /\ transfers[j].handle \in Addresses
           /\ transfers[j].handle # transfers[i].handle
<1>1. j # i /\ ~ub /\ Owns(i)
  BY DEF Owns
<1>2. Owns(j) /\ transfers'[j] = transfers[j]
  BY <1>1 DEF Owns, FInv, TypeOK
<1>3. OwnerHolds(j) /\ transfers[j].handle # transfers[i].handle
  BY <1>1, <1>2 DEF FInv, HandlesOwned, HandlesApart
<1>4. transfers[j].handle \in Addresses
  BY <1>2 DEF Owns, FInv, TypeOK, Transfer
<1> QED BY <1>1, <1>2, <1>3, <1>4

\* FILE_DONE: what the step does to the transfers, the streams and the disk keeps
\* every part of the invariant.
LEMMA DoneStep ==
    ASSUME FInv, NEW c \in Conns, NEW i \in Ids, Done(c, i)
    PROVE  FInv'
<1> DEFINE a == transfers[i].handle
           open == [streams EXCEPT ![a] = Closed]
           part == Path(i, "part")
           final == Path(i, "final")
           ok == [transfers[i] EXCEPT !.state = "COMPLETED"]
           ko == [transfers[i] EXCEPT !.state = "FAILED"]
<1>1. a \in Addresses /\ transfers[i] \in Transfer
  BY DEF FInv, TypeOK, Done, Transfer
<1>2. PICK d \in FcloseOutcomes(a) : Finalize(i, a, d)
  BY DEF Done
<1>3. /\ d \in [Paths -> File \cup {NoFile}]
      /\ \A p \in Paths : d[p] = NoFile <=> disk[p] = NoFile
  BY <1>1, FcloseEffect
<1>4. /\ ub' = (ub \/ i \in dangling) /\ dangling' = dangling \cup {i}
      /\ lossy' \subseteq Ids
      /\ sent' = Reply(c, "RESULT", transfers'[i].state = "COMPLETED")
      /\ Known(i)
      /\ UNCHANGED <<dirVars, folder, nextId, epoch, consent, disorder>>
  BY DEF Done, FInv, TypeOK, MaySend
<1>5. DirTypeOK' /\ sent' \in Seq(Frame)
  <2>1. (transfers'[i].state = "COMPLETED") \in BOOLEAN
    OBVIOUS
  <2> QED BY <1>4, <2>1, DirUnchangedType, ReplyType DEF FInv, TypeOK
<1>6. /\ ok \in Transfer /\ ok.handle = a /\ ok.state = "COMPLETED"
      /\ ko \in Transfer /\ ko.handle = a /\ ko.state = "FAILED"
  BY <1>1 DEF Transfer, States
<1>7. /\ part \in Paths /\ final \in Paths /\ part # final
      /\ \A j \in Ids : j # i /\ Alone(j) => /\ Path(j, "part") \notin {part, final}
                                             /\ Path(j, "final") \notin {part, final}
      /\ \A j \in Ids : Path(j, "part") \in Paths /\ Path(j, "final") \in Paths
  <2>1. TypeOK /\ i < nextId
    BY <1>4, KnownIsOld DEF FInv
  <2> QED BY <2>1, PathFacts, AlonePaths DEF Own
<1>typ. TypeOK /\ transfers[i].handle # Null
  BY <1>1, NullAssumption DEF FInv
<1>8. open \in [Addresses -> Stream \cup {Closed}] /\ open[a] = Closed
  BY <1>1 DEF FInv, TypeOK
<1>9. \A b \in Addresses : open[b] # Closed => b # a /\ open[b] = streams[b]
  BY <1>1, <1>8 DEF FInv, TypeOK
<1>10. \A b \in Addresses : b # a => open[b] = streams[b]
  BY <1>1 DEF FInv, TypeOK
<1>11. \A b \in Addresses : open[b] # Closed /\ open[b].path # Unlinked =>
          open[b].path \in Paths /\ d[open[b].path] # NoFile
  BY <1>3, <1>9 DEF FInv, TypeOK, StreamsHaveFiles, Stream
<1>12. CASE /\ d[part] # NoFile
            /\ disk' = [d EXCEPT ![final] = d[part], ![part] = NoFile]
            /\ streams' = Renamed(i, open)
            /\ transfers' = [transfers EXCEPT ![i] = ok]
  <2> HIDE DEF open, ok, ko, part, final
  <2>1. /\ disk' \in [Paths -> File \cup {NoFile}]
        /\ disk'[final] = d[part] /\ disk'[part] = NoFile
        /\ \A p \in Paths \ {part, final} : disk'[p] = d[p]
    BY <1>3, <1>7, <1>12
  <2>2. streams' \in [Addresses -> Stream \cup {Closed}]
    <3>1. \A b \in Addresses : Renamed(i, open)[b] \in Stream \cup {Closed}
      BY <1>typ, <1>8, RenamedAt
    <3>2. Renamed(i, open) = [b \in Addresses |-> Renamed(i, open)[b]]
      BY DEF Renamed
    <3> QED BY <1>12, <3>1, <3>2
  <2>3. TypeOK'
    BY <1>4, <1>5, <1>6, <1>12, <2>1, <2>2 DEF FInv, TypeOK
  <2>4. StreamsHaveFiles'
    <3> SUFFICES ASSUME NEW b \in Addresses, streams'[b] # Closed, streams'[b].path # Unlinked
                 PROVE  disk'[streams'[b].path] # NoFile
      BY DEF StreamsHaveFiles
    <3>1. open[b] # Closed
      BY <1>typ, <1>8, <1>12, RenamedAt
    <3>2. CASE open[b].path = part /\ streams'[b].path = final
      BY <1>12, <2>1, <3>2
    <3>3. CASE open[b].path \notin {part, final} /\ streams'[b] = open[b]
      BY <1>11, <2>1, <3>1, <3>3
    <3> QED BY <1>typ, <1>8, <1>12, <3>1, <3>2, <3>3, RenamedAt DEF part, final
  <2>5. HandlesExplained'
    BY <1>4, <1>6, <1>12 DEF FInv, TypeOK, HandlesExplained, TakesChunks, Done
  <2>6. CompletedInPlace'
    <3> SUFFICES ASSUME NEW j \in Ids, transfers'[j].state = "COMPLETED", Alone(j)
                 PROVE  disk'[Path(j, "final")] # NoFile /\ disk'[Path(j, "part")] = NoFile
      BY <1>4, PathsKept DEF CompletedInPlace
    <3>1. CASE j = i
      BY <1>12, <2>1, <3>1 DEF part, final
    <3>2. CASE j # i
      <4>1. transfers[j].state = "COMPLETED"
        BY <1>12, <3>2 DEF FInv, TypeOK
      <4> QED BY <1>3, <1>7, <2>1, <3>2, <4>1 DEF FInv, CompletedInPlace
    <3> QED BY <3>1, <3>2
  <2>7. ASSUME ~ub', NEW j \in Ids, Owns(j)' PROVE OwnerHolds(j)'
    <3> DEFINE b == transfers[j].handle
    <3>1. /\ j # i /\ b \in Addresses /\ b # a /\ OwnerHolds(j)
          /\ transfers'[j] = transfers[j]
      BY <1>4, <1>12, <1>typ, <2>7, DoneOthers
    <3>2. open[b] = streams[b] /\ open[b] # Closed
      BY <1>10, <3>1 DEF OwnerHolds
    <3>3. streams'[b] # Closed /\ streams'[b].path \in Own(j)
      <4>1. /\ part = Path(j, "part") => final = Path(j, "final")
            /\ final = Path(j, "final") => part = Path(j, "part")
            /\ part # Path(j, "final") /\ final # Path(j, "part")
            /\ part # Unlinked /\ final # Unlinked
        BY <1>typ, PathFacts DEF part, final
      <4>2. \/ open[b].path = part /\ streams'[b].path = final
            \/ open[b].path = final /\ streams'[b].path = Unlinked
            \/ streams'[b].path = open[b].path
        BY <1>typ, <1>8, <1>12, <3>1, <3>2, RenamedAt DEF part, final
      <4>3. streams'[b] # Closed
        BY <1>typ, <1>8, <1>12, <3>1, <3>2, RenamedAt
      <4>4. open[b].path \in Own(j)
        BY <3>1, <3>2 DEF OwnerHolds
      <4> QED BY <4>1, <4>2, <4>3, <4>4 DEF Own
    <3>4. Alone(j) => streams'[b].path = Path(j, "part")
      <4> SUFFICES ASSUME Alone(j) PROVE streams'[b].path = Path(j, "part")
        OBVIOUS
      <4>1. open[b].path = Path(j, "part") /\ Path(j, "part") \notin {part, final}
        BY <1>7, <3>1, <3>2 DEF OwnerHolds
      <4>2. streams'[b] = open[b]
        BY <1>typ, <1>8, <1>12, <3>1, <3>2, <4>1, RenamedAt DEF part, final
      <4> QED BY <4>1, <4>2
    <3> QED BY <1>4, <3>1, <3>3, <3>4, PathsKept DEF OwnerHolds
  <2>8. HandlesOwned' /\ HandlesApart'
    <3>1. HandlesOwned'
      BY <2>7 DEF HandlesOwned
    <3>2. \A j \in Ids : ~ub' /\ Owns(j)' => ~ub /\ Owns(j) /\ transfers'[j] = transfers[j]
      BY <1>4, <1>12, <1>typ, DoneOthers
    <3>3. HandlesApart'
      BY <3>2 DEF FInv, HandlesApart
    <3> QED BY <3>1, <3>3
  <2>9. FreshIds'
    BY <1>4, <1>12, <1>typ, KnownIsOld DEF FInv, FreshIds, TypeOK
  <2> QED BY <2>3, <2>4, <2>5, <2>6, <2>8, <2>9 DEF FInv
<1>13. CASE /\ disk' = d
            /\ streams' = open
            /\ transfers' = [transfers EXCEPT ![i] = ko]
  <2> HIDE DEF open, ok, ko, part, final
  <2>1. TypeOK'
    BY <1>3, <1>4, <1>5, <1>6, <1>8, <1>13 DEF FInv, TypeOK
  <2>2. StreamsHaveFiles'
    BY <1>11, <1>13 DEF StreamsHaveFiles
  <2>3. HandlesExplained'
    BY <1>4, <1>6, <1>13 DEF FInv, TypeOK, HandlesExplained, TakesChunks
  <2>4. CompletedInPlace'
    <3> SUFFICES ASSUME NEW j \in Ids, transfers'[j].state = "COMPLETED", Alone(j)
                 PROVE  disk'[Path(j, "final")] # NoFile /\ disk'[Path(j, "part")] = NoFile
      BY <1>4, PathsKept DEF CompletedInPlace
    <3>1. transfers[j].state = "COMPLETED"
      BY <1>6, <1>13 DEF FInv, TypeOK
    <3> QED BY <1>3, <1>7, <1>13, <3>1 DEF FInv, CompletedInPlace
  <2>5. ASSUME ~ub', NEW j \in Ids, Owns(j)' PROVE OwnerHolds(j)'
    <3>1. /\ j # i /\ transfers[j].handle \in Addresses /\ transfers[j].handle # a
          /\ OwnerHolds(j) /\ transfers'[j] = transfers[j]
      BY <1>4, <1>13, <1>typ, <2>5, DoneOthers
    <3>2. streams'[transfers[j].handle] = streams[transfers[j].handle]
      BY <1>10, <1>13, <3>1
    <3> QED BY <1>4, <3>1, <3>2, PathsKept DEF OwnerHolds
  <2>6. HandlesOwned' /\ HandlesApart'
    <3>1. HandlesOwned'
      BY <2>5 DEF HandlesOwned
    <3>2. \A j \in Ids : ~ub' /\ Owns(j)' => ~ub /\ Owns(j) /\ transfers'[j] = transfers[j]
      BY <1>4, <1>13, <1>typ, DoneOthers
    <3>3. HandlesApart'
      BY <3>2 DEF FInv, HandlesApart
    <3> QED BY <3>1, <3>3
  <2>7. FreshIds'
    BY <1>4, <1>13, <1>typ, KnownIsOld DEF FInv, FreshIds, TypeOK
  <2> QED BY <2>1, <2>2, <2>3, <2>4, <2>6, <2>7 DEF FInv
<1> QED BY <1>2, <1>12, <1>13 DEF Finalize

LEMMA RefusedSteps ==
    ASSUME FInv, NEW c \in Conns, NEW i \in Ids, NEW wf \in BOOLEAN,
           AcceptRefused(c, i, wf) \/ Ignored(c, i, wf)
    PROVE  FInv'
<1>1. UNCHANGED <<dirVars, storeVars, histVars>>
  BY DEF AcceptRefused, Ignored
<1>2. DirTypeOK'
  BY <1>1, DirUnchangedType DEF FInv, TypeOK
<1>3. sent' \in Seq(Frame)
  <2>1. Reply(c, "ACCEPT_RESP", FALSE) \in Seq(Frame)
    BY ReplyType
  <2>2. <<>> \in Seq(Frame)
    OBVIOUS
  <2> QED BY <2>1, <2>2 DEF AcceptRefused, Ignored
<1> QED BY <1>1, <1>2, <1>3, QuietStep

\* The same for the one refusal that names no transfer.
LEMMA OfferRefusedStep ==
    ASSUME FInv, NEW c \in Conns, NEW r \in Users \cup {NoUser}, NEW wf \in BOOLEAN,
           OfferRefused(c, r, wf)
    PROVE  FInv'
<1>1. DirTypeOK'
  BY DirUnchangedType DEF OfferRefused, FInv, TypeOK
<1>2. sent' \in Seq(Frame)
  BY ReplyType DEF OfferRefused
<1> QED BY <1>1, <1>2, QuietStep DEF OfferRefused

LEMMA RestartStep ==
    ASSUME FInv, Restart PROVE FInv'
<1> USE DEF Restart, FInv
<1>1. DirTypeOK'
  BY MaxLoginsAssumption DEF TypeOK, DirTypeOK, Tokens, NoToken
<1>2. NoTransfer \in Transfer
  BY TransferBounds DEF NoTransfer, Transfer, States, NoToken
<1>3. TypeOK'
  <2>1. transfers' \in [Ids -> Transfer] /\ nextId' \in 1 .. MaxTransfers + 1
    BY <1>2, TransferBounds
  <2>4. folder' \in [Ids -> Folders]
    BY TransferBounds DEF Ids, Folders
  <2>2. epoch' \in 0 .. MaxRestarts /\ sent' \in Seq(Frame)
    BY TransferBounds DEF TypeOK
  <2>3. streams' \in [Addresses -> Stream \cup {Closed}] /\ disk' = disk
    OBVIOUS
  <2> QED BY <1>1, <2>1, <2>2, <2>3, <2>4 DEF TypeOK
<1>4. StreamsHaveFiles' /\ CompletedInPlace'
  BY DEF StreamsHaveFiles, CompletedInPlace, NoTransfer
<1>5. HandlesExplained' /\ HandlesOwned' /\ HandlesApart' /\ FreshIds'
  BY DEF HandlesExplained, HandlesOwned, HandlesApart, FreshIds, Owns, TakesChunks, NoTransfer
<1> QED BY <1>3, <1>4, <1>5

LEMMA StepInvariant == FInv /\ [Next]_vars => FInv'
<1> SUFFICES ASSUME FInv, [Next]_vars PROVE FInv'
  OBVIOUS
<1>1. CASE SessionStep
  <2>1. DirTypeOK'
    BY <1>1, DirStepType DEF SessionStep, FInv, TypeOK
  <2> QED BY <1>1, <2>1, QuietStep DEF SessionStep
<1>2. CASE Restart
  BY <1>2, RestartStep
<1>3. ASSUME NEW c \in Conns, FileStep(c) PROVE FInv'
  <2>1. CASE \E r \in Users, n \in FileSizes, f \in OtherFolders \cup {nextId} :
                Offer(c, r, n, f)
    BY <2>1, OfferStep
  <2>2. CASE \E r \in Users \cup {NoUser}, wf \in BOOLEAN : OfferRefused(c, r, wf)
    BY <2>2, OfferRefusedStep
  <2>3. ASSUME NEW i \in Ids, NEW a \in Addresses, Accept(c, i, a) PROVE FInv'
    BY <2>3, AcceptStep
  <2>4. ASSUME NEW i \in Ids,
               \/ AcceptCannotOpen(c, i) \/ Reject(c, i)
               \/ ChunkEmpty(c, i) \/ DoneNeverOpened(c, i)
        PROVE  FInv'
    BY <2>4, FailSteps
  <2>5. ASSUME NEW i \in Ids, NEW wf \in BOOLEAN,
               AcceptRefused(c, i, wf) \/ Ignored(c, i, wf)
        PROVE  FInv'
    BY <2>5, RefusedSteps
  <2>6. ASSUME NEW i \in Ids, NEW k \in 0 .. MaxIndex,
               ChunkWritten(c, i, k) \/ ChunkToClosed(c, i, k)
        PROVE  FInv'
    BY <2>6, ChunkWrittenStep, ChunkToClosedStep
  <2>7. ASSUME NEW i \in Ids, ChunkWriteFails(c, i) PROVE FInv'
    BY <2>7, ChunkWriteFailsStep
  <2>8. ASSUME NEW i \in Ids, Done(c, i) PROVE FInv'
    BY <2>8, DoneStep
  <2> QED BY <1>3, <2>1, <2>2, <2>3, <2>4, <2>5, <2>6, <2>7, <2>8 DEF FileStep
<1>4. CASE UNCHANGED vars
  <2>1. DirTypeOK' /\ sent' \in Seq(Frame)
    BY <1>4, DirUnchangedType DEF vars, FInv, TypeOK
  <2> QED BY <1>4, <2>1, QuietStep DEF vars
<1> QED BY <1>1, <1>2, <1>3, <1>4 DEF Next

LEMMA Invariant == Spec => []FInv
BY InitInvariant, StepInvariant, PTL DEF Spec

-----------------------------------------------------------------------------
(***************************************************************************)
(* The handlers keep transfers_, the open FILEs and the stored files       *)
(* well-typed: the chunk counter, in particular, stays within what clients *)
(* sent (transfer_manager.cpp:71-89).                                      *)
(***************************************************************************)
THEOREM TypeCorrect == Spec => []TypeOK
<1>1. FInv => TypeOK
  BY DEF FInv
<1> QED BY <1>1, Invariant, PTL

(***************************************************************************)
(* A transfer takes chunks or is completed only with its receiver's        *)
(* consent (tcp_session.cpp:431-456, 533-539, 586-599).                    *)
(***************************************************************************)
THEOREM NoTransferWithoutConsent == Spec => []ReceiverConsented
<1>1. FInv => ReceiverConsented
  BY DEF FInv, HandlesExplained, ReceiverConsented
<1> QED BY <1>1, Invariant, PTL

(***************************************************************************)
(* A COMPLETED transfer's file is in place under its final name, whatever  *)
(* was repeated or failed before, unless another offer's file name leads   *)
(* into the same directory (tcp_session.cpp:585-599, file_store.cpp:119-129).*)
(***************************************************************************)
THEOREM CompletedFilesInPlace == Spec => []CompletedInPlace
<1>1. FInv => CompletedInPlace
  BY DEF FInv
<1> QED BY <1>1, Invariant, PTL

(***************************************************************************)
(* Until a FILE* is closed twice, transfers that take chunks write through *)
(* open FILEs of their own, each on its transfer's .part file unless       *)
(* another offer's file name leads into the same directory                 *)
(* (tcp_session.cpp:444-456, 542, 586; file_store.cpp:119-129).            *)
(***************************************************************************)
THEOREM TransfersDoNotShareStreams == Spec => []StreamsSeparate
<1>1. ASSUME FInv PROVE StreamsSeparate
  <2>1. \A j \in Ids : TakesChunks(j) => Owns(j)
    BY <1>1 DEF FInv, HandlesExplained, TakesChunks, Owns
  <2>2. ~ub => \A j \in Ids : TakesChunks(j) => OwnerHolds(j) /\ transfers[j].handle # Null
    BY <1>1, <2>1 DEF FInv, HandlesOwned, Owns
  <2>3. ~ub => \A i, j \in Ids : j # i /\ TakesChunks(i) /\ TakesChunks(j) =>
            transfers[j].handle # transfers[i].handle
    BY <1>1, <2>1 DEF FInv, HandlesApart
  <2> QED BY <2>2, <2>3 DEF StreamsSeparate, OwnerHolds
<1> QED BY <1>1, Invariant, PTL
-----------------------------------------------------------------------------
\* No FILE is leaked.

\* Disorder is a transfer's, not that of an id nobody has been given.
DisorderKnown == \A i \in disorder : i < nextId

LInv == FilesNotLeaked /\ DisorderKnown

LEMMA InitNotLeaked == Init => LInv
BY DEF Init, LInv, FilesNotLeaked, DisorderKnown

\* Steps that leave the FILE*s, which streams are open and the files they are on
\* as they are.
LEMMA KeepStep ==
    ASSUME FInv, LInv, NEW i \in Ids, NEW x, Known(i),
           transfers' = [transfers EXCEPT ![i] = x],
           x.handle = transfers[i].handle,
           \A a \in Addresses : /\ streams'[a] = Closed <=> streams[a] = Closed
                                /\ streams[a] # Closed => streams'[a].path = streams[a].path,
           disorder \subseteq disorder', disorder' \subseteq disorder \cup {i}, ub => ub',
           UNCHANGED <<folder, nextId, dangling>>
    PROVE  LInv'
<1> USE DEF FInv, LInv
<1>1. DisorderKnown'
  BY KnownIsOld DEF DisorderKnown
<1>2. \A j \in Ids : transfers'[j].handle = transfers[j].handle
  BY DEF TypeOK
<1>3. ASSUME NEW j \in disorder
      PROVE  Path(j, "part")' = Path(j, "part") /\ Path(j, "final")' = Path(j, "final")
  BY PathsKept DEF TypeOK
<1>4. FilesNotLeaked'
  BY <1>2, <1>3 DEF FilesNotLeaked, Unlinked
<1> QED BY <1>1, <1>4

\* A session step, a refused message, or no step at all.
LEMMA QuietNotLeaked ==
    ASSUME LInv, UNCHANGED <<storeVars, histVars>> PROVE LInv'
BY DEF LInv, DisorderKnown, FilesNotLeaked, Path, Unlinked, storeVars, histVars

LEMMA OfferNotLeaked ==
    ASSUME FInv, LInv, NEW c \in Conns, NEW r \in Users, NEW n \in FileSizes,
           NEW f \in OtherFolders \cup {nextId}, Offer(c, r, n, f)
    PROVE  LInv'
<1> USE DEF FInv, LInv, Offer, CreateTransfer, histVars
<1>1. nextId \in Ids /\ nextId \in Nat
  BY TransferBounds DEF TypeOK, Ids
<1>2. transfers[nextId].handle = Null /\ transfers'[nextId].handle = Null
  BY <1>1 DEF FreshIds, NoTransfer, TypeOK
<1>3. \A j \in Ids : j # nextId => transfers'[j] = transfers[j]
  BY DEF TypeOK
<1>4. \A j \in disorder : j \in Ids /\ j # nextId /\ j < nextId'
  BY <1>1, TransferBounds DEF DisorderKnown, TypeOK, Ids
<1>5. ASSUME NEW j \in disorder
      PROVE  Path(j, "part")' = Path(j, "part") /\ Path(j, "final")' = Path(j, "final")
  BY <1>4, OfferKeeps
<1>6. FilesNotLeaked'
  BY <1>2, <1>3, <1>5, NullAssumption DEF FilesNotLeaked, Unlinked
<1>7. DisorderKnown'
  BY <1>4 DEF DisorderKnown
<1> QED BY <1>6, <1>7

LEMMA FailNotLeaked ==
    ASSUME FInv, LInv, NEW c \in Conns, NEW i \in Ids,
           \/ AcceptCannotOpen(c, i) \/ Reject(c, i)
           \/ ChunkEmpty(c, i) \/ DoneNeverOpened(c, i)
    PROVE  LInv'
<1> DEFINE x == [transfers[i] EXCEPT !.state = "FAILED"]
<1>1. /\ transfers' = [transfers EXCEPT ![i] = x] /\ Known(i)
      /\ UNCHANGED <<folder, nextId, streams, histVars>>
  BY DEF AcceptCannotOpen, Reject, ChunkEmpty, DoneNeverOpened, MayAnswer, MaySend
<1>2. x.handle = transfers[i].handle
  BY DEF FInv, TypeOK, Transfer
<1> HIDE DEF x
<1> QED BY <1>1, <1>2, KeepStep DEF histVars

LEMMA ChunkNotLeaked ==
    ASSUME FInv, LInv, NEW c \in Conns, NEW i \in Ids, NEW k \in 0 .. MaxIndex,
           ChunkWritten(c, i, k) \/ ChunkToClosed(c, i, k) \/ ChunkWriteFails(c, i)
    PROVE  LInv'
<1> DEFINE a == transfers[i].handle
           ko == [transfers[i] EXCEPT !.state = "FAILED"]
<1>1. transfers[i] \in Transfer /\ Known(i) /\ a \in Addresses
  BY DEF FInv, TypeOK, Transfer, MaySend, ChunkWritten, ChunkToClosed, ChunkWriteFails
<1>2. PICK x : transfers' = [transfers EXCEPT ![i] = x] /\ x.handle = transfers[i].handle
  <2>1. Marked(transfers[i], k).handle = transfers[i].handle /\ ko.handle = transfers[i].handle
    BY <1>1, MarkedFacts DEF Transfer
  <2>2. \/ transfers' = [transfers EXCEPT ![i] = Marked(transfers[i], k)]
        \/ transfers' = [transfers EXCEPT ![i] = ko]
    BY DEF ChunkWritten, ChunkToClosed, ChunkWriteFails
  <2> QED BY <2>1, <2>2
<1>3. \A b \in Addresses : /\ streams'[b] = Closed <=> streams[b] = Closed
                           /\ streams[b] # Closed => streams'[b].path = streams[b].path
  <2>1. CASE ChunkToClosed(c, i, k)
    BY <2>1 DEF ChunkToClosed
  <2>2. CASE ChunkWritten(c, i, k)
    <3>1. Chunk(i, k) \in Data /\ streams[a] # Closed /\ WriteThrough(a, Chunk(i, k))
      BY <2>2, DataFacts, TransferBounds DEF ChunkWritten
    <3> QED BY <1>1, <3>1, WriteThroughEffect
  <2>3. CASE ChunkWriteFails(c, i)
    <3>1. streams[a] # Closed /\ (WriteThrough(a, Torn) \/ UNCHANGED <<disk, streams>>)
      BY <2>3 DEF ChunkWriteFails, WriteShort, WriteThrough
    <3> QED BY <1>1, <3>1, DataFacts, WriteThroughEffect
  <2> QED BY <2>1, <2>2, <2>3
<1>4. /\ disorder \subseteq disorder' /\ disorder' \subseteq disorder \cup {i}
      /\ ub => ub'
      /\ UNCHANGED <<folder, nextId, dangling>>
  BY DEF ChunkWritten, ChunkToClosed, ChunkWriteFails
<1> QED BY <1>1, <1>2, <1>3, <1>4, KeepStep

\* Only accepting again makes a transfer let go of an open FILE.
LEMMA AcceptNotLeaked ==
    ASSUME FInv, LInv, NEW c \in Conns, NEW i \in Ids, NEW a \in Addresses, Accept(c, i, a)
    PROVE  LInv'
<1> USE DEF FInv, LInv
<1>1. /\ Known(i) /\ streams[a] = Closed
      /\ \A b \in Addresses : b # a => streams'[b] = streams[b]
      /\ \A j \in Ids : j # i => transfers'[j] = transfers[j]
      /\ transfers'[i].handle = a
  BY DEF Accept, MayAnswer, OpenForWrite, TypeOK, Transfer
<1>2. /\ dangling' = dangling \ {i} /\ disorder \subseteq disorder'
      /\ disorder' \subseteq disorder \cup {i} /\ disorder' \subseteq Ids
      /\ i \in consent => i \in disorder'
      /\ UNCHANGED <<folder, nextId, ub>>
  BY DEF Accept, TypeOK
<1>3. DisorderKnown'
  BY <1>1, <1>2, KnownIsOld DEF DisorderKnown
<1>4. ASSUME ~ub, NEW b \in Addresses, streams'[b] # Closed
      PROVE  \/ \E j \in Ids : transfers'[j].handle = b /\ j \notin dangling'
             \/ \E j \in disorder' : streams'[b].path \in Own(j)
  <2>1. CASE b = a
    BY <1>1, <1>2, <2>1
  <2>2. CASE b # a
    <3>1. streams[b] # Closed /\ streams'[b] = streams[b]
      BY <1>1, <1>4, <2>2
    <3>2. CASE transfers[i].handle = b /\ i \notin dangling
      <4>1. Owns(i) /\ i \in consent
        BY <3>2, NullAssumption DEF Owns, HandlesExplained
      <4>2. streams[b].path \in Own(i)
        BY <1>4, <3>2, <4>1 DEF HandlesOwned, OwnerHolds
      <4> QED BY <1>2, <3>1, <4>1, <4>2
    <3>3. CASE \E j \in Ids : j # i /\ transfers[j].handle = b /\ j \notin dangling
      BY <1>1, <1>2, <3>3
    <3>4. CASE \E j \in disorder : streams[b].path \in Own(j)
      BY <1>2, <3>1, <3>4
    <3> QED BY <1>4, <3>1, <3>2, <3>3, <3>4 DEF FilesNotLeaked, Own
  <2> QED BY <2>1, <2>2
<1>5. \A j \in disorder' : Own(j)' = Own(j)
  BY <1>2, PathsKept
<1>6. FilesNotLeaked'
  BY <1>2, <1>4, <1>5 DEF FilesNotLeaked, Own
<1> QED BY <1>3, <1>6

\* FILE_DONE closes the FILE of its own transfer, and other streams stay on the
\* files of their transfers, also when one of these is renamed.
LEMMA DoneNotLeaked ==
    ASSUME FInv, LInv, NEW c \in Conns, NEW i \in Ids, Done(c, i)
    PROVE  LInv'
<1> DEFINE a == transfers[i].handle
           open == [streams EXCEPT ![a] = Closed]
<1> USE DEF FInv, LInv
<1>1. a \in Addresses /\ Known(i)
  BY DEF TypeOK, Done, Transfer, MaySend
<1>2. PICK d \in FcloseOutcomes(a) : Finalize(i, a, d)
  BY DEF Done
<1>3. /\ ub' = (ub \/ i \in dangling) /\ dangling' = dangling \cup {i}
      /\ UNCHANGED <<folder, nextId, disorder>>
  BY DEF Done
<1>4. /\ \A j \in Ids : transfers'[j].handle = transfers[j].handle
      /\ \A j \in Ids : j # i => transfers'[j] = transfers[j]
      /\ streams' = open \/ streams' = Renamed(i, open)
  <2>1. PICK x \in {[transfers[i] EXCEPT !.state = "COMPLETED"],
                    [transfers[i] EXCEPT !.state = "FAILED"]} :
          transfers' = [transfers EXCEPT ![i] = x]
    BY <1>2 DEF Finalize
  <2>2. x.handle = transfers[i].handle
    BY DEF TypeOK, Transfer
  <2>3. streams' = open \/ streams' = Renamed(i, open)
    BY <1>2 DEF Finalize
  <2> QED BY <2>1, <2>2, <2>3 DEF TypeOK
<1>5. /\ open \in [Addresses -> Stream \cup {Closed}] /\ open[a] = Closed
      /\ \A b \in Addresses : b # a => open[b] = streams[b]
  BY <1>1 DEF TypeOK
<1>6. DisorderKnown'
  BY <1>3 DEF DisorderKnown
<1> HIDE DEF open
<1>7. ASSUME NEW b \in Addresses, streams'[b] # Closed
      PROVE  /\ b # a /\ streams[b] # Closed
             /\ \A j \in Ids : streams[b].path \in Own(j) => streams'[b].path \in Own(j)
  <2>1. CASE streams' = open
    BY <1>5, <1>7, <2>1
  <2>2. CASE streams' = Renamed(i, open)
    <3>1. b # a /\ open[b] = streams[b] /\ streams[b] # Closed
      BY <1>5, <1>7, <2>2, RenamedAt
    <3>2. \/ streams[b].path = Path(i, "part") /\ streams'[b].path = Path(i, "final")
          \/ streams[b].path = Path(i, "final") /\ streams'[b].path = Unlinked
          \/ streams'[b].path = streams[b].path
      BY <1>5, <2>2, <3>1, RenamedAt
    <3>3. ASSUME NEW j \in Ids, streams[b].path \in Own(j)
          PROVE  streams'[b].path \in Own(j)
      BY <3>2, <3>3, PathFacts DEF Own
    <3> QED BY <3>1, <3>3
  <2> QED BY <1>4, <2>1, <2>2
<1>8. ASSUME ~ub', NEW b \in Addresses, streams'[b] # Closed
      PROVE  \/ \E j \in Ids : transfers'[j].handle = b /\ j \notin dangling'
             \/ \E j \in disorder' : streams'[b].path \in Own(j)
  <2>1. ~ub /\ b # a /\ streams[b] # Closed
    BY <1>3, <1>7, <1>8
  <2>2. CASE \E j \in Ids : transfers[j].handle = b /\ j \notin dangling
    BY <1>3, <1>4, <2>1, <2>2
  <2>3. CASE \E j \in disorder : streams[b].path \in Own(j)
    BY <1>3, <1>7, <1>8, <2>3 DEF TypeOK
  <2> QED BY <2>1, <2>2, <2>3 DEF FilesNotLeaked, Own
<1>9. \A j \in disorder' : Own(j)' = Own(j)
  BY <1>3, PathsKept DEF TypeOK
<1>10. FilesNotLeaked'
  BY <1>8, <1>9 DEF FilesNotLeaked, Own
<1> QED BY <1>6, <1>10

LEMMA StepNotLeaked == FInv /\ LInv /\ [Next]_vars => LInv'
<1> SUFFICES ASSUME FInv, LInv, [Next]_vars PROVE LInv'
  OBVIOUS
<1>1. CASE SessionStep \/ UNCHANGED vars
  BY <1>1, QuietNotLeaked DEF SessionStep, vars
<1>2. CASE Restart
  BY <1>2 DEF Restart, LInv, DisorderKnown, FilesNotLeaked
<1>3. ASSUME NEW c \in Conns, FileStep(c) PROVE LInv'
  <2>1. CASE \E r \in Users, n \in FileSizes, f \in OtherFolders \cup {nextId} :
                Offer(c, r, n, f)
    BY <2>1, OfferNotLeaked
  <2>2. CASE \E r \in Users \cup {NoUser}, wf \in BOOLEAN : OfferRefused(c, r, wf)
    BY <2>2, QuietNotLeaked DEF OfferRefused
  <2>3. ASSUME NEW i \in Ids, NEW a \in Addresses, Accept(c, i, a) PROVE LInv'
    BY <2>3, AcceptNotLeaked
  <2>4. ASSUME NEW i \in Ids,
               \/ AcceptCannotOpen(c, i) \/ Reject(c, i)
               \/ ChunkEmpty(c, i) \/ DoneNeverOpened(c, i)
        PROVE  LInv'
    BY <2>4, FailNotLeaked
  <2>5. ASSUME NEW i \in Ids, NEW wf \in BOOLEAN,
               AcceptRefused(c, i, wf) \/ Ignored(c, i, wf)
        PROVE  LInv'
    BY <2>5, QuietNotLeaked DEF AcceptRefused, Ignored
  <2>6. ASSUME NEW i \in Ids, NEW k \in 0 .. MaxIndex,
               ChunkWritten(c, i, k) \/ ChunkToClosed(c, i, k)
        PROVE  LInv'
    BY <2>6, ChunkNotLeaked
  <2>7. ASSUME NEW i \in Ids, ChunkWriteFails(c, i) PROVE LInv'
    <3>1. 0 \in 0 .. MaxIndex
      BY TransferBounds
    <3> QED BY <2>7, <3>1, ChunkNotLeaked
  <2>8. ASSUME NEW i \in Ids, Done(c, i) PROVE LInv'
    BY <2>8, DoneNotLeaked
  <2> QED BY <1>3, <2>1, <2>2, <2>3, <2>4, <2>5, <2>6, <2>7, <2>8 DEF FileStep
<1> QED BY <1>1, <1>2, <1>3 DEF Next

(***************************************************************************)
(* Until a FILE* is closed twice, every open FILE can still be closed by   *)
(* FILE_DONE, unless its transfer was accepted again or got chunks out of  *)
(* turn (tcp_session.cpp:444-456, 586-597; file_store.cpp:101-115).        *)
(***************************************************************************)
THEOREM OpenFilesHaveAnOwner == Spec => []FilesNotLeaked
<1>1. LInv => FilesNotLeaked
  BY DEF LInv
<1> QED BY <1>1, InitNotLeaked, StepNotLeaked, Invariant, PTL DEF Spec
=============================================================================
