------------------------- MODULE FileContentProofs --------------------------
(***************************************************************************)
(* Proofs about what the files of FileTransfer hold and who touches them,  *)
(* for any connections, users, FILE addresses, bounds and faults.          *)
(***************************************************************************)
EXTENDS FileTransferProofs

-----------------------------------------------------------------------------
\* Contents of files

LEMMA PrefixFacts ==
    ASSUME NEW i \in Ids, NEW n \in Nat
    PROVE  /\ Prefix(i, n) \in Seq(Data) /\ Len(Prefix(i, n)) = n
           /\ \A k \in 1 .. n : Prefix(i, n)[k] = Chunk(i, k - 1)
<1>1. \A k \in 1 .. n : Chunk(i, k - 1) \in Data
  BY DataFacts
<1>2. Prefix(i, n) \in Seq(Data)
  BY <1>1 DEF Prefix
<1>3. DOMAIN Prefix(i, n) = 1 .. n
  BY DEF Prefix
<1>4. Len(Prefix(i, n)) = n
  BY <1>2, <1>3, LenProperties
<1> QED BY <1>2, <1>4 DEF Prefix

\* Writing chunks pos, pos + 1, ... behind the first pos chunks.
LEMMA PutPrefix ==
    ASSUME NEW i \in Ids, NEW pos \in Nat, NEW buf \in Seq(Data),
           \A k \in 1 .. Len(buf) : buf[k] = Chunk(i, pos + k - 1)
    PROVE  Put(Prefix(i, pos), pos, buf) = Prefix(i, pos + Len(buf))
<1> DEFINE data == Prefix(i, pos)
           end == pos + Len(buf)
<1>1. /\ Len(buf) \in Nat /\ end \in Nat
      /\ data \in Seq(Data) /\ Len(data) = pos
      /\ \A k \in 1 .. pos : data[k] = Chunk(i, k - 1)
  BY PrefixFacts
<1>2. CASE buf = <<>>
  BY <1>1, <1>2 DEF Put
<1>3. CASE buf # <<>>
  <2>1. Len(buf) > 0
    BY <1>3, EmptySeq
  <2>2. Put(data, pos, buf) =
          [n \in 1 .. end |-> IF pos < n /\ n <= end THEN buf[n - pos]
                              ELSE IF n <= pos THEN data[n] ELSE Hole]
    BY <1>1, <1>3, <2>1 DEF Put
  <2>3. ASSUME NEW n \in 1 .. end
        PROVE  (IF pos < n /\ n <= end THEN buf[n - pos]
                ELSE IF n <= pos THEN data[n] ELSE Hole) = Chunk(i, n - 1)
    <3>1. CASE pos < n
      <4>1. n - pos \in 1 .. Len(buf) /\ pos + (n - pos) - 1 = n - 1
        BY <1>1, <3>1
      <4> QED BY <3>1, <4>1
    <3>2. CASE ~(pos < n)
      BY <1>1, <3>2
    <3> QED BY <3>1, <3>2
  <2> QED BY <2>2, <2>3 DEF Prefix
<1> QED BY <1>2, <1>3

\* Writing something leaves something.
LEMMA PutNotEmpty ==
    ASSUME NEW data \in Seq(Data), NEW pos \in Nat, NEW buf \in Seq(Data), buf # <<>>
    PROVE  Put(data, pos, buf) # <<>>
<1> DEFINE end == pos + Len(buf)
           size == IF end > Len(data) THEN end ELSE Len(data)
<1>1. Len(buf) > 0 /\ size \in Nat /\ size > 0
  BY EmptySeq, LenProperties
<1>2. DOMAIN Put(data, pos, buf) = 1 .. size
  BY DEF Put
<1>3. 1 \in DOMAIN Put(data, pos, buf)
  BY <1>1, <1>2
<1> QED BY <1>3
-----------------------------------------------------------------------------
(***************************************************************************)
(* The inductive invariant: what is on disk, and behind it in the buffer,  *)
(* is exactly the chunks counted so far, for a transfer whose directory no *)
(* other file name leads into.                                             *)
(***************************************************************************)

Holds(i) ==
    LET s == streams[transfers[i].handle] IN
    /\ disk[Path(i, "part")].data = Prefix(i, s.pos)
    /\ s.pos + Len(s.buf) = transfers[i].expected
    /\ \A k \in 1 .. Len(s.buf) : s.buf[k] = Chunk(i, s.pos + k - 1)

Content(i) ==
    /\ i \notin consent => transfers[i].expected = 0
    /\ Owns(i) => Holds(i)
    /\ transfers[i].state = "COMPLETED" =>
          disk[Path(i, "final")].data = Prefix(i, transfers[i].expected)

ContentInv ==
    ~ub => \A i \in Ids : i \notin disorder \cup lossy /\ Alone(i) => Content(i)

LEMMA InitContent == Init => ContentInv
BY DEF Init, ContentInv, Content, Owns, NoTransfer

\* The stream of an owner.
LEMMA OwnerAt ==
    ASSUME FInv, ~ub, NEW i \in Ids, Owns(i)
    PROVE  /\ transfers[i].handle \in Addresses
           /\ streams[transfers[i].handle] # Closed
           /\ streams[transfers[i].handle] \in Stream
           /\ streams[transfers[i].handle].path \in Own(i)
           /\ Alone(i) => /\ streams[transfers[i].handle].path = Path(i, "part")
                          /\ disk[Path(i, "part")] \in File
<1>1. transfers[i].handle \in Addresses
  BY DEF FInv, TypeOK, Transfer, Owns
<1>2. OwnerHolds(i)
  BY DEF FInv, HandlesOwned
<1>3. Alone(i) => disk[Path(i, "part")] \in File
  BY <1>1, <1>2, PathFacts DEF FInv, StreamsHaveFiles, TypeOK, OwnerHolds
<1> QED BY <1>1, <1>2, <1>3 DEF FInv, TypeOK, OwnerHolds

\* A transfer that a step does not concern.
LEMMA OtherContent ==
    ASSUME FInv, NEW j \in Ids, Content(j),
           transfers'[j].handle = transfers[j].handle,
           transfers'[j].expected = transfers[j].expected,
           transfers'[j].state = "COMPLETED" => transfers[j].state = "COMPLETED",
           j \in consent => j \in consent',
           j \in dangling => j \in dangling',
           Owns(j) => streams'[transfers[j].handle] = streams[transfers[j].handle],
           disk'[Path(j, "part")] = disk[Path(j, "part")],
           disk'[Path(j, "final")] = disk[Path(j, "final")],
           Path(j, "part")' = Path(j, "part"), Path(j, "final")' = Path(j, "final")
    PROVE  Content(j)'
<1>1. Owns(j)' => Owns(j)
  BY DEF Owns
<1>2. Owns(j)' => Holds(j)'
  BY <1>1 DEF Content, Holds
<1> QED BY <1>2 DEF Content

\* Steps that leave streams and files as they are.
LEMMA KeepContent ==
    ASSUME FInv, ContentInv,
           \A j \in Ids :
              /\ transfers'[j].handle = transfers[j].handle
              /\ transfers'[j].expected = transfers[j].expected
              /\ transfers'[j].state = "COMPLETED" => transfers[j].state = "COMPLETED",
           ub => ub', disorder \subseteq disorder',
           UNCHANGED <<folder, nextId, streams, disk, consent, dangling, lossy>>
    PROVE  ContentInv'
<1> SUFFICES ASSUME ~ub', NEW j \in Ids, j \notin disorder' \cup lossy', Alone(j)
             PROVE  Content(j)'
  BY PathsKept DEF ContentInv
<1>1. Content(j)
  BY DEF ContentInv
<1> QED BY <1>1, OtherContent, PathsKept

LEMMA OfferContent ==
    ASSUME FInv, ContentInv, NEW c \in Conns, NEW r \in Users, NEW n \in FileSizes,
           NEW f \in OtherFolders \cup {nextId}, Offer(c, r, n, f)
    PROVE  ContentInv'
<1> USE DEF Offer, CreateTransfer, histVars
<1>1. nextId \in Ids
  BY TransferBounds DEF FInv, TypeOK, Ids
<1>2. /\ transfers'[nextId].handle = Null /\ transfers'[nextId].expected = 0
      /\ transfers'[nextId].state = "OFFERED"
      /\ \A j \in Ids : j # nextId => transfers'[j] = transfers[j]
  BY <1>1 DEF FInv, TypeOK
<1> SUFFICES ASSUME ~ub', NEW j \in Ids, j \notin disorder' \cup lossy', Alone(j)'
             PROVE  Content(j)'
  BY DEF ContentInv
<1>3. CASE j = nextId
  BY <1>2, <1>3 DEF Content, Owns
<1>4. CASE j # nextId
  <2>1. /\ Alone(j)
        /\ Path(j, "part")' = Path(j, "part") /\ Path(j, "final")' = Path(j, "final")
    BY <1>4, OfferKeeps DEF FInv
  <2>2. Content(j)
    BY <2>1 DEF ContentInv
  <2>3. UNCHANGED <<disk, streams, consent, dangling>>
    OBVIOUS
  <2> QED BY <1>2, <1>4, <2>1, <2>2, <2>3, OtherContent
<1> QED BY <1>3, <1>4

LEMMA FailContent ==
    ASSUME FInv, ContentInv, NEW c \in Conns, NEW i \in Ids,
           \/ AcceptCannotOpen(c, i) \/ Reject(c, i)
           \/ ChunkEmpty(c, i) \/ DoneNeverOpened(c, i)
    PROVE  ContentInv'
<1> DEFINE x == [transfers[i] EXCEPT !.state = "FAILED"]
<1>1. /\ transfers' = [transfers EXCEPT ![i] = x]
      /\ UNCHANGED <<folder, nextId, streams, disk, histVars>>
  BY DEF AcceptCannotOpen, Reject, ChunkEmpty, DoneNeverOpened
<1>2. /\ x.handle = transfers[i].handle /\ x.expected = transfers[i].expected
      /\ x.state = "FAILED"
  BY DEF FInv, TypeOK, Transfer
<1> HIDE DEF x
<1>3. \A j \in Ids :
        /\ transfers'[j].handle = transfers[j].handle
        /\ transfers'[j].expected = transfers[j].expected
        /\ transfers'[j].state = "COMPLETED" => transfers[j].state = "COMPLETED"
  BY <1>1, <1>2 DEF FInv, TypeOK
<1> QED BY <1>1, <1>3, KeepContent DEF histVars

\* A first accept starts with an empty file and nothing counted.
LEMMA AcceptContent ==
    ASSUME FInv, ContentInv, NEW c \in Conns, NEW i \in Ids, NEW a \in Addresses,
           Accept(c, i, a)
    PROVE  ContentInv'
<1> USE DEF FInv
<1>1. /\ streams[a] = Closed
      /\ streams'[a] = [path |-> Path(i, "part"), pos |-> 0, buf |-> <<>>]
      /\ \A b \in Addresses : b # a => streams'[b] = streams[b]
      /\ disk'[Path(i, "part")] = [by |-> epoch, data |-> <<>>]
      /\ \A p \in Paths : p # Path(i, "part") => disk'[p] = disk[p]
  BY PathFacts DEF Accept, OpenForWrite, TypeOK
<1>2. /\ transfers'[i].handle = a /\ transfers'[i].state = "ACCEPTED"
      /\ transfers'[i].expected = transfers[i].expected
      /\ \A j \in Ids : j # i => transfers'[j] = transfers[j]
  BY DEF Accept, TypeOK, Transfer
<1>3. /\ consent' = consent \cup {i} /\ dangling' = dangling \ {i}
      /\ disorder' = IF i \in consent THEN disorder \cup {i} ELSE disorder
      /\ UNCHANGED <<folder, nextId, lossy, ub>>
      /\ i < nextId
  BY KnownIsOld DEF Accept, MayAnswer
<1> SUFFICES ASSUME ~ub', NEW j \in Ids, j \notin disorder' \cup lossy', Alone(j)
             PROVE  Content(j)'
  BY <1>3, PathsKept DEF ContentInv
<1>4. Content(j) /\ j \notin disorder
  BY <1>3 DEF ContentInv
<1>5. CASE j = i
  <2>1. transfers'[i].expected = 0
    BY <1>2, <1>3, <1>4, <1>5 DEF Content
  <2>2. Prefix(i, 0) = <<>>
    BY PrefixFacts, EmptySeq
  <2>3. Holds(i)'
    BY <1>1, <1>2, <1>3, <2>1, <2>2, PathsKept DEF Holds
  <2> QED BY <1>2, <1>3, <1>5, <2>3 DEF Content
<1>6. CASE j # i
  <2>1. Owns(j) => transfers[j].handle \in Addresses /\ transfers[j].handle # a
    BY <1>1, <1>3, OwnerAt
  <2>2. /\ disk'[Path(j, "part")] = disk[Path(j, "part")]
        /\ disk'[Path(j, "final")] = disk[Path(j, "final")]
    BY <1>1, <1>3, <1>6, PathFacts, AlonePaths DEF Own
  <2>3. Path(j, "part")' = Path(j, "part") /\ Path(j, "final")' = Path(j, "final")
    BY <1>3, PathsKept
  <2> QED BY <1>1, <1>2, <1>3, <1>4, <1>6, <2>1, <2>2, <2>3, OtherContent
<1> QED BY <1>5, <1>6

LEMMA TakerOwns ==
    ASSUME FInv, NEW i \in Ids, TakesChunks(i) PROVE Owns(i) /\ i < nextId
<1>1. Owns(i)
  BY DEF FInv, HandlesExplained, TakesChunks, Owns
<1>2. Known(i)
  BY DEF TakesChunks, Known
<1> QED BY <1>1, <1>2, KnownIsOld DEF FInv

\* What a stream writes changes only the file it is on.
LEMMA FlushedAt ==
    ASSUME FInv, NEW a \in Addresses, streams[a] # Closed, NEW more \in Seq(Data)
    PROVE  LET s == streams[a]
               p == s.path
               d == Flushed(s, more)
           IN  /\ \A q \in Paths : q # p => d[q] = disk[q]
               /\ p # Unlinked =>
                    /\ p \in Paths /\ disk[p] \in File /\ d[p] \in File
                    /\ d[p] = [disk[p] EXCEPT !.data = Put(@, s.pos, s.buf \o more)]
                    /\ d[p].data = Put(disk[p].data, s.pos, s.buf \o more)
<1> DEFINE s == streams[a]
           p == s.path
<1>1. s \in Stream /\ s.pos \in Nat /\ s.buf \in Seq(Data)
  BY StreamAt
<1>2. CASE p = Unlinked
  BY <1>2 DEF Flushed
<1>3. CASE p # Unlinked
  <2>1. p \in Paths /\ disk[p] \in File
    BY <1>1, <1>3, StreamAt DEF Stream, FInv, TypeOK
  <2>2. Flushed(s, more) =
          [disk EXCEPT ![p] = [disk[p] EXCEPT !.data = Put(@, s.pos, s.buf \o more)]]
    BY <1>3 DEF Flushed
  <2>3. Put(disk[p].data, s.pos, s.buf \o more) \in Seq(Data)
    <3>1. disk[p].data \in Seq(Data)
      BY <2>1 DEF File
    <3>2. s.buf \o more \in Seq(Data)
      BY <1>1, ConcatProperties
    <3> QED BY <1>1, <3>1, <3>2, PutType
  <2>4. [disk[p] EXCEPT !.data = Put(@, s.pos, s.buf \o more)] \in File
    BY <2>1, <2>3 DEF File
  <2> HIDE DEF s, p
  <2>5. /\ \A q \in Paths : q # p => Flushed(s, more)[q] = disk[q]
        /\ Flushed(s, more)[p] = [disk[p] EXCEPT !.data = Put(@, s.pos, s.buf \o more)]
    BY <2>1, <2>2 DEF FInv, TypeOK
  <2>6. [disk[p] EXCEPT !.data = Put(@, s.pos, s.buf \o more)].data =
           Put(disk[p].data, s.pos, s.buf \o more)
    BY <2>1 DEF File
  <2> QED BY <1>3, <2>1, <2>4, <2>5, <2>6 DEF s, p
<1> QED BY <1>2, <1>3

\* A write changes only the stream and one of the files of its transfer.
LEMMA WriteTouches ==
    ASSUME FInv, ~ub, NEW i \in Ids, Owns(i), NEW x \in Data,
           WriteThrough(transfers[i].handle, x) \/ UNCHANGED <<disk, streams>>
    PROVE  /\ \A b \in Addresses : b # transfers[i].handle => streams'[b] = streams[b]
           /\ \A p \in Paths : p \notin Own(i) => disk'[p] = disk[p]
<1> DEFINE a == transfers[i].handle
<1>1. a \in Addresses /\ streams[a] # Closed /\ streams[a].path \in Own(i)
  BY OwnerAt
<1>2. <<x>> \in Seq(Data)
  OBVIOUS
<1>3. \A p \in Paths : p \notin Own(i) => Flushed(streams[a], <<x>>)[p] = disk[p]
  BY <1>1, <1>2, FlushedAt
<1> QED BY <1>1, <1>3 DEF WriteThrough, FInv, TypeOK

\* The files of a transfer that is alone in its directory are not another's.
LEMMA NotOthers ==
    ASSUME FInv, NEW i \in Ids, i < nextId, NEW j \in Ids, j # i, Alone(j)
    PROVE  /\ Path(j, "part") \in Paths /\ Path(j, "final") \in Paths
           /\ Path(j, "part") \notin Own(i) /\ Path(j, "final") \notin Own(i)
BY PathFacts, AlonePaths DEF FInv

LEMMA OthersAfterWrite ==
    ASSUME FInv, ContentInv, ~ub, NEW i \in Ids, Owns(i), i < nextId, NEW x \in Data,
           WriteThrough(transfers[i].handle, x) \/ UNCHANGED <<disk, streams>>,
           \A j \in Ids : j # i => transfers'[j] = transfers[j],
           UNCHANGED <<folder, nextId, consent, dangling>>,
           NEW j \in Ids, j # i, Alone(j), Content(j)
    PROVE  Content(j)'
<1>1. /\ disk'[Path(j, "part")] = disk[Path(j, "part")]
      /\ disk'[Path(j, "final")] = disk[Path(j, "final")]
  BY WriteTouches, NotOthers
<1>2. Owns(j) => streams'[transfers[j].handle] = streams[transfers[j].handle]
  <2>1. Owns(j) => transfers[j].handle # transfers[i].handle
    BY DEF FInv, HandlesApart
  <2> QED BY <2>1, WriteTouches, OwnerAt
<1>3. Path(j, "part")' = Path(j, "part") /\ Path(j, "final")' = Path(j, "final")
  BY PathsKept
<1> QED BY <1>1, <1>2, <1>3, OtherContent

LEMMA ChunkWriteFailsContent ==
    ASSUME FInv, ContentInv, NEW c \in Conns, NEW i \in Ids, ChunkWriteFails(c, i)
    PROVE  ContentInv'
<1>1. /\ TakesChunks(i) /\ disorder' = disorder \cup {i}
      /\ UNCHANGED <<folder, nextId, consent, dangling, lossy, ub>>
      /\ \A j \in Ids : j # i => transfers'[j] = transfers[j]
  BY DEF ChunkWriteFails, FInv, TypeOK
<1>2. WriteThrough(transfers[i].handle, Torn) \/ UNCHANGED <<disk, streams>>
  BY DEF ChunkWriteFails, WriteShort, WriteThrough
<1> SUFFICES ASSUME ~ub', NEW j \in Ids, j \notin disorder' \cup lossy', Alone(j)
             PROVE  Content(j)'
  BY <1>1, PathsKept DEF ContentInv
<1>3. j # i /\ ~ub /\ Content(j)
  BY <1>1 DEF ContentInv
<1>4. Owns(i) /\ i < nextId /\ Torn \in Data
  BY <1>1, TakerOwns, DataFacts
<1> QED BY <1>1, <1>2, <1>3, <1>4, OthersAfterWrite

LEMMA OneMore ==
    ASSUME NEW buf \in Seq(Data), NEW x \in Data
    PROVE  /\ buf \o <<x>> \in Seq(Data) /\ Len(buf \o <<x>>) = Len(buf) + 1
           /\ \A n \in 1 .. Len(buf) : (buf \o <<x>>)[n] = buf[n]
           /\ (buf \o <<x>>)[Len(buf) + 1] = x
           /\ Append(buf, x) = buf \o <<x>>
<1>1. <<x>> \in Seq(Data) /\ Len(<<x>>) = 1 /\ <<x>>[1] = x
  OBVIOUS
<1>2. Append(buf, x) = buf \o <<x>>
  BY AppendIsConcat
<1>3. Len(buf) \in Nat
  BY LenProperties
<1>4. /\ buf \o <<x>> \in Seq(Data) /\ Len(buf \o <<x>>) = Len(buf) + Len(<<x>>)
      /\ \A n \in 1 .. Len(buf) + Len(<<x>>) :
            (buf \o <<x>>)[n] = IF n <= Len(buf) THEN buf[n] ELSE <<x>>[n - Len(buf)]
  BY <1>1, ConcatProperties
<1> QED BY <1>1, <1>2, <1>3, <1>4

\* The expected chunk is written, or buffered, right behind the ones before it.
LEMMA ChunkWrittenContent ==
    ASSUME FInv, ContentInv, NEW c \in Conns, NEW i \in Ids, NEW k \in 0 .. MaxIndex,
           ChunkWritten(c, i, k)
    PROVE  ContentInv'
<1> DEFINE a == transfers[i].handle
           s == streams[a]
           x == Chunk(i, k)
           part == Path(i, "part")
<1>1. /\ TakesChunks(i) /\ WriteThrough(a, x)
      /\ transfers' = [transfers EXCEPT ![i] = Marked(transfers[i], k)]
      /\ disorder' = IF k # transfers[i].expected THEN disorder \cup {i} ELSE disorder
      /\ UNCHANGED <<folder, nextId, consent, dangling, lossy, ub>>
  BY DEF ChunkWritten
<1>2. Owns(i) /\ i < nextId /\ x \in Data /\ k \in Nat /\ transfers[i] \in Transfer
  BY <1>1, TakerOwns, DataFacts, TransferBounds DEF FInv, TypeOK
<1> SUFFICES ASSUME ~ub', NEW j \in Ids, j \notin disorder' \cup lossy', Alone(j)
             PROVE  Content(j)'
  BY <1>1, PathsKept DEF ContentInv
<1>3. ~ub /\ Content(j)
  BY <1>1 DEF ContentInv
<1>4. CASE j # i
  <2>1. \A l \in Ids : l # i => transfers'[l] = transfers[l]
    BY <1>1 DEF FInv, TypeOK
  <2> QED BY <1>1, <1>2, <1>3, <1>4, <2>1, OthersAfterWrite
<1>5. CASE j = i
  <2>1. k = transfers[i].expected
    BY <1>1, <1>5
  <2>2. /\ transfers'[i].expected = k + 1 /\ transfers'[i].handle = a
        /\ transfers'[i].state \in {"ACCEPTED", "RECEIVING"}
    <3>1. /\ Marked(transfers[i], k).expected = k + 1
          /\ Marked(transfers[i], k).handle = a
          /\ Marked(transfers[i], k).state \in {"ACCEPTED", "RECEIVING"}
      BY <1>1, <1>2, <2>1 DEF Marked, Transfer, TakesChunks
    <3> QED BY <1>1, <3>1 DEF FInv, TypeOK
  <2>3. /\ a \in Addresses /\ s \in Stream /\ s.path = part
        /\ s.pos \in Nat /\ s.buf \in Seq(Data) /\ Len(s.buf) \in Nat
        /\ disk[part] \in File /\ s # Closed /\ part # Unlinked /\ part' = part
    BY <1>1, <1>2, <1>3, <1>5, OwnerAt, PathFacts, PathsKept DEF Stream, FInv
  <2>4. /\ disk[part].data = Prefix(i, s.pos)
        /\ s.pos + Len(s.buf) = k
        /\ \A n \in 1 .. Len(s.buf) : s.buf[n] = Chunk(i, s.pos + n - 1)
    BY <1>2, <1>3, <1>5, <2>1 DEF Content, Holds
  <2>5. i \in consent
    BY <1>2 DEF FInv, HandlesExplained, Owns
  <2> DEFINE more == s.buf \o <<x>>
  <2> HIDE DEF s, part
  <2>6. /\ more \in Seq(Data) /\ Len(more) = Len(s.buf) + 1
        /\ \A n \in 1 .. Len(s.buf) : more[n] = s.buf[n]
        /\ more[Len(s.buf) + 1] = Chunk(i, k)
        /\ more = Append(s.buf, x)
    BY <1>2, <2>3, OneMore
  <2> HIDE DEF more
  <2>7. \A n \in 1 .. Len(more) : more[n] = Chunk(i, s.pos + n - 1)
    <3> TAKE n \in 1 .. Len(more)
    <3>1. CASE n \in 1 .. Len(s.buf)
      BY <2>4, <2>6, <3>1
    <3>2. CASE n = Len(s.buf) + 1
      <4>1. s.pos + n - 1 = k
        BY <2>3, <2>4, <3>2
      <4> QED BY <2>6, <3>2, <4>1
    <3> QED BY <2>3, <2>6, <3>1, <3>2
  <2>8. CASE /\ disk' = Flushed(s, <<x>>)
             /\ streams' = [streams EXCEPT ![a].pos = @ + Len(streams[a].buf) + 1,
                                           ![a].buf = <<>>]
    <3>1. streams'[a].pos = k + 1 /\ streams'[a].buf = <<>>
      <4>1. streams' = [streams EXCEPT ![a] = [s EXCEPT !.pos = @ + Len(s.buf) + 1,
                                                        !.buf = <<>>]]
        BY <2>8 DEF s
      <4>2. streams'[a] = [s EXCEPT !.pos = @ + Len(s.buf) + 1, !.buf = <<>>]
        BY <2>3, <4>1 DEF FInv, TypeOK
      <4> QED BY <2>3, <2>4, <4>2 DEF Stream
    <3>2. disk'[part].data = Put(disk[part].data, s.pos, more)
      <4>1. <<x>> \in Seq(Data)
        BY <1>2
      <4>2. Flushed(s, <<x>>)[s.path].data = Put(disk[s.path].data, s.pos, s.buf \o <<x>>)
        BY <2>3, <4>1, FlushedAt DEF s
      <4> QED BY <2>3, <2>8, <4>2 DEF more
    <3>3. Put(Prefix(i, s.pos), s.pos, more) = Prefix(i, s.pos + Len(more))
      BY <2>3, <2>6, <2>7, PutPrefix
    <3>4. s.pos + Len(more) = k + 1
      BY <2>3, <2>4, <2>6
    <3>5. disk'[part].data = Prefix(i, k + 1)
      BY <2>4, <3>2, <3>3, <3>4
    <3>6. Holds(i)'
      BY <1>2, <2>2, <2>3, <3>1, <3>5 DEF Holds, part
    <3> QED BY <1>1, <1>5, <2>2, <2>5, <3>6 DEF Content
  <2>9. CASE /\ streams' = [streams EXCEPT ![a].buf = Append(@, x)]
             /\ UNCHANGED disk
    <3>1. streams'[a].pos = s.pos /\ streams'[a].buf = more
      <4>1. streams' = [streams EXCEPT ![a] = [s EXCEPT !.buf = more]]
        BY <2>6, <2>9 DEF s
      <4>2. streams'[a] = [s EXCEPT !.buf = more]
        BY <2>3, <4>1 DEF FInv, TypeOK
      <4> QED BY <2>3, <4>2 DEF Stream
    <3>2. Holds(i)'
      <4>1. s.pos + Len(more) = k + 1
        BY <2>3, <2>4, <2>6
      <4>2. disk'[part].data = Prefix(i, s.pos)
        BY <2>4, <2>9
      <4> QED BY <2>2, <2>3, <2>7, <3>1, <4>1, <4>2 DEF Holds, part
    <3> QED BY <1>1, <1>5, <2>2, <2>5, <3>2 DEF Content
  <2> QED BY <1>1, <2>8, <2>9 DEF WriteThrough, s
<1> QED BY <1>4, <1>5

\* FILE_DONE by an owner: what fclose leaves in the .part file is what the final
\* file gets, and no stream or file of a transfer with its own directory changes.
LEMMA DoneTouches ==
    ASSUME FInv, ~ub, NEW c \in Conns, NEW i \in Ids, Owns(i), i < nextId, Done(c, i)
    PROVE  LET a == transfers[i].handle
               s == streams[a]
               part == Path(i, "part")
               final == Path(i, "final")
           IN  \E d \in {disk, Flushed(s, <<>>)} :
                  /\ i \notin lossy' => d = Flushed(s, <<>>)
                  /\ \A p \in Paths : p # s.path => d[p] = disk[p]
                  /\ \/ /\ transfers'[i].state = "COMPLETED"
                        /\ disk'[final] = d[part] /\ disk'[part] = NoFile
                     \/ /\ transfers'[i].state = "FAILED"
                        /\ disk'[final] = d[final] /\ disk'[part] = d[part]
                  /\ \A p \in Paths : p \notin Own(i) => disk'[p] = disk[p]
                  /\ transfers'[i].handle = a
                  /\ transfers'[i].expected = transfers[i].expected
                  /\ \A j \in Ids : j # i => transfers'[j] = transfers[j]
                  /\ \A j \in Ids : j # i /\ Owns(j) /\ Alone(j) =>
                        streams'[transfers[j].handle] = streams[transfers[j].handle]
<1> DEFINE a == transfers[i].handle
           s == streams[a]
           open == [streams EXCEPT ![a] = Closed]
           part == Path(i, "part")
           final == Path(i, "final")
           ok == [transfers[i] EXCEPT !.state = "COMPLETED"]
           ko == [transfers[i] EXCEPT !.state = "FAILED"]
<1>1. a \in Addresses /\ s # Closed /\ s.path \in Own(i) /\ transfers[i] \in Transfer
  BY OwnerAt DEF FInv, TypeOK
<1>2. PICK d \in FcloseOutcomes(a) :
        /\ Finalize(i, a, d)
        /\ lossy' = IF streams[a] # Closed /\ d # Flushed(streams[a], <<>>)
                    THEN lossy \cup {i} ELSE lossy
  BY DEF Done
<1>3. /\ d \in {disk, Flushed(s, <<>>)}
      /\ i \notin lossy' => d = Flushed(s, <<>>)
  BY <1>1, <1>2 DEF FcloseOutcomes
<1>4. d \in [Paths -> File \cup {NoFile}]
  BY <1>1, FcloseEffect
<1>5. \A p \in Paths : p # s.path => d[p] = disk[p]
  <2>1. <<>> \in Seq(Data)
    OBVIOUS
  <2>2. \A p \in Paths : p # s.path => Flushed(s, <<>>)[p] = disk[p]
    BY <1>1, <2>1, FlushedAt
  <2> QED BY <1>3, <2>2
<1>6. /\ part \in Paths /\ final \in Paths /\ part # final
      /\ part \in Own(i) /\ final \in Own(i)
  BY PathFacts DEF FInv, Own
<1>7. /\ ok.handle = a /\ ok.expected = transfers[i].expected /\ ok.state = "COMPLETED"
      /\ ko.handle = a /\ ko.expected = transfers[i].expected /\ ko.state = "FAILED"
  BY <1>1 DEF Transfer
<1>8. /\ open \in [Addresses -> Stream \cup {Closed}]
      /\ \A b \in Addresses : b # a => open[b] = streams[b]
  BY <1>1 DEF FInv, TypeOK
<1>9. \/ /\ disk' = [d EXCEPT ![final] = d[part], ![part] = NoFile]
         /\ streams' = Renamed(i, open)
         /\ transfers' = [transfers EXCEPT ![i] = ok]
      \/ /\ disk' = d
         /\ streams' = open
         /\ transfers' = [transfers EXCEPT ![i] = ko]
  BY <1>2 DEF Finalize
<1> HIDE DEF open, ok, ko, part, final
<1>10. ASSUME NEW j \in Ids, j # i, Owns(j), Alone(j)
       PROVE  streams'[transfers[j].handle] = streams[transfers[j].handle]
  <2> DEFINE b == transfers[j].handle
  <2>1. /\ b \in Addresses /\ b # a /\ streams[b] # Closed
        /\ streams[b].path = Path(j, "part")
    BY <1>10, OwnerAt DEF FInv, HandlesApart
  <2>2. open[b] = streams[b]
    BY <1>8, <2>1
  <2>3. Path(j, "part") \notin {Path(i, "part"), Path(i, "final")}
    BY <1>10, NotOthers DEF Own
  <2>4. Renamed(i, open)[b] = open[b]
    BY <1>8, <2>1, <2>2, <2>3, RenamedAt DEF FInv
  <2> QED BY <1>9, <2>2, <2>4
<1>11. \A j \in Ids : j # i => transfers'[j] = transfers[j]
  BY <1>9 DEF FInv, TypeOK
<1>12. /\ transfers'[i].handle = a /\ transfers'[i].expected = transfers[i].expected
       /\ \/ /\ transfers'[i].state = "COMPLETED"
             /\ disk'[final] = d[part] /\ disk'[part] = NoFile
          \/ /\ transfers'[i].state = "FAILED"
             /\ disk'[final] = d[final] /\ disk'[part] = d[part]
       /\ \A p \in Paths : p \notin Own(i) => disk'[p] = disk[p]
  <2>1. /\ transfers'[i].handle = a /\ transfers'[i].expected = transfers[i].expected
        /\ \/ /\ transfers'[i].state = "COMPLETED"
              /\ disk'[final] = d[part] /\ disk'[part] = NoFile
           \/ /\ transfers'[i].state = "FAILED"
              /\ disk'[final] = d[final] /\ disk'[part] = d[part]
    BY <1>4, <1>6, <1>7, <1>9 DEF FInv, TypeOK
  <2>2. \A p \in Paths \ {part, final} : disk'[p] = d[p]
    BY <1>4, <1>6, <1>9
  <2>3. \A p \in Paths : p \notin Own(i) => disk'[p] = disk[p]
    BY <1>1, <1>5, <1>6, <2>2
  <2> QED BY <2>1, <2>3
<1> QED BY <1>3, <1>5, <1>10, <1>11, <1>12 DEF part, final

LEMMA DoneContent ==
    ASSUME FInv, ContentInv, NEW c \in Conns, NEW i \in Ids, Done(c, i)
    PROVE  ContentInv'
<1> DEFINE a == transfers[i].handle
           s == streams[a]
           part == Path(i, "part")
           final == Path(i, "final")
<1>1. /\ a # Null /\ ub' = (ub \/ i \in dangling) /\ dangling' = dangling \cup {i}
      /\ lossy \subseteq lossy' /\ UNCHANGED <<folder, nextId, consent, disorder>>
      /\ i < nextId
  BY KnownIsOld DEF Done, MaySend, FInv
<1> SUFFICES ASSUME ~ub', NEW j \in Ids, j \notin disorder' \cup lossy', Alone(j)
             PROVE  Content(j)'
  BY <1>1, PathsKept DEF ContentInv
<1>2. ~ub /\ Owns(i) /\ Content(j)
  BY <1>1 DEF Owns, ContentInv
<1>3. PICK d \in {disk, Flushed(s, <<>>)} :
        /\ i \notin lossy' => d = Flushed(s, <<>>)
        /\ transfers'[i].state = "COMPLETED" => disk'[final] = d[part]
        /\ \A p \in Paths : p \notin Own(i) => disk'[p] = disk[p]
        /\ transfers'[i].expected = transfers[i].expected
        /\ \A l \in Ids : l # i => transfers'[l] = transfers[l]
        /\ \A l \in Ids : l # i /\ Owns(l) /\ Alone(l) =>
              streams'[transfers[l].handle] = streams[transfers[l].handle]
  BY <1>1, <1>2, DoneTouches
<1>4. CASE j = i
  <2>1. ~Owns(i)' /\ i \in consent'
    BY <1>1, <1>2 DEF Owns, FInv, HandlesExplained
  <2>2. d = Flushed(s, <<>>)
    BY <1>3, <1>4
  <2>3. /\ a \in Addresses /\ s # Closed /\ s.path = part /\ part # Unlinked
        /\ s.pos \in Nat /\ s.buf \in Seq(Data) /\ final' = final
    BY <1>1, <1>2, <1>4, OwnerAt, PathFacts, PathsKept DEF Stream, FInv
  <2>4. /\ disk[part].data = Prefix(i, s.pos)
        /\ s.pos + Len(s.buf) = transfers[i].expected
        /\ \A n \in 1 .. Len(s.buf) : s.buf[n] = Chunk(i, s.pos + n - 1)
    BY <1>2, <1>4 DEF Content, Holds
  <2>5. Put(Prefix(i, s.pos), s.pos, s.buf) = Prefix(i, transfers[i].expected)
    BY <2>3, <2>4, PutPrefix
  <2>6. d[part].data = Put(disk[part].data, s.pos, s.buf \o <<>>)
    <3>1. <<>> \in Seq(Data)
      OBVIOUS
    <3>2. Flushed(s, <<>>)[s.path].data = Put(disk[s.path].data, s.pos, s.buf \o <<>>)
      BY <2>3, <3>1, FlushedAt
    <3> QED BY <2>2, <2>3, <3>2
  <2>7. s.buf \o <<>> = s.buf
    BY <2>3, ConcatEmptySeq
  <2>8. d[part].data = Prefix(i, transfers[i].expected)
    BY <2>4, <2>5, <2>6, <2>7
  <2> QED BY <1>3, <1>4, <2>1, <2>3, <2>8 DEF Content
<1>5. CASE j # i
  <2>1. /\ disk'[Path(j, "part")] = disk[Path(j, "part")]
        /\ disk'[Path(j, "final")] = disk[Path(j, "final")]
    BY <1>1, <1>3, <1>5, NotOthers
  <2>2. Path(j, "part")' = Path(j, "part") /\ Path(j, "final")' = Path(j, "final")
    BY <1>1, PathsKept
  <2> QED BY <1>1, <1>2, <1>3, <1>5, <2>1, <2>2, OtherContent
<1> QED BY <1>4, <1>5

LEMMA StepContent == FInv /\ ContentInv /\ [Next]_vars => ContentInv'
<1> SUFFICES ASSUME FInv, ContentInv, [Next]_vars PROVE ContentInv'
  OBVIOUS
<1>1. ASSUME UNCHANGED <<storeVars, histVars>> PROVE ContentInv'
  BY <1>1, KeepContent DEF storeVars, histVars
<1>2. CASE SessionStep \/ UNCHANGED vars
  BY <1>1, <1>2 DEF SessionStep, vars
<1>3. CASE Restart
  BY <1>3 DEF Restart, ContentInv, Content, Owns, NoTransfer
<1>4. ASSUME NEW c \in Conns, FileStep(c) PROVE ContentInv'
  <2>1. CASE \E r \in Users, n \in FileSizes, f \in OtherFolders \cup {nextId} :
                Offer(c, r, n, f)
    BY <2>1, OfferContent
  <2>2. CASE \E r \in Users \cup {NoUser}, wf \in BOOLEAN : OfferRefused(c, r, wf)
    BY <1>1, <2>2 DEF OfferRefused
  <2>3. ASSUME NEW i \in Ids, NEW a \in Addresses, Accept(c, i, a) PROVE ContentInv'
    BY <2>3, AcceptContent
  <2>4. ASSUME NEW i \in Ids,
               \/ AcceptCannotOpen(c, i) \/ Reject(c, i)
               \/ ChunkEmpty(c, i) \/ DoneNeverOpened(c, i)
        PROVE  ContentInv'
    BY <2>4, FailContent
  <2>5. ASSUME NEW i \in Ids, NEW wf \in BOOLEAN,
               AcceptRefused(c, i, wf) \/ Ignored(c, i, wf)
        PROVE  ContentInv'
    BY <1>1, <2>5 DEF AcceptRefused, Ignored
  <2>6. ASSUME NEW i \in Ids, NEW k \in 0 .. MaxIndex, ChunkWritten(c, i, k)
        PROVE  ContentInv'
    BY <2>6, ChunkWrittenContent
  <2>7. ASSUME NEW i \in Ids, NEW k \in 0 .. MaxIndex, ChunkToClosed(c, i, k)
        PROVE  ContentInv'
    BY <2>7 DEF ChunkToClosed, ContentInv
  <2>8. ASSUME NEW i \in Ids, ChunkWriteFails(c, i) PROVE ContentInv'
    BY <2>8, ChunkWriteFailsContent
  <2>9. ASSUME NEW i \in Ids, Done(c, i) PROVE ContentInv'
    BY <2>9, DoneContent
  <2> QED BY <1>4, <2>1, <2>2, <2>3, <2>4, <2>5, <2>6, <2>7, <2>8, <2>9 DEF FileStep
<1> QED BY <1>2, <1>3, <1>4 DEF Next

(***************************************************************************)
(* The file of a COMPLETED transfer that was accepted once, and whose      *)
(* chunks came in order without a failed write or fclose, holds exactly the*)
(* chunks that were counted, whatever other transfers do in between and    *)
(* however many fflush calls failed before, as long as no other offer's    *)
(* file name leads into its directory (tcp_session.cpp:541-551, 585-599;   *)
(* file_store.cpp:76-129).                                                 *)
(***************************************************************************)
THEOREM CompletedFilesAreComplete == Spec => []CompletedContent
<1>1. ContentInv => CompletedContent
  BY DEF ContentInv, Content, CompletedContent
<1> QED BY <1>1, InitContent, StepContent, Invariant, PTL DEF Spec

-----------------------------------------------------------------------------
\* Who touches which file

\* A step may change file p because of transfer i.
Touches(i, p) ==
    /\ i < nextId /\ folder[i] = p[1]
    /\ IF p[2] = "part" /\ IsEmptyFile(disk'[p])
       THEN LoggedIn(transfers[i].receiver)
       ELSE LoggedIn(transfers[i].sender)

LEMMA OwnPath ==
    ASSUME FInv, NEW i \in Ids, NEW p \in Paths, p \in Own(i)
    PROVE  /\ folder[i] = p[1]
           /\ p[2] = "part" => p = Path(i, "part")
           /\ p = Path(i, "part") \/ p = Path(i, "final")
BY DEF Own, Path, Paths, Unlinked

LEMMA AcceptTouches ==
    ASSUME FInv, NEW c \in Conns, NEW i \in Ids, NEW a \in Addresses, Accept(c, i, a),
           NEW p \in Paths, disk'[p] # disk[p]
    PROVE  Touches(i, p)
<1> DEFINE part == Path(i, "part")
           f == [by |-> epoch, data |-> <<>>]
<1>1. /\ disk' = [disk EXCEPT ![part] = f]
      /\ transfers[i].receiver = user[c] /\ i < nextId
  BY KnownIsOld DEF Accept, OpenForWrite, MayAnswer, FInv
<1>2. IsEmptyFile(f)
  <2>1. <<>> \in Seq(Data) /\ epoch \in 0 .. MaxRestarts
    BY DEF FInv, TypeOK
  <2>2. f \in File
    BY <2>1 DEF File
  <2> QED BY <2>2, NoFileAssumption DEF IsEmptyFile
<1> HIDE DEF f
<1>3. p = part /\ disk'[p] = f
  BY <1>1 DEF FInv, TypeOK
<1>4. folder[i] = p[1] /\ p[2] = "part"
  BY <1>3 DEF Path
<1>5. LoggedIn(transfers[i].receiver)
  BY <1>1 DEF LoggedIn
<1> QED BY <1>1, <1>2, <1>3, <1>4, <1>5 DEF Touches

\* Data that reaches a file never leaves it empty.
LEMMA FlushedNotEmpty ==
    ASSUME FInv, NEW a \in Addresses, streams[a] # Closed, NEW more \in Seq(Data),
           NEW p \in Paths, Flushed(streams[a], more)[p] # disk[p]
    PROVE  ~IsEmptyFile(Flushed(streams[a], more)[p])
<1> DEFINE s == streams[a]
           f == disk[p]
           buf == s.buf \o more
<1>1. p = s.path /\ p # Unlinked
  BY FlushedAt DEF Flushed
<1>2. /\ f \in File /\ f.data \in Seq(Data) /\ s.pos \in Nat /\ s.buf \in Seq(Data)
  BY <1>1, FlushedAt, StreamAt DEF File
<1>3. buf \in Seq(Data)
  BY <1>2, ConcatProperties
<1>4. /\ Flushed(s, more)[p] = [f EXCEPT !.data = Put(f.data, s.pos, buf)]
      /\ Flushed(s, more)[p].data = Put(f.data, s.pos, buf)
  BY <1>1, FlushedAt
<1> HIDE DEF s, f, buf
<1>5. CASE buf = <<>>
  <2>1. Put(f.data, s.pos, buf) = f.data
    BY <1>5 DEF Put
  <2>2. [f EXCEPT !.data = f.data] = f
    BY <1>2 DEF File
  <2> QED BY <1>4, <2>1, <2>2 DEF s, f
<1>6. CASE buf # <<>>
  <2>1. Put(f.data, s.pos, buf) # <<>>
    BY <1>2, <1>3, <1>6, PutNotEmpty
  <2> QED BY <1>4, <2>1 DEF IsEmptyFile, s
<1> QED BY <1>5, <1>6

LEMMA ChunkTouches ==
    ASSUME FInv, ~ub, NEW c \in Conns, NEW i \in Ids, NEW k \in 0 .. MaxIndex,
           ChunkWritten(c, i, k) \/ ChunkWriteFails(c, i),
           NEW p \in Paths, disk'[p] # disk[p]
    PROVE  Touches(i, p)
<1> DEFINE a == transfers[i].handle
<1>1. /\ TakesChunks(i) /\ transfers[i].sender = user[c]
      /\ \E x \in {Chunk(i, k), Torn} : WriteThrough(a, x) \/ UNCHANGED <<disk, streams>>
  BY DEF ChunkWritten, ChunkWriteFails, MaySend, WriteShort, WriteThrough
<1>2. PICK x \in Data : WriteThrough(a, x) \/ UNCHANGED <<disk, streams>>
  BY <1>1, DataFacts, TransferBounds
<1>3. Owns(i) /\ i < nextId /\ a \in Addresses /\ streams[a] # Closed
  BY <1>1, TakerOwns, OwnerAt
<1>4. folder[i] = p[1]
  BY <1>2, <1>3, WriteTouches, OwnPath
<1>5. disk' = Flushed(streams[a], <<x>>)
  BY <1>2 DEF WriteThrough
<1>6. <<x>> \in Seq(Data)
  OBVIOUS
<1>7. ~IsEmptyFile(disk'[p])
  BY <1>3, <1>5, <1>6, FlushedNotEmpty
<1>8. LoggedIn(transfers[i].sender)
  BY <1>1 DEF LoggedIn
<1> QED BY <1>3, <1>4, <1>7, <1>8 DEF Touches

LEMMA DoneTouchesOwn ==
    ASSUME FInv, ~ub', NEW c \in Conns, NEW i \in Ids, Done(c, i),
           NEW p \in Paths, disk'[p] # disk[p]
    PROVE  Touches(i, p)
<1> DEFINE a == transfers[i].handle
           s == streams[a]
           part == Path(i, "part")
<1>1. ~ub /\ Owns(i) /\ transfers[i].sender = user[c] /\ i < nextId
  BY KnownIsOld DEF Done, MaySend, Owns, FInv
<1>2. PICK d \in {disk, Flushed(s, <<>>)} :
        /\ disk'[part] \in {NoFile, d[part]}
        /\ \A q \in Paths : q \notin Own(i) => disk'[q] = disk[q]
  BY <1>1, DoneTouches
<1>3. folder[i] = p[1] /\ (p[2] = "part" => p = part)
  BY <1>2, OwnPath
<1>4. p[2] = "part" => ~IsEmptyFile(disk'[p])
  <2> SUFFICES ASSUME p[2] = "part", disk'[p] # NoFile PROVE ~IsEmptyFile(disk'[p])
    BY DEF IsEmptyFile
  <2>1. disk'[p] = d[p] /\ d = Flushed(s, <<>>)
    BY <1>2, <1>3
  <2>2. <<>> \in Seq(Data)
    OBVIOUS
  <2>3. a \in Addresses /\ s # Closed
    BY <1>1, OwnerAt
  <2> QED BY <2>1, <2>2, <2>3, FlushedNotEmpty
<1>5. LoggedIn(transfers[i].sender)
  BY <1>1 DEF LoggedIn
<1> QED BY <1>1, <1>3, <1>4, <1>5 DEF Touches

LEMMA StepTouches ==
    ASSUME FInv, [Next]_vars, ~ub', NEW p \in Paths, disk'[p] # disk[p]
    PROVE  \E i \in Ids : Touches(i, p)
<1>1. disk' # disk
  OBVIOUS
<1>2. ~(SessionStep \/ Restart \/ UNCHANGED vars)
  BY <1>1 DEF SessionStep, Restart, storeVars, vars
<1>3. PICK c \in Conns : FileStep(c)
  BY <1>2 DEF Next
<1>4. ASSUME NEW i \in Ids, NEW a \in Addresses, Accept(c, i, a)
      PROVE  Touches(i, p)
  BY <1>4, AcceptTouches
<1>5. ASSUME NEW i \in Ids, NEW k \in 0 .. MaxIndex, ChunkWritten(c, i, k)
      PROVE  Touches(i, p)
  <2>1. ~ub
    BY <1>5 DEF ChunkWritten
  <2> QED BY <1>5, <2>1, ChunkTouches
<1>6. ASSUME NEW i \in Ids, ChunkWriteFails(c, i) PROVE Touches(i, p)
  <2>1. ~ub /\ 0 \in 0 .. MaxIndex
    BY <1>6, TransferBounds DEF ChunkWriteFails
  <2> QED BY <1>6, <2>1, ChunkTouches
<1>7. ASSUME NEW i \in Ids, Done(c, i) PROVE Touches(i, p)
  BY <1>7, DoneTouchesOwn
<1>8. /\ ~\E r \in Users, n \in FileSizes, f \in OtherFolders \cup {nextId} : Offer(c, r, n, f)
      /\ ~\E r \in Users \cup {NoUser}, wf \in BOOLEAN : OfferRefused(c, r, wf)
  BY <1>1 DEF Offer, OfferRefused, storeVars
<1>9. ASSUME NEW i \in Ids
      PROVE  ~ \/ AcceptCannotOpen(c, i) \/ Reject(c, i) \/ ChunkEmpty(c, i)
               \/ DoneNeverOpened(c, i)
               \/ \E k \in 0 .. MaxIndex : ChunkToClosed(c, i, k)
               \/ \E wf \in BOOLEAN : AcceptRefused(c, i, wf) \/ Ignored(c, i, wf)
  BY <1>1 DEF AcceptCannotOpen, Reject, ChunkEmpty, DoneNeverOpened, ChunkToClosed,
              AcceptRefused, Ignored, storeVars
<1> QED BY <1>3, <1>4, <1>5, <1>6, <1>7, <1>8, <1>9 DEF FileStep

(***************************************************************************)
(* Files are only touched by the parties of the offers that lead to them:  *)
(* until a FILE* is closed twice, a step that changes a file in a directory*)
(* needs, of some offer whose file name leads into this directory, the     *)
(* receiver logged in to create or truncate a .part file, and the sender   *)
(* logged in otherwise (tcp_session.cpp:431, 527, 579;                     *)
(* file_store.cpp:119-129).                                                *)
(***************************************************************************)
THEOREM FilesBelongToTheirParties == Spec => OnlyPartiesTouchFiles
<1>1. FInv /\ [Next]_vars =>
        [~ub' => \A p \in Paths : disk'[p] # disk[p] =>
            \E i \in Ids :
                /\ i < nextId /\ folder[i] = p[1]
                /\ IF p[2] = "part" /\ IsEmptyFile(disk'[p])
                   THEN LoggedIn(transfers[i].receiver)
                   ELSE LoggedIn(transfers[i].sender)]_vars
  BY StepTouches DEF Touches
<1> QED BY <1>1, Invariant, PTL DEF Spec, OnlyPartiesTouchFiles
=============================================================================
