---------------------------- MODULE FileTransfer ----------------------------
(***************************************************************************)
(* Store-and-forward file transfers in the Core server: TransferManager    *)
(* (core/src/transfer), FileStore (core/src/storage) and the four          *)
(* FILE_* handlers of TcpSession (core/src/net/tcp_session.cpp:320-616).   *)
(*                                                                         *)
(* Connections are those of SessionDirectory.  Every handler is atomic     *)
(* (one io_context thread), clients are arbitrary: any connection may send *)
(* any FILE_* message at any time, so the model shows what the server      *)
(* itself guarantees.                                                      *)
(*                                                                         *)
(* Data: a file is its sequence of chunks, a chunk is named by its transfer*)
(* and index.  A file name is reduced to the directory that it leads into: *)
(* the transfer's own, named after its id, or another one, because the name*)
(* is used as the client sent it.  Names that lead into one directory are  *)
(* taken for the same name there: such transfers use the same .part file   *)
(* and the same final file.  FILE* pointers are addresses that fopen may   *)
(* hand out again after fclose.                                            *)
(***************************************************************************)
EXTENDS SessionDirectory, Sequences

CONSTANTS
    MaxTransfers,   \* bound: transfers created by one server process
    FileSizes,      \* sizes of offered files, in chunks
    OtherFolders,   \* directories a file name may lead into besides its transfer's
    MaxIndex,       \* bound: chunk_index values clients send
    MaxData,        \* bound: chunks written through one FILE*
    Addresses,      \* addresses fopen may return; fopen fails when all are open
    Null,           \* nullptr
    NoFile,         \* no such file on disk
    Closed,         \* no stream is open at this address
    MaxRestarts,    \* bound: restarts of the server process
    Faults,         \* which system calls may fail, see FaultKinds
    RepeatDone      \* whether FILE_DONE may come again after it closed the file

FaultKinds == {"open", "write", "flush", "rename", "restart"}

ASSUME TransferBounds ==
    /\ MaxTransfers \in Nat /\ MaxIndex \in Nat
    /\ MaxData \in Nat /\ MaxRestarts \in Nat
    /\ FileSizes \subseteq Nat
ASSUME FaultsAssumption == Faults \subseteq FaultKinds
ASSUME RepeatDoneAssumption == RepeatDone \in BOOLEAN
ASSUME NullAssumption == Null \notin Addresses

VARIABLES
    transfers,      \* TransferManager::transfers_
    folder,         \* the directory that each transfer's filename leads into
    nextId,         \* next_transfer_id_
    streams,        \* the open FILE objects
    disk,           \* ./storage/transfers
    sent,           \* the frames the last handler passed to send(), in order
    epoch,          \* how often the server has been restarted
    \* history
    consent,        \* transfers their receiver accepted
    dangling,       \* transfers whose file_handle has been passed to fclose
    disorder,       \* transfers that were accepted twice, sent a chunk out of turn
                    \* or had a short write
    lossy,          \* transfers whose fclose dropped buffered chunks
    ub              \* a dangling FILE* has been used

storeVars == <<transfers, folder, nextId, streams, disk>>
histVars == <<epoch, consent, dangling, disorder, lossy, ub>>
vars == <<dirVars, storeVars, sent, histVars>>

Ids == 1 .. MaxTransfers

\* storage/transfers/<id>, and 0 for any other directory.
Folders == 0 .. MaxTransfers
ASSUME FoldersAssumption == OtherFolders \subseteq Folders

\* get_temp_path and get_file_path of transfer i.
Path(i, place) == <<folder[i], place>>
Paths == Folders \X {"part", "final"}

\* No other offer's file name leads into the directory of transfer i.
Alone(i) == \A j \in Ids : j # i /\ j < nextId => folder[j] # folder[i]

States == {"NONE", "OFFERED", "ACCEPTED", "RECEIVING", "COMPLETED", "FAILED"}

\* The id is not in transfers_.
NoTransfer ==
    [sender |-> NoUser, senderToken |-> NoToken, receiver |-> NoUser, chunks |-> 0,
     state |-> "NONE", expected |-> 0, handle |-> Null]

Transfer ==
    [sender : Users \cup {NoUser}, senderToken : Tokens \cup {NoToken},
     receiver : Users \cup {NoUser}, chunks : FileSizes \cup {0},
     state : States, expected : 0 .. MaxIndex + 1, handle : Addresses \cup {Null}]

\* What one FILE_CHUNK puts into a file; Torn is the part of a chunk that a
\* short fwrite leaves behind, Hole a range skipped over.
Chunk(i, k) == [id |-> i, index |-> k]
Torn == [id |-> 0, index |-> 0]
Hole == [id |-> 0, index |-> 1]
Data == [id : 0 .. MaxTransfers, index : Nat]

\* path: the file (Unlinked once another file was renamed over it);
\* pos: chunks written through this stream; buf: data fflush failed to write.
Unlinked == <<0, "unlinked">>
Stream == [path : Paths \cup {Unlinked}, pos : Nat, buf : Seq(Data)]

\* by: the server run that created the file.
File == [by : 0 .. MaxRestarts, data : Seq(Data)]

ASSUME ClosedAssumption == Closed \notin Stream
ASSUME NoFileAssumption == NoFile \notin File

Frame == [to : Conns, type : {"OFFER_RESP", "ACCEPT_RESP", "RESULT"}, ok : BOOLEAN]

TypeOK ==
    /\ DirTypeOK
    /\ transfers \in [Ids -> Transfer]
    /\ folder \in [Ids -> Folders]
    /\ nextId \in 1 .. MaxTransfers + 1
    /\ streams \in [Addresses -> Stream \cup {Closed}]
    /\ disk \in [Paths -> File \cup {NoFile}]
    /\ sent \in Seq(Frame)
    /\ epoch \in 0 .. MaxRestarts
    /\ consent \subseteq Ids
    /\ dangling \subseteq Ids
    /\ disorder \subseteq Ids
    /\ lossy \subseteq Ids
    /\ ub \in BOOLEAN

Init ==
    /\ DirInit
    /\ transfers = [i \in Ids |-> NoTransfer]
    /\ folder = [i \in Ids |-> i]
    /\ nextId = 1
    /\ streams = [a \in Addresses |-> Closed]
    /\ disk = [p \in Paths |-> NoFile]
    /\ sent = <<>>
    /\ epoch = 0
    /\ consent = {}
    /\ dangling = {}
    /\ disorder = {}
    /\ lossy = {}
    /\ ub = FALSE

-----------------------------------------------------------------------------
\* FileStore

Known(i) == transfers[i].state # "NONE"

\* The contents of a file after buf is written at offset pos.
Put(data, pos, buf) ==
    LET end == pos + Len(buf) IN
    IF buf = <<>> THEN data
    ELSE [n \in 1 .. (IF end > Len(data) THEN end ELSE Len(data)) |->
            IF pos < n /\ n <= end THEN buf[n - pos]
            ELSE IF n <= Len(data) THEN data[n] ELSE Hole]

\* The disk after what stream s holds, followed by more, reaches its file.
Flushed(s, more) ==
    IF s.path = Unlinked THEN disk
    ELSE [disk EXCEPT ![s.path].data = Put(@, s.pos, s.buf \o more)]

\* open_for_write: fopen(temp_path, "wb") creates or truncates the .part file.
OpenForWrite(i, a) ==
    /\ streams[a] = Closed
    /\ streams' = [streams EXCEPT ![a] =
            [path |-> Path(i, "part"), pos |-> 0, buf |-> <<>>]]
    /\ disk' = [disk EXCEPT ![Path(i, "part")] = [by |-> epoch, data |-> <<>>]]

\* Only the transfer's own directory is created first: another one need not exist.
CannotOpen(i) ==
    "open" \in Faults \/ folder[i] # i \/ \A a \in Addresses : streams[a] # Closed

\* write_chunk: fwrite of x succeeds; so does the fflush, or its failure is only
\* logged and the data stays in the stream's buffer.
WriteThrough(a, x) ==
    \/ /\ disk' = Flushed(streams[a], <<x>>)
       /\ streams' = [streams EXCEPT ![a].pos = @ + Len(streams[a].buf) + 1,
                                     ![a].buf = <<>>]
    \/ /\ "flush" \in Faults
       /\ streams' = [streams EXCEPT ![a].buf = Append(@, x)]
       /\ UNCHANGED disk

\* write_chunk: a short fwrite, of nothing or of a part of the chunk.
WriteShort(a) ==
    /\ "write" \in Faults
    /\ \/ UNCHANGED <<disk, streams>>
       \/ /\ disk' = Flushed(streams[a], <<Torn>>)
          /\ streams' = [streams EXCEPT ![a].pos = @ + Len(streams[a].buf) + 1,
                                        ![a].buf = <<>>]

\* The disk after fclose: the buffer is written, or dropped when that fails
\* (finalize_file ignores fclose's result).  A closed stream writes nothing.
FcloseOutcomes(a) ==
    IF streams[a] = Closed THEN {disk}
    ELSE {Flushed(streams[a], <<>>)}
         \cup (IF "flush" \in Faults THEN {disk} ELSE {})

\* Streams follow the file when it is renamed, and keep a replaced one open.
Renamed(i, open) ==
    [a \in Addresses |->
        IF open[a] = Closed THEN Closed
        ELSE IF open[a].path = Path(i, "part")
             THEN [open[a] EXCEPT !.path = Path(i, "final")]
        ELSE IF open[a].path = Path(i, "final")
             THEN [open[a] EXCEPT !.path = Unlinked]
        ELSE open[a]]

\* Mutant: finalize_file reports success when rename fails.
FinalizeUnchecked(i, a, d) ==
    /\ disk' = IF d[Path(i, "part")] = NoFile \/ "rename" \in Faults THEN d
               ELSE [d EXCEPT ![Path(i, "final")] = d[Path(i, "part")],
                              ![Path(i, "part")] = NoFile]
    /\ streams' = [streams EXCEPT ![a] = Closed]
    /\ transfers' = [transfers EXCEPT ![i].state = "COMPLETED"]

\* Mutant: finalize_file renames first, and returns without fclose when that fails.
FinalizeRenameFirst(i, a, d) ==
    LET part == Path(i, "part")
        final == Path(i, "final")
    IN  \/ /\ d[part] # NoFile
           /\ disk' = [d EXCEPT ![final] = d[part], ![part] = NoFile]
           /\ streams' = Renamed(i, [streams EXCEPT ![a] = Closed])
           /\ transfers' = [transfers EXCEPT ![i].state = "COMPLETED"]
        \/ /\ d[part] = NoFile \/ "rename" \in Faults
           /\ transfers' = [transfers EXCEPT ![i].state = "FAILED"]
           /\ UNCHANGED <<disk, streams>>

\* finalize_file after fclose left the disk as d: rename .part to the final
\* name.  TRUE and COMPLETED when that works, FALSE and FAILED otherwise.
Finalize(i, a, d) ==
    LET open == [streams EXCEPT ![a] = Closed]
        part == Path(i, "part")
        final == Path(i, "final")
    IN  \/ /\ d[part] # NoFile
           /\ disk' = [d EXCEPT ![final] = d[part], ![part] = NoFile]
           /\ streams' = Renamed(i, open)
           /\ transfers' = [transfers EXCEPT ![i].state = "COMPLETED"]
        \/ /\ d[part] = NoFile \/ "rename" \in Faults
           /\ disk' = d
           /\ streams' = open
           /\ transfers' = [transfers EXCEPT ![i].state = "FAILED"]

-----------------------------------------------------------------------------
\* TransferManager

\* create_transfer: the next id, in state OFFERED and without a FILE*.  f is the
\* directory that the file name leads into.
CreateTransfer(c, receiver, n, f) ==
    /\ nextId <= MaxTransfers
    /\ transfers' = [transfers EXCEPT ![nextId] =
            [sender |-> user[c], senderToken |-> token[c], receiver |-> receiver,
             chunks |-> n, state |-> "OFFERED", expected |-> 0, handle |-> Null]]
    /\ folder' = [folder EXCEPT ![nextId] = f]
    /\ nextId' = nextId + 1

\* Mutant: chunks are counted whatever their index.
MarkedAlways(x, k) ==
    [x EXCEPT !.expected = @ + 1,
              !.state = IF @ = "ACCEPTED" THEN "RECEIVING" ELSE @]

\* mark_chunk_received: only the expected index is counted.
Marked(x, k) ==
    IF k # x.expected THEN x
    ELSE [x EXCEPT !.expected = @ + 1,
                   !.state = IF @ = "ACCEPTED" THEN "RECEIVING" ELSE @]

Reply(c, type, ok) == <<[to |-> c, type |-> type, ok |-> ok]>>

\* Mutant: the sender hears of the first answer only.
NotifyFirst(i, ok) ==
    LET t == transfers[i].senderToken IN
    IF transfers[i].state = "OFFERED" /\ t # NoToken /\ holder[t] # NoConn
    THEN Reply(holder[t], "ACCEPT_RESP", ok) ELSE <<>>

\* The frame for the session found under the transfer's sender_token, if any.
NotifySender(i, ok) ==
    LET t == transfers[i].senderToken IN
    IF t # NoToken /\ holder[t] # NoConn
    THEN Reply(holder[t], "ACCEPT_RESP", ok) ELSE <<>>

-----------------------------------------------------------------------------
\* handle_file_offer_req

Offer(c, receiver, n, f) ==
    /\ IsAuthenticated(c)
    /\ CreateTransfer(c, receiver, n, f)
    /\ sent' = Reply(c, "OFFER_RESP", TRUE)
    /\ UNCHANGED <<dirVars, streams, disk, histVars>>

\* Not authenticated, a payload that deserialize rejects, or a receiver (here
\* NoUser) that the users table does not know.
OfferRefused(c, receiver, wellFormed) ==
    /\ ~(IsAuthenticated(c) /\ wellFormed /\ receiver \in Users)
    /\ sent' = Reply(c, "OFFER_RESP", FALSE)
    /\ UNCHANGED <<dirVars, storeVars, histVars>>

-----------------------------------------------------------------------------
\* handle_file_accept_req

MayAnswer(c, i) ==
    /\ IsAuthenticated(c)
    /\ Known(i)
    /\ transfers[i].receiver = user[c]

\* Mutant: a repeated accept keeps the FILE* it finds in the transfer.
AcceptKeepsHandle(c, i, a) ==
    /\ MayAnswer(c, i)
    /\ OpenForWrite(i, a)
    /\ transfers' = [transfers EXCEPT ![i].handle = IF @ = Null THEN a ELSE @,
                                      ![i].state = "ACCEPTED"]
    /\ sent' = NotifySender(i, TRUE) \o Reply(c, "ACCEPT_RESP", TRUE)
    /\ consent' = consent \cup {i}
    /\ disorder' = IF i \in consent THEN disorder \cup {i} ELSE disorder
    /\ dangling' = dangling \ {i}
    /\ UNCHANGED <<dirVars, folder, nextId, epoch, lossy, ub>>

\* accept = true and the .part file opens.  The state of the transfer is not
\* looked at: an earlier FILE* and the chunk counter stay as they are.
Accept(c, i, a) ==
    /\ MayAnswer(c, i)
    /\ OpenForWrite(i, a)
    /\ transfers' = [transfers EXCEPT ![i].handle = a, ![i].state = "ACCEPTED"]
    /\ sent' = NotifySender(i, TRUE) \o Reply(c, "ACCEPT_RESP", TRUE)
    /\ consent' = consent \cup {i}
    /\ disorder' = IF i \in consent THEN disorder \cup {i} ELSE disorder
    /\ dangling' = dangling \ {i}
    /\ UNCHANGED <<dirVars, folder, nextId, epoch, lossy, ub>>

AcceptCannotOpen(c, i) ==
    /\ MayAnswer(c, i)
    /\ CannotOpen(i)
    /\ transfers' = [transfers EXCEPT ![i].state = "FAILED"]
    /\ sent' = Reply(c, "ACCEPT_RESP", FALSE)
    /\ UNCHANGED <<dirVars, folder, nextId, streams, disk, histVars>>

\* accept = false.
Reject(c, i) ==
    /\ MayAnswer(c, i)
    /\ transfers' = [transfers EXCEPT ![i].state = "FAILED"]
    /\ sent' = NotifySender(i, FALSE) \o Reply(c, "ACCEPT_RESP", TRUE)
    /\ UNCHANGED <<dirVars, folder, nextId, streams, disk, histVars>>

AcceptRefused(c, i, wellFormed) ==
    /\ ~(wellFormed /\ MayAnswer(c, i))
    /\ sent' = Reply(c, "ACCEPT_RESP", FALSE)
    /\ UNCHANGED <<dirVars, storeVars, histVars>>

-----------------------------------------------------------------------------
\* handle_file_chunk and handle_file_done

\* Mutant: chunks are taken from any authenticated user.
MaySendAnyone(c, i) == IsAuthenticated(c) /\ Known(i)

MaySend(c, i) ==
    /\ IsAuthenticated(c)
    /\ Known(i)
    /\ transfers[i].sender = user[c]

TakesChunks(i) == transfers[i].state \in {"ACCEPTED", "RECEIVING"}

\* The chunk is written first and counted afterwards, if it is the expected one.
ChunkWritten(c, i, k) ==
    LET a == transfers[i].handle IN
    /\ MaySend(c, i) /\ TakesChunks(i)
    /\ a # Null /\ streams[a] # Closed
    /\ streams[a].pos + Len(streams[a].buf) < MaxData
    /\ WriteThrough(a, Chunk(i, k))
    /\ transfers' = [transfers EXCEPT ![i] = Marked(@, k)]
    /\ disorder' = IF k # transfers[i].expected THEN disorder \cup {i} ELSE disorder
    /\ sent' = <<>>
    /\ UNCHANGED <<dirVars, folder, nextId, epoch, consent, dangling, lossy, ub>>

ChunkWriteFails(c, i) ==
    LET a == transfers[i].handle IN
    /\ MaySend(c, i) /\ TakesChunks(i)
    /\ a # Null /\ streams[a] # Closed
    /\ streams[a].pos + Len(streams[a].buf) < MaxData
    /\ WriteShort(a)
    /\ transfers' = [transfers EXCEPT ![i].state = "FAILED"]
    /\ disorder' = disorder \cup {i}
    /\ sent' = <<>>
    /\ UNCHANGED <<dirVars, folder, nextId, epoch, consent, dangling, lossy, ub>>

\* Mutant: a chunk without data counts as received.
ChunkEmptyCounted(c, i) ==
    /\ MaySend(c, i) /\ TakesChunks(i)
    /\ transfers' = [transfers EXCEPT ![i] = Marked(@, 0)]
    /\ sent' = <<>>
    /\ UNCHANGED <<dirVars, folder, nextId, streams, disk, histVars>>

\* write_chunk refuses a chunk without data.
ChunkEmpty(c, i) ==
    /\ MaySend(c, i) /\ TakesChunks(i)
    /\ transfers' = [transfers EXCEPT ![i].state = "FAILED"]
    /\ sent' = <<>>
    /\ UNCHANGED <<dirVars, folder, nextId, streams, disk, histVars>>

\* fwrite on a closed FILE is undefined: it may look like a success or fail (or
\* end the process, see Restart).
ChunkToClosed(c, i, k) ==
    LET a == transfers[i].handle IN
    /\ MaySend(c, i) /\ TakesChunks(i)
    /\ a # Null /\ streams[a] = Closed
    /\ ub' = TRUE
    /\ \/ transfers' = [transfers EXCEPT ![i] = Marked(@, k)]
       \/ transfers' = [transfers EXCEPT ![i].state = "FAILED"]
    /\ sent' = <<>>
    /\ UNCHANGED <<dirVars, folder, nextId, streams, disk, epoch, consent, dangling,
                   disorder, lossy>>

\* Mutant: finalize_file goes on to rename without a FILE*.
DoneNeverOpenedRename(c, i) ==
    /\ MaySend(c, i)
    /\ transfers[i].handle = Null
    /\ transfers' = [transfers EXCEPT ![i].state = "COMPLETED"]
    /\ sent' = Reply(c, "RESULT", TRUE)
    /\ UNCHANGED <<dirVars, folder, nextId, streams, disk, histVars>>

\* FILE_DONE for a transfer that was never opened: finalize_file refuses.
DoneNeverOpened(c, i) ==
    /\ MaySend(c, i)
    /\ transfers[i].handle = Null
    /\ transfers' = [transfers EXCEPT ![i].state = "FAILED"]
    /\ sent' = Reply(c, "RESULT", FALSE)
    /\ UNCHANGED <<dirVars, folder, nextId, streams, disk, histVars>>

\* FILE_DONE otherwise, in any state: fclose, rename, COMPLETED or FAILED.
\* file_handle keeps its value, so a second FILE_DONE passes fclose a dangling
\* pointer, which may by then be the address of another transfer's stream.
Done(c, i) ==
    LET a == transfers[i].handle IN
    /\ MaySend(c, i)
    /\ a # Null
    /\ RepeatDone \/ i \notin dangling
    /\ \E d \in FcloseOutcomes(a) :
          /\ Finalize(i, a, d)
          /\ lossy' = IF streams[a] # Closed /\ d # Flushed(streams[a], <<>>)
                      THEN lossy \cup {i} ELSE lossy
    /\ sent' = Reply(c, "RESULT", transfers'[i].state = "COMPLETED")
    /\ ub' = (ub \/ i \in dangling)
    /\ dangling' = dangling \cup {i}
    /\ UNCHANGED <<dirVars, folder, nextId, epoch, consent, disorder>>

\* FILE_CHUNK and FILE_DONE that are refused are only logged.
Ignored(c, i, wellFormed) ==
    /\ ~(wellFormed /\ MaySend(c, i)) \/ ~TakesChunks(i)
    /\ sent' = <<>>
    /\ UNCHANGED <<dirVars, storeVars, histVars>>

-----------------------------------------------------------------------------
\* Sessions come and go; the transfers are not told.
SessionStep ==
    /\ DirNext
    /\ sent' = <<>>
    /\ UNCHANGED <<storeVars, histVars>>

\* The server process ends (stopped, killed or crashed) and is started again:
\* TransferManager and SessionManager start empty, ids start at 1, the files of
\* the earlier run are still there.
Restart ==
    /\ "restart" \in Faults
    /\ epoch < MaxRestarts
    /\ epoch' = epoch + 1
    /\ token' = [c \in Conns |-> NoToken]
    /\ user' = [c \in Conns |-> NoUser]
    /\ holder' = [t \in Tokens |-> NoConn]
    /\ transfers' = [i \in Ids |-> NoTransfer]
    /\ folder' = [i \in Ids |-> i]
    /\ nextId' = 1
    /\ streams' = [a \in Addresses |-> Closed]
    /\ sent' = <<>>
    /\ consent' = {} /\ dangling' = {} /\ disorder' = {}
    /\ lossy' = {} /\ ub' = FALSE
    /\ UNCHANGED <<issued, disk>>

FileStep(c) ==
    \/ \E r \in Users, n \in FileSizes, f \in OtherFolders \cup {nextId} : Offer(c, r, n, f)
    \/ \E r \in Users \cup {NoUser}, wellFormed \in BOOLEAN : OfferRefused(c, r, wellFormed)
    \/ \E i \in Ids :
          \/ \E a \in Addresses : Accept(c, i, a)
          \/ AcceptCannotOpen(c, i)
          \/ Reject(c, i)
          \/ \E k \in 0 .. MaxIndex : ChunkWritten(c, i, k) \/ ChunkToClosed(c, i, k)
          \/ ChunkWriteFails(c, i)
          \/ ChunkEmpty(c, i)
          \/ DoneNeverOpened(c, i)
          \/ Done(c, i)
          \/ \E wellFormed \in BOOLEAN :
                AcceptRefused(c, i, wellFormed) \/ Ignored(c, i, wellFormed)

Next == SessionStep \/ Restart \/ \E c \in Conns : FileStep(c)

Spec == Init /\ [][Next]_vars

-----------------------------------------------------------------------------
(***************************************************************************)
(* A transfer takes chunks, or counts as completed, only after its receiver*)
(* accepted it: no sequence of FILE_CHUNK and FILE_DONE goes round the     *)
(* receiver (tcp_session.cpp:431-456, 533-539, 586-599; file_store.cpp:101).*)
(***************************************************************************)
ReceiverConsented ==
    \A i \in Ids :
        transfers[i].state \in {"ACCEPTED", "RECEIVING", "COMPLETED"} => i \in consent

(***************************************************************************)
(* No FILE is leaked, until one is closed twice, except by transfers that  *)
(* were accepted again or got chunks out of turn: every open FILE is the   *)
(* file_handle of a transfer that FILE_DONE has not closed yet, also when  *)
(* the fopen, a write or the rename fails (tcp_session.cpp:444-456,        *)
(* 543-548, 586-597; file_store.cpp:101-115).                              *)
(***************************************************************************)
FilesNotLeaked ==
    ~ub => \A a \in Addresses : streams[a] # Closed =>
        \/ \E i \in Ids : transfers[i].handle = a /\ i \notin dangling
        \/ \E i \in disorder :
              streams[a].path \in {Path(i, "part"), Path(i, "final"), Unlinked}

(***************************************************************************)
(* A COMPLETED transfer's file is in place under its final name, without a *)
(* left-over .part file, in spite of repeated FILE_DONE and FILE_ACCEPT    *)
(* messages, failing renames and restarts, unless another transfer's file  *)
(* name leads into the same directory (tcp_session.cpp:585-599,            *)
(* file_store.cpp:119-129).                                                *)
(***************************************************************************)
CompletedInPlace ==
    \A i \in Ids :
        transfers[i].state = "COMPLETED" /\ Alone(i) =>
            /\ disk[Path(i, "final")] # NoFile
            /\ disk[Path(i, "part")] = NoFile

(***************************************************************************)
(* As long as no FILE* has been closed twice, a transfer that takes chunks *)
(* has an open stream that is no other transfer's, although file_handle is *)
(* never reset and fopen reuses addresses.  The stream is on the transfer's*)
(* own .part file, unless another transfer's file name leads to that file  *)
(* (tcp_session.cpp:444-456, 542, 586; file_store.cpp:52-129).             *)
(***************************************************************************)
StreamsSeparate ==
    ~ub => \A i \in Ids : TakesChunks(i) =>
        /\ transfers[i].handle # Null
        /\ streams[transfers[i].handle] # Closed
        /\ Alone(i) => streams[transfers[i].handle].path = Path(i, "part")
        /\ \A j \in Ids : j # i /\ TakesChunks(j) =>
                transfers[j].handle # transfers[i].handle

\* The first n chunks of transfer i's file.
Prefix(i, n) == [k \in 1 .. n |-> Chunk(i, k - 1)]

(***************************************************************************)
(* A COMPLETED transfer that was accepted once and whose chunks came in    *)
(* order without a failed write or fclose holds exactly the chunks that    *)
(* were counted, also when other transfers, rejects, failed renames,       *)
(* session changes and restarts come in between, as long as none of these  *)
(* transfers has a file name that leads into the same directory            *)
(* (tcp_session.cpp:541-551, 585-599, file_store.cpp:119-129).             *)
(***************************************************************************)
CompletedContent ==
    \A i \in Ids :
        /\ ~ub /\ i \notin disorder \cup lossy /\ Alone(i)
        /\ transfers[i].state = "COMPLETED"
        => disk[Path(i, "final")].data = Prefix(i, transfers[i].expected)

IsEmptyFile(f) == f # NoFile /\ f.data = <<>>

LoggedIn(u) == \E c \in Conns : user[c] = u

(***************************************************************************)
(* Files are only touched by the parties of the transfers that lead to     *)
(* them: as long as no FILE* has been closed twice, a step that changes a  *)
(* file in a directory needs, of some offer whose file name leads into this*)
(* directory, the receiver logged in to create or truncate a .part file,   *)
(* and the sender logged in otherwise (tcp_session.cpp:431, 527, 579;      *)
(* file_store.cpp:119-129).                                                *)
(***************************************************************************)
OnlyPartiesTouchFiles ==
    [][~ub' => \A p \in Paths : disk'[p] # disk[p] =>
        \E i \in Ids :
            /\ i < nextId /\ folder[i] = p[1]
            /\ IF p[2] = "part" /\ IsEmptyFile(disk'[p])
               THEN LoggedIn(transfers[i].receiver)
               ELSE LoggedIn(transfers[i].sender)]_vars

-----------------------------------------------------------------------------
(***************************************************************************)
(* transfer_manager.h:15, "ACCEPTED,   // Accepted by receiver, ready for  *)
(* chunks": an accepted transfer has an open FILE.                         *)
(***************************************************************************)
AcceptedIsReady ==
    \A i \in Ids :
        transfers[i].state = "ACCEPTED" => streams[transfers[i].handle] # Closed

(***************************************************************************)
(* transfer_manager.h:46, "Generate a new unique transfer ID": the id names*)
(* the directory of the stored file, so a file stored by an earlier run of *)
(* the server must not be replaced by another transfer's.                  *)
(***************************************************************************)
StoredFileSurvivesRestart ==
    [][\A i \in Ids :
        LET final == Path(i, "final") IN
        disk[final] # NoFile =>
            disk'[final] # NoFile /\ disk'[final].by = disk[final].by]_vars
=============================================================================
