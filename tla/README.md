# FileShareX: TLA+ models, model checking and proofs

FileShareX lets users log in, see who is online and send each other files through a
server that stores them.  This directory holds TLA+ modules for its server side, its wire
format and its transfer client, the TLC configurations that check them on small instances, and TLAPS proofs of the most
important properties for every instance.  `PROJECT.json` lists the components, runs,
mutants, findings, hazards and theorems, and maps every definition to the lines it
models.

## The system

| Part | State it keeps | Operations | Modelled in |
|---|---|---|---|
| `TcpServer`, `TcpSession` (core/src/net) | per connection: read loop, `outq_`, `token_`, `user_id_` | accept, read header/body, dispatch, send, write completion | `CoreSessions` |
| `SessionManager` (core/src/net) | `sessions_`: token -> weak pointer | add, remove, look up, list, count | `CoreSessions`; its promise in `SessionDirectory` |
| FILE_* handlers (tcp_session.cpp:320-616) | none of their own | offer, accept/reject, chunk, done | `FileTransfer` |
| `TransferManager` (core/src/transfer) | `transfers_`, `next_transfer_id_` | create, look up, set state, count a chunk | `FileTransfer` |
| `FileStore` (core/src/storage) | the files under `./storage/transfers`, the open `FILE`s | open, write, close + rename | `FileTransfer` |
| `AuthHandler`, repositories, `Db`, hashing | Postgres: users, sessions | register, log in | `Accounts` |
| Password reset (gateway) | Postgres: password_reset_tokens | request, validate, change, mark used | `Accounts` |
| Gateway user sessions | username -> TCP session to the Core, ping tasks | log in, log out, ping, list | `GatewaySessions` |
| Wire format (protocol headers, core_client.py, client/src) | the reader's place in the stream | serialize, deserialize, frame, read | `WireFormat`, `WireStream` |
| Test clients (client/src) | the progress of one command | log in, send, receive | `TransferClients` (partly) |
| Email, dashboard, browser pages | none | I/O and rendering | not modelled |
| Logger, DbClient, DbConfig | unused | | not modelled |
| Voice, crypto, compression, resume, retransmission | empty headers | | nothing to model |

The Core server runs one thread in `io.run()` (core/src/main.cpp:92), so a completion
handler is atomic; the mutexes of the managers are never contended.  What interleaves is
handlers: reads and writes of different connections, and the read and the write side of one
connection.  A `TcpSession` has no owner but the shared pointers captured by its pending
operations, and `SessionManager` only holds weak pointers, so sessions die on their own
schedule.  `handle_file_accept_req` is the one place where a handler of one session sends on
another.  The gateway is one asyncio loop whose socket and database calls block: a request is
atomic between its awaits.

What is hard to test here: the orders in which reads, writes and errors of several
connections come; a session ending while another one holds its token; repeated and
out-of-turn FILE_* messages, which the handlers hardly check against the transfer's state;
`FILE*` addresses reused after a close; system calls that fail half-way; restarts; database
calls that fail between two updates that belong together.  The list, with lines, is under
"hazards" in `PROJECT.json`.

## Modules

* `SessionDirectory`: the abstract specification of logged-in sessions, seen from outside:
  who is authenticated on which connection, and which connection a token leads to.
* `CoreSessions`: `TcpSession` and `SessionManager` in detail.  `reading`/`writing` are
  the outstanding asynchronous operations, `outq` the length of `outq_`, `token`/`user` the
  authentication state, `sessions` the map.  `Forget` is the cleanup of the error paths,
  `PayloadTooLarge` the path without it, `HandleLogin` also stands for a login on a connection
  that is already logged in.  It implements `SessionDirectory` under the mapping that shows
  live sessions only.
* `FileTransfer`: extends `SessionDirectory` (sessions come and go by its actions) with the
  transfer table, the open streams and the disk.  Chunks are named by transfer and index, files
  are sequences of them.  `FileStore` appends the client's file name to the transfer's directory as
  it came, so a name is modelled by the directory it leads into: `folder` is the transfer's own or
  one of `OtherFolders`, which may be another transfer's (0 stands for a directory outside).  Names that lead into one
  directory are taken for the same name, so such transfers share their .part and their final file;
  `Alone(i)` says that no other offer leads into the directory of transfer `i`.  `FILE*`s are addresses that `fopen` may hand out again, streams follow
  their file when it is renamed, and `fclose`/`fwrite` on a closed address are undefined
  behaviour (a choice of outcomes; from then on `ub` holds).  The history variables `consent`,
  `dangling`, `disorder`, `lossy` and `ub` record what the properties need to know about the
  past; no action reads them, except `Done`, whose bound `RepeatDone` does.
* `GatewaySessions`: `UserSessionManager`, its ping tasks and the `/login` and `/logout`
  routes.  A connection has a gateway end (`gwOpen`) and a Core end (`coreOpen`, `coreUser`) that
  close independently; `reset` says that the next ping will fail.  `/login` logs in twice, on a
  connection of its own (`LoginUser`) and on the session's (`OpenSession`): `busy` is the
  request between the two.
* `Accounts`: the tables `users` and `password_reset_tokens`, the Core's registration and
  login (`core` is a login between its SELECT and its INSERT) and the gateway's reset requests
  (`gw`, one step per transaction); `now` is the clock.  Any token may be submitted by anybody, as
  in the code: a link is mailed, but with SMTP off it is in the gateway's log
  (email_service.py:40-48) or is taken from the database (docs/email_setup.md:44-56).  A hash is the pair of its iteration count and the password, which is what verification
  can tell.  A fault either has no effect (`...Fails`) or is a lost acknowledgement
  (`...Unknown`).  The history variables `spent`, `unmarked` and `overtaken` are read by no
  action, except for the bound `MaxUses` on `spent`.
* `WireFormat`: the frame header, the serializers and parsers of every payload in C++
  (protocol headers, clients) and Python (`core_client.py`) as operators on sequences of bytes.
  A parser is a chain of field readers over one record: the position, the values read, whether
  it refused (`err`) and whether it read behind the payload (`over`).  `Parse` picks the parser by
  the program that reads: REGISTER_RESP and LOGIN_RESP have one in the gateway and one in
  `test_auth`.  The replies to FILE_* requests are parsed inline in `test_file_transfer`; the deserializers for
  them in file_messages.h have no caller.
* `WireStream`: one direction of one connection, byte by byte, with the three ways the
  repository reads one: `TcpSession`'s exact reads in a loop, the C++ clients' blocking reads, and
  the gateway's one `recv` for the header and loop for the payload.  The Core and `test_auth` give up
  on payloads above their limits (status "too large"), `test_file_transfer` has none.  The writer may
  stop anywhere.
* `TransferClients`: extends `FileTransfer` with the processes of
  `test_file_transfer.cpp` and the frames between them and the Core.  `proc` is where each process
  stands in `do_login`, `do_send` or `do_recv`; `CoreOffer`, `CoreAccept`, `CoreChunk` and
  `CoreDone` are the handlers of `FileTransfer` on the frame that has arrived, and what they put
  in `sent` is what travels back.  A process stops at the first reply it did not expect, dies at
  any point, and its connection may lose what it wrote last.
* `MCFileTransfer`, `MCWireStream`: symmetry sets, a view and texts for TLC.
* `CoreSessionsProofs`, `FileTransferProofs`, `GatewaySessionsProofs`, `AccountsProofs`:
  the theorems about these modules.  `FileContentProofs` extends `FileTransferProofs` with the
  contents of the files; `TransferClientsProofs` is about the protocol of `TransferClients` and its
  refinement of `FileTransfer`; `TransferResultProofs` extends it with what the Core does to a
  process's transfer; `WireStreamProofs` is about the bytes of `WireStream`.

`FileTransfer` is composed with the sessions through `SessionDirectory`, which `CoreSessions`
implements; `TransferClients` is composed with `FileTransfer` by the channels; `GatewaySessions` and `Accounts` only meet the Core through the database and
through logins, and model the part of it they see.

Operators named after a mistake (`ForgetKeepAuth`, `MaySendAnyone`, ...) are mutants: a
property has to fail when the definition below it is replaced by them.  They are used nowhere
else.

## What the runs check

| Run | Instance | Shows |
|---|---|---|
| `core_sessions` | 2 connections, 2 users, 2 logins, 2 frames in flight each | `TypeOK`, `AuthRegistered`, `WritesSerialized`, `NoUseAfterDestruction`, `ImplementsDirectory`, `ClosedLeavesList` |
| `transfer_streams` | 2 transfers, the second perhaps in the first one's directory, 2 addresses, chunk indexes 0 and 1, 1 chunk written through each `FILE`, repeated FILE_DONE | `TypeOK`, `StreamsSeparate`, `CompletedContent` |
| `transfer_faults` | 1 transfer, 2 chunks, 2 addresses, every fault, repeated FILE_DONE, a restart and a login after it | `CompletedInPlace`, `CompletedContent`, `FilesNotLeaked` |
| `transfer_parties` | 1 connection, 2 users, 3 logins, 2 transfers, the second perhaps in the first one's directory, failing `rename` | `ReceiverConsented`, `OnlyPartiesTouchFiles` |
| `transfer_clients` | a sender and two receivers of one file of 2 chunks, failing `fopen`, `fwrite` and `rename`, a file that shrinks, processes that die, repeated FILE_DONE allowed | `ClientTypeOK`, `SuccessMeansStored`, `FilesOpenWhenUsed`, `NobodyHangs` |
| `wire_format` | every message type and reader, then a second frame of one of three types; payloads cut by 0, 1, 4 or 9 bytes; online lists of 0 to 2 names; numbers 1 and 100 in 8-byte fields; limits of 30 (Core) and 10 (`test_auth`) bytes | `TypeOK`, `Understood`, `InStep`, `CutRefused` |
| `gateway_sessions` | 2 users, 3 connections, 3 logins | `TypeOK`, `SocketsAccounted`, `PingsMatchSessions`, `LoggedOutLeavesList`, `DeadSessionNoticed` |
| `accounts` | 2 users, 2 addresses, 3 passwords (one short, one long), 2 tokens, 2 ticks with an hour of 1 | `TypeOK`, `SpentOnce`, `ResetOkMeansNewPassword`, `StaleLoginsOverlap`, `PasswordChangesNeedToken` |
| `accepted_ready` | 2 transfers, 1 address | `AcceptedIsReady` fails |
| `restart_overwrites` | 1 transfer, 1 restart | `StoredFileSurvivesRestart` fails |
| `login_message` | 1 frame | `LoginMessageShown` fails |
| `success_saved` | a sender and a receiver, failing `fwrite` | `SuccessMeansSaved` fails |

Deadlock is not checked: clients may stop sending at any point, and the bounds stop them.

Bounds.  Two connections are enough for every interaction between sessions: a handler touches
its own session and at most one other.  Two logins allow a repeated login on one connection and a
session on each; more at once only add to the state space, since the safety properties are proved
for any number.  Two frames in flight allow a frame to be read after the close or the failed
write before it.  Two transfers and two addresses allow an address to pass from one
transfer to another while both are open; two chunks (`transfer_faults`) allow a gap, a
repetition and a prefix.  In `transfer_streams` a chunk may come with the expected index, too early
or again, but only one is written through each `FILE`: chunks in every order are
`transfer_faults`' subject, for one transfer.  `OtherFolders` = {1} lets the second transfer lead into the
first one's directory, or into its own.  In `transfer_parties` one connection is enough, since
logging in as somebody else ends the session before it: what counts is which user is logged in
while a handler runs.
`MaxOutq` bounds what clients make the server queue, `MaxData` what is written through one
stream, `MaxRestarts` the restarts.  Three connections between gateway and Core allow a user's
session next to one that is being opened and one that the Core has not cleaned up yet; their names
are used again once both ends are closed.  Two tokens allow two for one user and one each; one
password per length class is enough because passwords are only compared and measured; two ticks
allow a token to be at its expiry and past it.

In `wire_format` every field has its real width, but a byte of a multi-byte integer counts to
`Base` = 3 instead of 256: a 16-bit length overflows at 9, and a text of 9 bytes reaches that; a
number above 80 does not fit in four bytes, and 100 needs the upper half of an 8-byte field.  Both
payload limits are below the longest payload, so that frames are given up.  Lists of 0, 1 and 2
names are the empty one, one without and one with a name in front; longer ones are left to the
proof.
The cuts end a payload in its last string, at a field boundary and inside a number.  `LaterTypes`
are the types of the frames behind the first; one with a payload of any length, one of fixed length
and a reply are enough, because only the bytes left over from the first frame can disturb them.
In `transfer_clients` three connections are a sender and two accepts, before, between and after
the chunks; connections are numbered in the order in which their processes start, which only leaves
out renamings.  `SendAs` and `RecvAs` fix who plays which part: that the wrong user is refused is
`transfer_parties`' subject.  A receiver is started with an id that has been printed
(`StartRecv`).  `FileSizes` = {2} lets a chunk be written, lost or truncated away next to another.

Fairness (`core_sessions`).  `io.run()` runs every ready handler, hence weak fairness of
each connection's reads and writes.  A write to a closed peer may succeed as long as the kernel
buffers it, but the peer answers with a reset, so strong fairness of `WriteFail`.  Nothing is
assumed of clients.

Fairness (`gateway_sessions`).  A `/login` that has begun ends, because every socket call has a
timeout (weak fairness of `CreateSession`); the Core's event loop handles a closed connection
(weak fairness of `CoreNotices`); asyncio wakes a ping task whose time has come between two
requests, however many there are (strong fairness of `PingSent` and `PingReset`).  No fairness
on users, on the processes' restarts, or on pings failing without a reset.

Fairness (`transfer_clients`).  A process that can go on does, and `io.run()` handles every frame
that has arrived: weak fairness of each process's steps and of the Core's step for each connection.
Nothing is assumed of processes being started or killed, or of connections losing frames.
`NobodyHangs` leaves out the sender that waits for a receiver who has not accepted, or whose accept
failed in `fopen` (`Unanswered`): its read has no timeout and the Core does not tell it.

## What is proved

For any sets of connections, users and addresses, any bounds and any faults:

* `CoreSessionsProofs`: `TypeOK`, `AuthRegistered`, `WritesSerialized`,
  `NoUseAfterDestruction`, and that `CoreSessions` implements `SessionDirectory`.  The
  inductive invariant adds two facts: a connection that has not been accepted has no trace
  anywhere (`FreshConn`), and only issued tokens are in use (`TokensIssued`), so that a new
  token never meets an old entry.  Type correctness needs `WritesSerialized`: a completed write
  pops a frame, and the queue is known to hold one only because every outstanding write has
  its frame there.
* `FileTransferProofs`: `TypeOK`, `ReceiverConsented`, `CompletedInPlace`,
  `StreamsSeparate`, `FilesNotLeaked`, for file names that lead into any directory.  The inductive
  invariant (`FInv`) adds that an open stream's file exists or was replaced (`StreamsHaveFiles`),
  that a `FILE*` in a transfer means consent and that a transfer that takes chunks has one it has
  not closed (`HandlesExplained`), and that until a `FILE*` is closed twice every transfer that has
  not closed its `FILE*` has an open stream there (`HandlesOwned`), which is on the transfer's own
  .part file if it is `Alone` in its directory (`OwnerHolds`).  That two owners never have the same address
  does not follow from their paths, which may be the same: it is a conjunct of its own
  (`HandlesApart`), kept because `fopen` only returns addresses that are closed.  Ids that have not
  been given out name no transfer (`FreshIds`), so that creating one never overwrites a
  `file_handle`.  Then only a second accept makes a transfer let go of an open `FILE`:
  `FilesNotLeaked` is inductive together with `DisorderKnown`, which says that only
  offered transfers are ever out of order (`LInv`).
* `FileContentProofs`: `CompletedContent` and the action property `OnlyPartiesTouchFiles`.  A
  stored file is right only if its stream was right all along, so the invariant (`ContentInv`) is
  about the streams: as long as a transfer owns its `FILE`, is `Alone` in its directory and its chunks
  came in turn, what is on disk followed by what is still buffered is the first `expected` chunks, and
  the write position is at their end (`Holds`).  A chunk appends one of each, a flush moves bytes from
  one to the other, FILE_DONE flushes and renames.  Other transfers cannot disturb it because they have
  other streams (`HandlesApart`) and, as `Alone` says, other paths.  A later offer may end `Alone`; then nothing is
  claimed of the contents any more.
* `TransferClientsProofs`: `ClientTypeOK`, and that `TransferClients` implements `FileTransfer`
  (`ClientSpec => Spec`): a process's step is one the Core does not notice, a handled frame one of
  the handlers, a refused login one that `Ignored` allows.  The inductive invariant (`PInv`) is the
  protocol: what a process knows at each point (`Noted`), which requests may be under way
  (`Written`) and which replies (`Coming`).
* `TransferResultProofs`: `SuccessMeansStored` and `FilesOpenWhenUsed`.  The invariant `CInv` ties
  each sender to one transfer (`Mine`: the one it was told of, or is about to be told of).  No two
  senders have the same one (`OneSender`), and whoever the Core notifies of an accept is the
  transfer's sender (`NotifiedOfOwn`, from the tokens: `SessionsLinked`).  Then `Phases` follows
  the transfer: while the sender waits there is one FILE_ACCEPT_RESP on its way for each accept
  (`Waiting`); while it sends, either a second FILE_ACCEPT_RESP is in front of everything it will
  read, and it is going to give up, or the requests under way are exactly the chunks the Core
  expects next (`Sending`, `Feeds`).  So when FILE_DONE is handled and the sender is going to
  believe the result, the transfer has counted all it sent, and `ContentInv` says what the file
  holds.  `DoneAhead` and `Using` say that the `FILE` is open until that FILE_DONE: hence also `~ub`,
  which the handlers alone do not guarantee.  `test_file_transfer` sends the last component of a path
  (line 223), so its transfers stay in their directories (`OwnFolders`) and are `Alone`.
* `GatewaySessionsProofs`: `TypeOK`, `SocketsAccounted`, `PingsMatchSessions`.  Their
  conjunction is inductive: a new connection is free, so no session has it, and a session that is
  dropped has no ping task because its flag has fallen.
* `AccountsProofs`: `TypeOK`, `SpentOnce`, `ResetOkMeansNewPassword`, `StaleLoginsOverlap`
  and the action property `PasswordChangesNeedToken`.  The inductive invariant adds that the
  token of a running request is a row of its user, unmarked, and was valid when it was looked up
  (`RequestBacked`).  Nothing is assumed of who holds a token.
* `WireStreamProofs`: `TypeOK`, `InStep`, `Understood` and `CutRefused` of `WireStream`, and that the parser gets exactly the
  bytes of the payload that was written (`ParsedAsSent`).  The inductive invariant (`WireInv`)
  accounts for every byte: what the gateway has collected, the stream and what a dying writer lost
  are together the rest of the current payload and the frames of the messages not parsed yet
  (`Chain`), each with the length of its own payload in its header (`HeaderRead`, `BodyRead`,
  `Placed`).  It rests on lemmas about numbers, which come back from their 2, 4 and 8 bytes for any
  `Base`, and about taking a sequence apart where it was put together.
  For `Understood` and `CutRefused` every serializer is followed with the parsers that read it: a
  field of a payload, complete or cut, is where its serializer put it (`Field`), and a parser, a
  chain of readers, either stands behind the field with the right values (`At`) or has refused
  (`Reads`).  Cases of their own are FILE_DONE, whose last number is read behind the end, the two
  values of LOGIN_RESP that `test_auth` reads, and the online list.  Its writing and its reading loop
  are recursive functions over the number of names, so that the result needs induction.  The
  library's induction theorem cannot be instantiated by the installed provers; `Induction` is derived
  from the pigeonhole principle of `FiniteSetTheorems` instead, for sets of numbers rather than for
  formulas, and serves both loops.  `Understood` thus holds for strings below 65536 bytes, all
  numbers that fit their 4 or 8 bytes, and lists of up to 65534 names.

The assumptions are the ones named in the modules: the markers (`NoConn`, `NoUser`, `NoRow`,
...) are no members of the sets they mark, and the bounds are natural numbers.  `TransferClients`
adds that its processes' users are users, that its connections are numbered, and that the bounds
leave room for a transfer and for the chunks of every file (`ClientBounds`).  `WireFormat` adds that
a byte has more than two values, that numbers fit in their four or eight bytes (`NumsFit`), that
the number of names in a list does in its two, with one to spare (`NamesFit`), and that the length of a
payload fits in four (`PayloadsFit`).

Only model-checked is liveness, which is out of the prover's reach: `ClosedLeavesList`,
`LoggedOutLeavesList`, `DeadSessionNoticed`, `NobodyHangs`.  Every invariant and action property of a
passing run is also a theorem.

## Findings

The four failing runs show where the code does not do what it says:

* `accepted_ready`: a repeated FILE_DONE closes another transfer's `FILE`, so that an ACCEPTED
  transfer is not "ready for chunks".
* `restart_overwrites`: transfer ids are not unique across restarts, and a new transfer replaces
  the stored file of an old one.
* `login_message`: LOGIN_RESP is not in the format its comment gives; `test_auth` reads that
  format and shows an empty message.
* `success_saved`: a chunk that cannot be written fails the transfer without telling the sender,
  FILE_DONE completes it all the same, and the sender prints "SUCCESS! File saved" for a file
  that lacks the chunk.

Weaker ones are only listed as hazards: a session that ends with "payload too large" stays listed
while a write is outstanding, two offers whose file names lead to the same path write the same
file, a failed `fflush`/`fclose` is not reported, a sender is not told when
the receiver's accept fails in `fopen`, a token leads to another user's session after a second
login on a connection.

## Not modelled

* Email service, dashboard and browser pages: I/O and rendering without state of their own.
  Whether a reset link arrives changes no state of the system, and `Accounts` lets anybody submit
  any token.
* Logger, DbClient, DbConfig: not used by the server, or constants.
* Voice, crypto, compression, admin, resume, retransmission: the headers are empty.
* The command loops of `main.cpp`, `test_auth.cpp` and `test_persistent.cpp`: to the Core
  they are the clients of `CoreSessions`, which may send anything at any time.  Their frames are
  in `WireFormat`.
* Different file names in one directory, and a name that equals another one with ".part" behind it:
  `FileTransfer` takes names that lead into one directory for the same name, and its properties
  claim the least where that happens.
* Clients that vanish without a trace, queues without a limit and the database connection that is
  never opened again have no property: the code promises nothing about them (see the hazards).

## Plan

1. Done: `SessionDirectory`, `CoreSessions`, `FileTransfer`, `Accounts`, `GatewaySessions` with
   their runs and theorems; `WireFormat` and `WireStream`; `TransferClients`.
2. Done: proofs of `CompletedContent`, `OnlyPartiesTouchFiles`, `ClientTypeOK`,
   `SuccessMeansStored` and `FilesOpenWhenUsed`, and that `TransferClients` implements
   `FileTransfer`.
3. Done: numbers in `WireFormat` put together from 16-bit halves, as `ntohl` and
   `be64toh_portable` do; proofs of `InStep` and `ParsedAsSent`.
4. Done: what each parser makes of the bytes it gets, for `Understood` and `CutRefused`.
5. Done: file names that lead into other directories, tokens submitted by anybody, online lists of
   any length, 8-byte numbers and payload limits, with the proofs for them.
6. Next: shorter proofs where one lemma can serve several messages of `WireStreamProofs`.
