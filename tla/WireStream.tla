----------------------------- MODULE WireStream -----------------------------
(***************************************************************************)
(* One direction of one TCP connection, byte by byte: frames are written   *)
(* with the serializers of WireFormat and read back by one of three        *)
(* readers.                                                                *)
(*   "core"     TcpSession: async_read of exactly a header, then exactly   *)
(*              its payload, then the next header;                         *)
(*   "client"   the C++ test clients: the same with blocking reads;        *)
(*   "gateway"  core_client.py: one recv for the header, a loop of recvs   *)
(*              for the payload, one frame per connection.                 *)
(* TCP keeps bytes in order but not their grouping, and the writer may go  *)
(* away in the middle of a frame.  The Core writes complete payloads only; *)
(* requests may come from any program, so their payload may end early.     *)
(***************************************************************************)
EXTENDS WireFormat

CONSTANTS
    CoreMaxPayload,     \* longest payload the Core reads (16 MiB)
    ClientMaxPayload    \* longest payload test_auth reads (1024 bytes)

ASSUME MaxPayloads == CoreMaxPayload \in Nat /\ ClientMaxPayload \in Nat

Readers == {"core", "client", "gateway"}
None == <<>>            \* no header has been read

VARIABLES
    reader,     \* who reads this connection
    stream,     \* bytes written and not read yet
    eof,        \* the writer has closed the connection
    header,     \* the header whose payload is being read
    body,       \* the part of the payload that the gateway has read
    status,     \* "reading", or how the reader stopped
    frames,     \* frames written so far
    \* history
    pending,    \* the messages written whose payload has not been parsed
    last        \* the message parsed last and what its parser returned

vars == <<reader, stream, eof, header, body, status, frames, pending, last>>

Statuses == {"reading", "closed", "bad header", "too large", "short header",
             "short payload", "done"}

TypeOK ==
    /\ reader \in Readers
    /\ stream \in Seq(Nat)
    /\ eof \in BOOLEAN
    /\ header \in Seq(Nat) /\ Len(header) \in {0, HeaderSize}
    /\ body \in Seq(Nat)
    /\ status \in Statuses
    /\ frames \in 0 .. MaxFrames
    /\ Len(pending) <= frames /\ Len(last) <= 1

Init ==
    /\ reader \in Readers
    /\ stream = <<>>
    /\ eof = FALSE
    /\ header = None
    /\ body = <<>>
    /\ status = "reading"
    /\ frames = 0
    /\ pending = <<>>
    /\ last = <<>>

-----------------------------------------------------------------------------
\* The writer.  by: which code serializes; cut: bytes missing at the end.

Write(type, by, vals, cut) ==
    LET m == [type |-> type, by |-> by, vals |-> vals, cut |-> cut]
        p == Payload(m)
    IN  /\ status = "reading" /\ ~eof
        /\ frames < (IF reader = "gateway" THEN 1 ELSE MaxFrames)
        /\ frames > 0 => type \in LaterTypes
        /\ cut <= Len(p)
        /\ stream' = stream \o Frame(type, SubSeq(p, 1, Len(p) - cut))
        /\ frames' = frames + 1
        /\ pending' = Append(pending, m)
        /\ UNCHANGED <<reader, eof, header, body, status, last>>

\* _make_auth_payload raises ValueError for a string above 65535 bytes.
PyFits(s) == Len(s) < Limit16

\* The Core only sends strings of its own, which are short.
ShortText == {s \in Text : PyFits(s)}

WriteRegister(cut) ==
    \E u, e, p \in Text, by \in {"cpp", "py"} :
        /\ by = "py" => PyFits(u) /\ PyFits(e) /\ PyFits(p)
        /\ Write(MsgType.REGISTER_REQ, by, <<u, e, p>>, cut)

WriteLogin(cut) ==
    \E u, p \in Text, by \in {"cpp", "py"} :
        /\ by = "py" => PyFits(u) /\ PyFits(p)
        /\ Write(MsgType.LOGIN_REQ, by, <<u, p>>, cut)

WriteFileRequest(cut) ==
    \/ \E r, f \in Text, size \in BigNums, chunk \in Nums :
          Write(MsgType.FILE_OFFER_REQ, "cpp", <<0, r, f, size, chunk>>, cut)
    \/ \E i \in BigNums, accept \in BOOLEAN :
          Write(MsgType.FILE_ACCEPT_REQ, "cpp", <<i, accept>>, cut)
    \/ \E i \in BigNums, k \in Nums, data \in Text :
          Write(MsgType.FILE_CHUNK, "cpp", <<i, k, data>>, cut)
    \/ \E i, size \in BigNums, n \in Nums :
          Write(MsgType.FILE_DONE, "cpp", <<i, n, size>>, cut)

WriteRequest ==
    /\ reader = "core"
    /\ \E cut \in Cuts :
          \/ \E name \in Text : Write(MsgType.HELLO, "cpp", <<name>>, cut)
          \/ WriteRegister(cut)
          \/ WriteLogin(cut)
          \/ WriteFileRequest(cut)

\* The replies of the Core to REGISTER_REQ, LOGIN_REQ and ONLINE_LIST_REQ.
WriteAuthReply ==
    /\ reader # "core"
    /\ \/ \E ok \in BOOLEAN, msg \in ShortText :
             Write(MsgType.REGISTER_RESP, "cpp", <<ok, msg>>, 0)
       \/ \E t, u, msg \in ShortText, id \in BigNums :
             Write(MsgType.LOGIN_RESP, "cpp", <<TRUE, t, id, u, msg>>, 0)
       \/ \E msg \in ShortText :
             Write(MsgType.LOGIN_RESP, "cpp", <<FALSE, <<>>, 0, <<>>, msg>>, 0)
       \/ /\ reader = "gateway"
          /\ \E n \in 0 .. MaxNames : \E names \in [1 .. n -> ShortText] :
                Write(MsgType.ONLINE_LIST_RESP, "cpp", names, 0)

\* The replies of the Core to the FILE_* requests.
WriteFileReply ==
    /\ reader = "client"
    /\ \/ \E ok \in BOOLEAN, i \in BigNums, reason \in ShortText :
             /\ ok => reason = <<>>
             /\ Write(MsgType.FILE_OFFER_RESP, "cpp", <<ok, i, reason>>, 0)
       \/ \E ok \in BOOLEAN, reason \in ShortText :
             /\ ok => reason = <<>>
             /\ Write(MsgType.FILE_ACCEPT_RESP, "cpp", <<ok, reason>>, 0)
       \/ \E i \in BigNums, ok \in BOOLEAN, text \in ShortText :
             Write(MsgType.FILE_RESULT, "cpp", <<i, ok, text>>, 0)

\* The writer closes, or dies: the last bytes may never be sent.
WriterGone ==
    /\ status = "reading" /\ ~eof
    /\ \E lost \in Cuts :
          /\ lost <= Len(stream)
          /\ stream' = SubSeq(stream, 1, Len(stream) - lost)
    /\ eof' = TRUE
    /\ UNCHANGED <<reader, header, body, status, frames, pending, last>>

-----------------------------------------------------------------------------
\* The readers

Drop(n) == SubSeq(stream, n + 1, Len(stream))

\* The payload p of the current frame is complete: it goes to the parser of the
\* frame's type.
Parsed(p) ==
    /\ last' = <<[msg |-> Head(pending), type |-> HeaderType(header),
                  result |-> Parse(reader, HeaderType(header), p)]>>
    /\ pending' = Tail(pending)
    /\ header' = None

\* Whether a payload of n bytes is too large.  Of the clients test_auth has a limit
\* and test_file_transfer has none.
TooLarge(n) ==
    IF reader = "core" THEN {n > CoreMaxPayload} ELSE {n > ClientMaxPayload, FALSE}

\* do_read_header of the Core, read_header of the clients: all 12 bytes.
ReadHeader ==
    /\ reader # "gateway" /\ status = "reading" /\ header = None
    /\ Len(stream) >= HeaderSize
    /\ LET h == SubSeq(stream, 1, HeaderSize) IN
       IF ValidHeader(h)
       THEN \E tooLarge \in TooLarge(PayloadLen(h)) :
               IF tooLarge THEN status' = "too large" /\ UNCHANGED header
               ELSE header' = h /\ UNCHANGED status
       ELSE status' = "bad header" /\ UNCHANGED header
    /\ stream' = Drop(HeaderSize)
    /\ UNCHANGED <<reader, eof, body, frames, pending, last>>

\* Mutant: only the bytes that the parser used are taken from the stream.
ReadBodyUsed ==
    LET p == SubSeq(stream, 1, PayloadLen(header)) IN
    /\ reader # "gateway" /\ status = "reading" /\ header # None
    /\ Len(stream) >= PayloadLen(header)
    /\ Parsed(p)
    /\ stream' = Drop(Parse(reader, HeaderType(header), p).pos)
    /\ UNCHANGED <<reader, eof, body, status, frames>>

\* do_read_body and handle_message, read_payload: exactly len bytes, parsed.
ReadBody ==
    LET n == PayloadLen(header) IN
    /\ reader # "gateway" /\ status = "reading" /\ header # None
    /\ Len(stream) >= n
    /\ Parsed(SubSeq(stream, 1, n))
    /\ stream' = Drop(n)
    /\ UNCHANGED <<reader, eof, body, status, frames>>

\* An exact read meets the end of the stream.
ReadEof ==
    /\ reader # "gateway" /\ status = "reading" /\ eof
    /\ Len(stream) < (IF header = None THEN HeaderSize ELSE PayloadLen(header))
    /\ status' = "closed"
    /\ UNCHANGED <<reader, stream, eof, header, body, frames, pending, last>>

\* What one recv(n) may return: some of the bytes there are, or none at the end
\* of the stream.
Recv(n) ==
    {k \in 1 .. n : k <= Len(stream)} \cup (IF eof /\ stream = <<>> THEN {0} ELSE {})

\* Mutant: a header that comes in pieces is taken for a whole one.
RecvHeaderAny ==
    /\ reader = "gateway" /\ status = "reading" /\ header = None
    /\ \E k \in Recv(HeaderSize) :
          /\ header' = SubSeq(stream, 1, k)
          /\ stream' = Drop(k)
    /\ UNCHANGED <<reader, eof, body, status, frames, pending, last>>

\* recv(HEADER_SIZE) once; fewer than 12 bytes end the request.
RecvHeader ==
    /\ reader = "gateway" /\ status = "reading" /\ header = None
    /\ \E k \in Recv(HeaderSize) :
          LET h == SubSeq(stream, 1, k) IN
          /\ stream' = Drop(k)
          /\ IF k < HeaderSize THEN status' = "short header" /\ UNCHANGED header
             ELSE IF ValidHeader(h) THEN header' = h /\ UNCHANGED status
             ELSE status' = "bad header" /\ UNCHANGED header
    /\ UNCHANGED <<reader, eof, body, frames, pending, last>>

\* One turn of the loop around recv(payload_len - len(payload)).
RecvPayload ==
    /\ reader = "gateway" /\ status = "reading" /\ header # None
    /\ Len(body) < PayloadLen(header)
    /\ \E k \in Recv(PayloadLen(header) - Len(body)) :
          /\ body' = body \o SubSeq(stream, 1, k)
          /\ stream' = Drop(k)
          /\ status' = IF k = 0 THEN "short payload" ELSE status
    /\ UNCHANGED <<reader, eof, header, frames, pending, last>>

\* The loop is over: the response is parsed and the socket closed.
ParseResponse ==
    /\ reader = "gateway" /\ status = "reading" /\ header # None
    /\ Len(body) = PayloadLen(header)
    /\ Parsed(body)
    /\ status' = "done"
    /\ UNCHANGED <<reader, stream, eof, body, frames>>

Next ==
    \/ WriteRequest \/ WriteAuthReply \/ WriteFileReply \/ WriterGone
    \/ ReadHeader \/ ReadBody \/ ReadEof
    \/ RecvHeader \/ RecvPayload \/ ParseResponse

Spec == Init /\ [][Next]_vars

-----------------------------------------------------------------------------
\* The length-prefixed strings of a message.
Strings(m) ==
    LET v == m.vals IN
    CASE m.type = MsgType.REGISTER_REQ -> {v[1], v[2], v[3]}
      [] m.type = MsgType.LOGIN_REQ -> {v[1], v[2]}
      [] m.type = MsgType.FILE_OFFER_REQ -> {v[2], v[3]}
      [] OTHER -> {}

Short(m) == \A s \in Strings(m) : PyFits(s)

\* What the gateway does not serialize: a registration without an email.
NoEmail(m) == m.type = MsgType.REGISTER_REQ /\ m.by = "py" /\ m.vals[2] = <<>>

\* The values of m that its reader is after; test_auth does not use the rest.
Wanted(m) ==
    IF reader = "client" /\ m.type = MsgType.LOGIN_RESP
    THEN <<m.vals[1], m.vals[2]>> ELSE m.vals

Agrees(vals, wanted) == SubSeq(vals, 1, Len(wanted)) = wanted

(***************************************************************************)
(* What one program serializes another one reads: every complete message   *)
(* whose strings are below 65536 bytes comes out of the reader's parser    *)
(* with the values that went into the writer's serializer, however TCP     *)
(* groups the bytes; a registration for which the gateway left out the     *)
(* empty email is refused, never read as another one (auth_messages.h:     *)
(* 24-165, online_messages.h:21-38, file_messages.h:45-378,                *)
(* core_client.py:67-256, test_auth.cpp:110-141).                          *)
(***************************************************************************)
Understood ==
    last # <<>> =>
        LET m == last[1].msg
            r == last[1].result
        IN  m.cut = 0 /\ Short(m) =>
                IF NoEmail(m) THEN r.err
                ELSE ~r.err /\ ~r.over /\ Agrees(r.vals, Wanted(m))

(***************************************************************************)
(* A reader never loses its place in the stream: the k-th frame parsed is  *)
(* the k-th frame written, and no header is found bad, also behind payloads*)
(* that are cut, refused or hold a string whose length overflowed          *)
(* (message.h:54-71, tcp_session.cpp:95-159, core_client.py:117-135).      *)
(***************************************************************************)
InStep ==
    /\ status # "bad header"
    /\ last # <<>> => last[1].type = last[1].msg.type

IsPrefixOf(s, t) == Len(s) <= Len(t) /\ s = SubSeq(t, 1, Len(s))

(***************************************************************************)
(* A request whose payload ends early is refused, or every value its       *)
(* handler uses was sent: a HELLO or FILE_CHUNK with less data, a FILE_DONE*)
(* that lacks part of file_size, for which the parser reads up to 4 bytes  *)
(* behind the payload (file_messages.h:305-310) and which handle_file_done *)
(* only logs.  No other parser reads behind the end (auth_messages.h:25-49,*)
(* file_messages.h:53-88, 190-194, 264-271).                               *)
(***************************************************************************)
CutRefused ==
    last # <<>> /\ last[1].msg.cut > 0 /\ Short(last[1].msg) =>
        LET m == last[1].msg
            r == last[1].result
        IN  \/ r.err
            \/ /\ m.type = MsgType.HELLO
               /\ IsPrefixOf(r.vals[1], m.vals[1])
            \/ /\ m.type = MsgType.FILE_CHUNK
               /\ r.vals[1] = m.vals[1] /\ r.vals[2] = m.vals[2]
               /\ IsPrefixOf(r.vals[3], m.vals[3]) /\ ~r.over
            \/ /\ m.type = MsgType.FILE_DONE /\ m.cut <= 4
               /\ r.vals[1] = m.vals[1] /\ r.vals[2] = m.vals[2]

(***************************************************************************)
(* auth_messages.h:119-125, "LOGIN_RESP payload format: u8 ok, if ok=1: u16*)
(* token_len, bytes token, u16 msg_len, bytes msg": test_auth, which reads *)
(* this format, shows the message that the Core sent.                      *)
(***************************************************************************)
LoginMessageShown ==
    last # <<>> /\ reader = "client" /\ last[1].type = MsgType.LOGIN_RESP =>
        last[1].result.vals[3] = last[1].msg.vals[5]
=============================================================================
