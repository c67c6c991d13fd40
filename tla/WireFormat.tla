----------------------------- MODULE WireFormat -----------------------------
(***************************************************************************)
(* The bytes on one TCP connection: the frame header of                    *)
(* core/include/fsx/protocol/message.h, the payload formats of             *)
(* auth_messages.h, online_messages.h and file_messages.h, the C++ clients'*)
(* serializers, and the gateway's own builders and parsers                 *)
(* (gateway/app/core_client.py).  Writer and reader of a message are nearly*)
(* always different pieces of code, in two languages.                      *)
(*                                                                         *)
(* A byte is a number.  All field widths are the real ones, but a byte of a*)
(* multi-byte integer counts to Base instead of 256, so that the 16-bit    *)
(* lengths overflow at Base^2 instead of 65536; the 32-bit lengths still   *)
(* hold every payload (PayloadsFit).  Text is ASCII, which Python's decode *)
(* returns character by character.                                         *)
(***************************************************************************)
EXTENDS Integers, Sequences

CONSTANTS
    Base,           \* values of a byte
    Text,           \* strings to send
    Nums,           \* values of the numeric fields of four bytes
    BigNums,        \* values of the numeric fields of eight bytes
    Cuts,           \* bytes missing at the end of a request's payload
    MaxNames,       \* bound: names in an online list
    MaxFrames,      \* bound: frames written on the connection
    LaterTypes      \* bound: types of the frames after the first

ASSUME BaseAssumption == Base \in Nat /\ Base > 2
ASSUME WireBounds == Cuts \subseteq Nat /\ MaxFrames \in Nat \ {0}
ASSUME TextAssumption == Text \subseteq Seq(0 .. Base - 1) /\ <<>> \in Text

Magic == <<70, 83, 88, 49>>     \* "FSX1"
Version == 1
HeaderSize == 12
MsgType ==
    [HELLO |-> 1, REGISTER_REQ |-> 10, REGISTER_RESP |-> 11, LOGIN_REQ |-> 12,
     LOGIN_RESP |-> 13, ONLINE_LIST_RESP |-> 21, FILE_OFFER_REQ |-> 30,
     FILE_OFFER_RESP |-> 31, FILE_ACCEPT_REQ |-> 32, FILE_ACCEPT_RESP |-> 33,
     FILE_CHUNK |-> 34, FILE_DONE |-> 35, FILE_RESULT |-> 36]

-----------------------------------------------------------------------------
\* Writing

Byte(n) == <<n>>

\* The numbers that fit in two, in four and in eight bytes are those below:
Limit16 == Base * Base
Limit32 == Limit16 * Limit16
Limit64 == Limit32 * Limit32

ASSUME NumsFit == Nums \subseteq 0 .. Limit32 - 1 /\ BigNums \subseteq 0 .. Limit64 - 1

\* A payload other than an online list has at most three texts and 24 other bytes.
ASSUME PayloadsFit == \A s \in Text : 3 * Len(s) + 24 < Limit32

\* An online list of at most 65534 names fits, whatever its names are.
ASSUME NamesFit == MaxNames \in Nat /\ MaxNames < Limit16 - 1

\* n in 2, 4 or 8 bytes, most significant first (htons, htonl, htobe64_portable);
\* what does not fit is cut off.
U16(n) == <<(n \div Base) % Base, n % Base>>
U32(n) == U16(n \div Limit16) \o U16(n)
U64(n) == U32(n \div Limit32) \o U32(n)

\* A string behind its length, which is cast to uint16_t.
Str(s) == U16(Len(s)) \o s

MakeHeader(type, len) ==
    Magic \o Byte(Version) \o Byte(type) \o U32(len) \o U16(0)

Frame(type, payload) == MakeHeader(type, Len(payload)) \o payload

HelloPayload(name) == name
RegisterReq(u, e, p) == Str(u) \o Str(e) \o Str(p)
LoginReq(u, p) == Str(u) \o Str(p)

\* _make_auth_payload: an empty email is left out altogether.
AuthPayload(u, e, p) == Str(u) \o (IF e = <<>> THEN <<>> ELSE Str(e)) \o Str(p)

RegisterResp(ok, msg) == Byte(IF ok THEN 1 ELSE 0) \o Str(msg)

LoginResp(ok, token, id, u, msg) ==
    Byte(IF ok THEN 1 ELSE 0)
    \o (IF ok THEN Str(token) \o U64(id) \o Str(u) ELSE <<>>)
    \o Str(msg)

\* count, then each name.
OnlineListResp(names) ==
    LET out[k \in 0 .. Len(names)] ==
            IF k = 0 THEN U16(Len(names)) ELSE out[k - 1] \o Str(names[k])
    IN  out[Len(names)]

FileOfferReq(id, receiver, filename, size, chunk) ==
    U64(id) \o Str(receiver) \o Str(filename) \o U64(size) \o U32(chunk)
FileOfferResp(ok, id, reason) ==
    Byte(IF ok THEN 0 ELSE 1) \o U64(id) \o (IF ok THEN <<>> ELSE Str(reason))
FileAcceptReq(id, accept) == U64(id) \o Byte(IF accept THEN 1 ELSE 0)
FileAcceptResp(ok, reason) ==
    Byte(IF ok THEN 0 ELSE 1) \o (IF ok THEN <<>> ELSE Str(reason))
FileChunk(id, index, data) == U64(id) \o U32(index) \o data
FileDone(id, chunks, size) == U64(id) \o U32(chunks) \o U64(size)
FileResult(id, ok, text) == U64(id) \o Byte(IF ok THEN 0 ELSE 1) \o Str(text)

\* A message names its serializer: "py" is the gateway, "cpp" everything else.
Payload(m) ==
    LET v == m.vals IN
    CASE m.type = MsgType.HELLO -> HelloPayload(v[1])
      [] m.type = MsgType.REGISTER_REQ ->
            IF m.by = "py" THEN AuthPayload(v[1], v[2], v[3])
                           ELSE RegisterReq(v[1], v[2], v[3])
      [] m.type = MsgType.LOGIN_REQ ->
            IF m.by = "py" THEN AuthPayload(v[1], <<>>, v[2]) ELSE LoginReq(v[1], v[2])
      [] m.type = MsgType.REGISTER_RESP -> RegisterResp(v[1], v[2])
      [] m.type = MsgType.LOGIN_RESP -> LoginResp(v[1], v[2], v[3], v[4], v[5])
      [] m.type = MsgType.ONLINE_LIST_RESP -> OnlineListResp(v)
      [] m.type = MsgType.FILE_OFFER_REQ -> FileOfferReq(v[1], v[2], v[3], v[4], v[5])
      [] m.type = MsgType.FILE_OFFER_RESP -> FileOfferResp(v[1], v[2], v[3])
      [] m.type = MsgType.FILE_ACCEPT_REQ -> FileAcceptReq(v[1], v[2])
      [] m.type = MsgType.FILE_ACCEPT_RESP -> FileAcceptResp(v[1], v[2])
      [] m.type = MsgType.FILE_CHUNK -> FileChunk(v[1], v[2], v[3])
      [] m.type = MsgType.FILE_DONE -> FileDone(v[1], v[2], v[3])
      [] m.type = MsgType.FILE_RESULT -> FileResult(v[1], v[2], v[3])

-----------------------------------------------------------------------------
\* Reading: a cursor walks over a payload and collects the fields.  err: the
\* parser threw; over: it read behind the end of the payload.

Start(p, min) ==
    [p |-> p, pos |-> 0, vals |-> <<>>, err |-> Len(p) < min, over |-> FALSE]

Fits(r, n) == r.pos + n <= Len(r.p)
Bytes(r, skip, n) == SubSeq(r.p, r.pos + skip + 1, r.pos + skip + n)

\* The number in the 2, 4 or 8 bytes of b from the k-th on.
Num16(b, k) == Base * b[k] + b[k + 1]
Num32(b, k) == Limit16 * Num16(b, k) + Num16(b, k + 2)
Num64(b, k) == Limit32 * Num32(b, k) + Num32(b, k + 4)

\* The w bytes at the cursor as a number (ntohs, ntohl, be64toh_portable).
Number(r, w) ==
    CASE w = 2 -> Num16(r.p, r.pos + 1)
      [] w = 4 -> Num32(r.p, r.pos + 1)
      [] w = 8 -> Num64(r.p, r.pos + 1)

Taken(r, n, v) == [r EXCEPT !.pos = @ + n, !.vals = Append(@, v)]
Default(r, v) == [r EXCEPT !.vals = Append(@, v)]

\* A number whose room in the payload is checked, and one read without a check.
Checked(r, w) ==
    IF r.err \/ ~Fits(r, w) THEN [r EXCEPT !.err = TRUE] ELSE Taken(r, w, Number(r, w))
Unchecked(r, w) ==
    IF r.err THEN r
    ELSE IF Fits(r, w) THEN Taken(r, w, Number(r, w))
    ELSE [Taken(r, w, -1) EXCEPT !.over = TRUE]

\* Mutant: the check of a string's length forgets the two bytes of the length.
StrLoose(r) ==
    IF r.err \/ ~Fits(r, 2) THEN [r EXCEPT !.err = TRUE]
    ELSE LET n == Number(r, 2) IN
         IF ~Fits(r, n) THEN [r EXCEPT !.err = TRUE]
         ELSE IF Fits(r, 2 + n) THEN Taken(r, 2 + n, Bytes(r, 2, n))
         ELSE [Taken(r, 2 + n, <<>>) EXCEPT !.over = TRUE]

\* A string whose length and bytes must fit, or the parser throws.
ReadStr(r) ==
    IF r.err \/ ~Fits(r, 2) THEN [r EXCEPT !.err = TRUE]
    ELSE LET n == Number(r, 2) IN
         IF Fits(r, 2 + n) THEN Taken(r, 2 + n, Bytes(r, 2, n))
         ELSE [r EXCEPT !.err = TRUE]

\* A string whose length is known to fit and whose bytes are taken without a check.
RawStr(r) ==
    IF r.err THEN r
    ELSE LET n == Number(r, 2) IN
         IF Fits(r, 2 + n) THEN Taken(r, 2 + n, Bytes(r, 2, n))
         ELSE [Taken(r, 2 + n, <<>>) EXCEPT !.over = TRUE]

\* A string that stays empty when it does not fit; its length is consumed.
OptStr(r) ==
    IF r.err \/ ~Fits(r, 2) THEN Default(r, <<>>)
    ELSE LET n == Number(r, 2) IN
         IF Fits(r, 2 + n) THEN Taken(r, 2 + n, Bytes(r, 2, n)) ELSE Taken(r, 2, <<>>)

\* A flag byte: the code of the message fixes which values mean TRUE.
Flag(r, yes) ==
    IF r.err THEN r ELSE Taken(r, 1, r.p[r.pos + 1] \in yes)

Rest(r) ==
    IF r.err THEN r ELSE Taken(r, Len(r.p) - r.pos, Bytes(r, 0, Len(r.p) - r.pos))

LastFlag(r) == ~r.err /\ r.vals[Len(r.vals)]

\* validate_header, and type and payload_len of a header that passes.
ValidHeader(h) == SubSeq(h, 1, 4) = Magic /\ h[5] = Version
HeaderType(h) == h[6]
PayloadLen(h) == Num32(h, 7)

-----------------------------------------------------------------------------
\* The parsers

ParseHello(p) == Rest(Start(p, 0))
ParseRegisterReq(p) == ReadStr(ReadStr(ReadStr(Start(p, 6))))
ParseLoginReq(p) == ReadStr(ReadStr(Start(p, 4)))
ParseFileOfferReq(p) ==
    Checked(Checked(ReadStr(ReadStr(Checked(Start(p, 14), 8))), 8), 4)
ParseFileOfferResp(p) ==
    LET r == Flag(Start(p, 9), {0})
        i == Unchecked(r, 8)
    IN  IF LastFlag(r) THEN Default(i, <<>>) ELSE OptStr(i)

ParseFileAcceptReq(p) == Flag(Unchecked(Start(p, 9), 8), {1})
ParseFileAcceptResp(p) ==
    LET r == Flag(Start(p, 1), {0})
    IN  IF LastFlag(r) THEN Default(r, <<>>) ELSE OptStr(r)
ParseFileChunk(p) == Rest(Unchecked(Unchecked(Start(p, 12), 8), 4))

\* 16 bytes are asked for, 20 are read.
ParseFileDone(p) == Unchecked(Unchecked(Unchecked(Start(p, 16), 8), 4), 8)
ParseFileResult(p) == OptStr(Flag(Unchecked(Start(p, 9), 8), {0}))

\* _parse_register_resp and _parse_login_resp of the gateway.
PyParseRegisterResp(p) == ReadStr(Flag(Start(p, 3), 1 .. 255))

\* Mutant: LOGIN_RESP without user_id and username, as auth_messages.h:119-125
\* has it.
PyParseLoginRespNoUser(p) ==
    LET r == Flag(Start(p, 3), 1 .. 255)
        t == IF LastFlag(r) THEN ReadStr(r) ELSE Default(r, <<>>)
    IN  ReadStr(Default(Default(t, 0), <<>>))

PyParseLoginResp(p) ==
    LET r == Flag(Start(p, 3), 1 .. 255)
    IN  ReadStr(IF LastFlag(r) THEN ReadStr(Checked(ReadStr(r), 8))
                ELSE Default(Default(Default(r, <<>>), 0), <<>>))

\* read_response of test_auth: REGISTER_RESP, whose msg_len is trusted.
CppParseRegisterResp(p) == RawStr(Flag(Start(p, 3), 1 .. 255))

\* read_response of test_auth: LOGIN_RESP as its comment in auth_messages.h
\* describes it, that is without user_id and username.
CppParseLoginResp(p) ==
    LET r == Flag(Start(p, 3), 1 .. 255)
    IN  OptStr(IF LastFlag(r) THEN OptStr(r) ELSE Default(r, <<>>))

\* _parse_online_list_resp: stops at the first name that does not fit.
PyParseOnlineList(p) ==
    LET s == Start(p, 2)
        count == IF s.err THEN 0 ELSE Number(s, 2)
        read[k \in 0 .. count] ==
            IF k = 0 THEN [s EXCEPT !.pos = 2] ELSE ReadStr(read[k - 1])
    IN  [read[count] EXCEPT !.err = FALSE]

Parse(by, type, p) ==
    CASE type = MsgType.HELLO -> ParseHello(p)
      [] type = MsgType.REGISTER_REQ -> ParseRegisterReq(p)
      [] type = MsgType.LOGIN_REQ -> ParseLoginReq(p)
      [] type = MsgType.REGISTER_RESP ->
            IF by = "gateway" THEN PyParseRegisterResp(p) ELSE CppParseRegisterResp(p)
      [] type = MsgType.LOGIN_RESP ->
            IF by = "gateway" THEN PyParseLoginResp(p) ELSE CppParseLoginResp(p)
      [] type = MsgType.ONLINE_LIST_RESP -> PyParseOnlineList(p)
      [] type = MsgType.FILE_OFFER_REQ -> ParseFileOfferReq(p)
      [] type = MsgType.FILE_OFFER_RESP -> ParseFileOfferResp(p)
      [] type = MsgType.FILE_ACCEPT_REQ -> ParseFileAcceptReq(p)
      [] type = MsgType.FILE_ACCEPT_RESP -> ParseFileAcceptResp(p)
      [] type = MsgType.FILE_CHUNK -> ParseFileChunk(p)
      [] type = MsgType.FILE_DONE -> ParseFileDone(p)
      [] type = MsgType.FILE_RESULT -> ParseFileResult(p)
=============================================================================
