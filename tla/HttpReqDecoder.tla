--------------------------- MODULE HttpReqDecoder ---------------------------
(***************************************************************************)
(* HttpReqDecoder (src/src/proto/http/HttpReqDecoder.cc): the incremental  *)
(* parser of HTTP requests that HttpServer runs on a connection's receive  *)
(* buffer after each read, and WebsocketCodec once for the handshake.      *)
(*                                                                         *)
(* A decoder is a record of the buffer it refers to, its state and the     *)
(* request it is building; the member functions are functions on that      *)
(* record.  A byte is its ASCII code; words (methods, uris, versions,      *)
(* names, values) are shorter than the real ones.  Offsets into the buffer *)
(* count from 0, as iterators do.                                          *)
(***************************************************************************)
EXTENDS Naturals, SequencesExt

CONSTANTS
    Methods,       \* the words of method_map
    Versions,      \* the words of version_map
    MethodLimit,   \* the 7 of ParseRequestLine
    InitSize,      \* the initial size of the receive buffer
    ExtraSize      \* sizeof(extra_buffer) in BaseBuffer::ReadBytesFromFd

ASSUME BufferAssumption == InitSize \in Nat /\ ExtraSize \in Nat

\* The functions of BaseBuffer on buffers; its own behaviour is not used here.
B == INSTANCE BaseBuffer
     WITH b <- <<>>, call <- <<>>, Bytes <- 0..255, SslSpace <- 0, MaxData <- 0, MaxSize <- 0

SP == 32
CR == 13
LF == 10
COLON == 58
CRLF == <<CR, LF>>

\* What the memory behind the end of the vector may hold.
Beyond == {[i \in 1..14 |-> 0], CRLF \o [i \in 1..12 |-> 0]}

Memory(k, beyond) == k.buffer \o beyond

EmptyReq ==
    [method |-> <<>>, request_uri |-> <<>>, version |-> <<>>, headers |-> <<>>,
     body |-> <<>>, is_body_truncated |-> FALSE]

NewBuffer == [buffer |-> B!Zeros(InitSize), read_idx |-> 0, write_idx |-> 0]

NewDecoder(k, max) ==
    [buf |-> k, state |-> "ExpectRequestLine", req |-> EmptyReq, body_max_bytes |-> max]

\* std::find and std::search: the first place of word in the readable bytes from
\* offset from on, or EndOfReadable.
Find(k, from, word) ==
    LET found == {p \in from..k.write_idx :
                    /\ p + Len(word) <= k.write_idx
                    /\ SubSeq(k.buffer, p + 1, p + Len(word)) = word}
    IN  IF found = {} THEN k.write_idx ELSE Min(found)

Word(k, from, to) == SubSeq(k.buffer, from + 1, to)

-----------------------------------------------------------------------------
(* Request-Line = Method SP Request-URI SP HTTP-Version CRLF.  The method  *)
(* and the uri are stored as soon as they are seen and parsed again when   *)
(* the line was not complete; version_map.at throws, and nobody catches.   *)

ParseRequestLine(dec) ==
    LET k       == dec.buf
        end     == k.write_idx
        sp1     == Find(k, k.read_idx, <<SP>>)
        sp2     == Find(k, sp1 + 1, <<SP>>)
        crlf    == Find(k, sp2 + 1, CRLF)
        method  == Word(k, k.read_idx, sp1)
        version == Word(k, sp2 + 1, crlf)
        dropped == [dec EXCEPT !.buf = B!DropAllBytes(k)]
        atUri   == [dec EXCEPT !.req.method = method]
        atVersion == [atUri EXCEPT !.req.request_uri = Word(k, sp1 + 1, sp2)]
    IN  CASE sp1 = end -> IF B!ReadableBytes(k) >= MethodLimit THEN dropped ELSE dec
          [] sp1 # end /\ method \notin Methods -> dropped
          [] sp1 # end /\ method \in Methods /\ sp2 = end -> atUri
          [] sp1 # end /\ method \in Methods /\ sp2 # end /\ crlf = end -> atVersion
          [] OTHER -> IF version \in Versions
                      THEN [atVersion EXCEPT !.req.version = version,
                                             !.buf = B!DropBytesUntil(k, crlf + 2),
                                             !.state = "ExpectHeaders"]
                      ELSE [atVersion EXCEPT !.state = "Thrown"]

\* The bytes of a C string: those before the first zero.
CString(bytes) ==
    SubSeq(bytes, 1, Min({Len(bytes)} \cup {i - 1 : i \in {j \in DOMAIN bytes : bytes[j] = 0}}))

\* CaseInsensitiveComparator: two names are the same header when strcasecmp finds no
\* difference, that is, when their C strings are the same in lower case.
FoldCase(name) ==
    LET s == CString(name)
    IN  [i \in DOMAIN s |-> IF s[i] \in 65..90 THEN s[i] + 32 ELSE s[i]]

\* headers.emplace keeps the first value of a name, however the name is spelled.  A
\* name stands in the map as FoldCase has it: only HttpReq::ToString shows its spelling.
AddHeader(headers, name, value) ==
    LET key == FoldCase(name)
    IN  [n \in DOMAIN headers \union {key} |-> IF n \in DOMAIN headers THEN headers[n] ELSE value]

\* Mutant: the last line end is only seen when a byte follows it.
EndOfHeadersLate(k, beyond) ==
    B!ReadableBytes(k) > 2 /\ SubSeq(Memory(k, beyond), k.read_idx + 1, k.read_idx + 2) = CRLF

\* The first condition of the loop of ParseHeaders: two bytes are looked at,
\* whether or not they have been received.
EndOfHeaders(k, beyond) ==
    SubSeq(Memory(k, beyond), k.read_idx + 1, k.read_idx + 2) = CRLF

\* One turn of the loop of ParseHeaders, at the line t.read_idx; the turns after a
\* return or the break change nothing.
HeaderLine(k, t, beyond) ==
    LET end   == k.write_idx
        rest  == B!DropBytesUntil(k, t.read_idx)
        colon == Find(rest, t.read_idx, <<COLON>>)
        crlf  == Find(rest, colon + 1, CRLF)
        from  == IF k.buffer[colon + 2] = SP THEN colon + 2 ELSE colon + 1
    IN  IF EndOfHeaders(rest, beyond) \/ colon = end \/ crlf = end THEN t
        ELSE [read_idx |-> crlf + 2,
              headers |-> AddHeader(t.headers, Word(k, t.read_idx, colon), Word(k, from, crlf))]

\* The loop: as many turns as it can take, a line being at least a byte long.
HeaderLines(dec, beyond) ==
    LET turns == B!ReadableBytes(dec.buf)
        after[n \in 0..turns] ==
            IF n = 0 THEN [read_idx |-> dec.buf.read_idx, headers |-> dec.req.headers]
            ELSE HeaderLine(dec.buf, after[n - 1], beyond)
    IN  after[turns]

ParseHeaders(dec, beyond) ==
    LET lines == HeaderLines(dec, beyond)
        read  == [dec EXCEPT !.buf = B!DropBytesUntil(@, lines.read_idx),
                             !.req.headers = lines.headers]
    IN  IF EndOfHeaders(read.buf, beyond)
        THEN [read EXCEPT !.buf = B!DropBytes(@, 2), !.state = "ExpectBody"]
        ELSE read

ParseBody(dec) ==
    LET size     == B!ReadableBytes(dec.buf)
        max_size == IF size < dec.body_max_bytes THEN size ELSE dec.body_max_bytes
    IN  [dec EXCEPT !.req.is_body_truncated = @ \/ max_size > dec.body_max_bytes,
                    !.req.body = SubSeq(B!ToString(dec.buf), 1, max_size),
                    !.state = "ParseFinished",
                    !.buf = B!DropAllBytes(dec.buf)]

\* The loop of Decode: each state either leads to the next one or returns.  In the
\* result the state is ParseFinished when Decode has a value to return.
AtRequestLine(dec) == IF dec.state = "ExpectRequestLine" THEN ParseRequestLine(dec) ELSE dec
AtHeaders(dec, beyond) == IF dec.state = "ExpectHeaders" THEN ParseHeaders(dec, beyond) ELSE dec
AtBody(dec) == IF dec.state = "ExpectBody" THEN ParseBody(dec) ELSE dec

DecodeLoop(dec, beyond) == AtBody(AtHeaders(AtRequestLine(dec), beyond))

\* Mutant: the request is copied and not moved out.
MovedOutCopied(dec) == [dec EXCEPT !.state = "ExpectRequestLine"]

\* The last case of Decode: what std::move leaves of the request.
MovedOut(dec) ==
    [dec EXCEPT !.state = "ExpectRequestLine",
                !.req.request_uri = <<>>, !.req.headers = <<>>, !.req.body = <<>>]

=============================================================================
