--------------------------- MODULE WebsocketServer ---------------------------
(***************************************************************************)
(* WebsocketServer and WebsocketCodec (src/src/proto/ws/) on one           *)
(* connection: a handshake that is an HTTP request, then frames, which TCP *)
(* delivers in pieces.  Each read is followed by one call of               *)
(* WebsocketCodec::Decode and, when it returns a frame, by OnRequest and a *)
(* reply.                                                                  *)
(*                                                                         *)
(* The codec is a record of the receive buffer of its connection, whether  *)
(* that connection is open, and its members.  The required headers of the  *)
(* handshake are a constant, and its response is not modelled.             *)
(***************************************************************************)
EXTENDS HttpReqDecoder

CONSTANTS
    Handshakes,       \* the bytes of the handshake requests a client may send
    GET,              \* the method and
    Http11,           \* the version a handshake must have
    RequiredHeaders,  \* and the headers
    Frames,           \* the frames a client may send
    MaxFrames,        \* bound on the frames of one connection
    RespSizes,        \* the sizes of the payloads an application replies with
    SplitHandshake,   \* TRUE: the handshake may arrive in pieces
    SplitHeads,       \* TRUE: a frame head may arrive in pieces
    Pipelined,        \* TRUE: a client sends frames without waiting for replies
    XorByte(_, _)     \* the operator ^ on bytes

Byte == 0..255

\* What a client may send: a length that fits the width it is given in, and the last
\* two bytes of that.
LengthLimit(width) == IF width = 0 THEN 126 ELSE 65536

Frame ==
    {f \in [type : 0..15, mask : {0, 1}, key : [1..4 -> Byte], width : {0, 2, 8},
             payload : Seq(Byte)] : Len(f.payload) < LengthLimit(f.width)}

ASSUME XorAssumption ==
    \A x, y \in Byte : XorByte(x, y) \in Byte /\ XorByte(XorByte(x, y), y) = x
ASSUME ClientAssumption ==
    (\A f \in Frames : f \in Frame) /\ (\A h \in Handshakes : h \in Seq(Byte))
ASSUME BoundAssumption == MaxFrames \in Nat

VARIABLES
    c,         \* the codec
    wire,      \* what the client has sent and the server has not read
    shaken,    \* the client has sent its handshake
    asked,     \* the frames of this connection
    begins,    \* where each of them, and the next, begins in the bytes of all
    received,  \* what OnRequest was called with
    reply      \* the last reply: the head that was sent and the payload's size

vars == <<c, wire, shaken, asked, begins, received, reply>>

kText == 1
kClose == 8

NewCodec ==
    [buf |-> NewBuffer, open |-> TRUE, state |-> "ExceptHandshake",
     req |-> [type |-> 0, payload |-> <<>>],
     mask_key |-> <<0, 0, 0, 0>>, payload_remains |-> 0, last_read_idx |-> 0,
     close_frame |-> <<>>]

NoReply == [head |-> <<>>, size |-> 0]

-----------------------------------------------------------------------------
(* WebsocketCodec.                                                         *)

ValidHandshake(req) ==
    /\ req.method = GET
    /\ req.version = Http11
    /\ \A name \in RequiredHeaders : FoldCase(name) \in DOMAIN req.headers

\* What the decoder http makes of the codec w.
Shaken(w, http) ==
    LET valid == ValidHandshake(http.req)
    IN  CASE http.state = "Thrown" -> [w EXCEPT !.state = "Thrown"]
          [] http.state \notin {"Thrown", "ParseFinished"} -> [w EXCEPT !.buf = http.buf]
          [] http.state = "ParseFinished" /\ ~valid ->
                [w EXCEPT !.buf = http.buf, !.open = FALSE]
          [] OTHER -> [w EXCEPT !.buf = http.buf, !.state = "ExceptFrameHead"]

\* A new HttpReqDecoder each time, on a buffer from which an earlier one may have
\* taken the request line.
HandShake(w, beyond) == Shaken(w, DecodeLoop(NewDecoder(w.buf, 2 * 1024 * 1024), beyond))

Join(high, low) == 256 * high + low
be16toh(b) == Join(b[1], b[2])
be32toh(b) == Join(Join(be16toh(b), b[3]), b[4])
be64toh(b) == Join(Join(Join(Join(be32toh(b), b[5]), b[6]), b[7]), b[8])
BigEndian(bytes) == IF Len(bytes) = 2 THEN be16toh(bytes) ELSE be64toh(bytes)

\* fin and opcode, no mask, and the length: 7 bits, 2 bytes (htobe16) or 8 bytes
\* (htole64), made a std::string from a const char*.
EncodeFrameHead(size, type) ==
    LET low == size % 256
        high == (size \div 256) % 256
    IN  CString(<<128 + type>> \o
                IF size < 126 THEN <<size>>
                ELSE IF size < 65535 THEN <<126, high, low>>
                ELSE <<127, low, high, size \div 65536, 0, 0, 0, 0, 0>>)

\* Mutant: every control frame closes the connection.
MustCloseOnControl(mask, opcode) == mask = 0 \/ opcode >= kClose

MustClose(mask, opcode) == mask = 0 \/ opcode = kClose

\* A head is read from memory at BeginOfReadable, whether or not all of it has been
\* received.
HeadBytes(k, beyond, i, n) ==
    SubSeq(Memory(k, beyond), k.read_idx + i + 1, k.read_idx + i + n)

\* How many bytes of the head follow the length of 7 bits.
WidthOf(length) == IF length < 126 THEN 0 ELSE IF length = 126 THEN 2 ELSE 8

DecodeFrameHead(w, beyond) ==
    LET k       == w.buf
        head(i, n) == HeadBytes(k, beyond, i, n)
        opcode  == head(0, 1)[1] % 16
        mask    == head(1, 1)[1] \div 128
        length  == head(1, 1)[1] % 128
        width   == WidthOf(length)
    IN  IF MustClose(mask, opcode)
        THEN [w EXCEPT !.buf = B!DropAllBytes(k), !.open = FALSE,
                       !.close_frame = EncodeFrameHead(0, kClose)]
        ELSE [w EXCEPT !.payload_remains =
                            IF width = 0 THEN length ELSE BigEndian(head(2, width)),
                       !.mask_key = head(2 + width, 4),
                       !.buf = B!DropBytes(k, 2 + width + 4),
                       !.req.type = opcode,
                       !.state = "ExceptPayload"]

\* Mutant: each read starts with the first byte of the key.
MaskIndexFromZero(i, last) == i % 4

\* The byte of mask_key for the i-th byte read now, after last bytes read before.
MaskIndex(i, last) == (i + last) % 4

PayloadComplete(remains, size) == remains = size

\* Mutant: everything that was received is dropped with the payload.
TakePayloadAll(k, data) == B!DropAllBytes([k EXCEPT !.buffer = B!Store(@, k.read_idx, data)])

\* The bytes are unmasked in the buffer itself and dropped.
TakePayload(k, data) ==
    B!DropBytes([k EXCEPT !.buffer = B!Store(@, k.read_idx, data)], Len(data))

DecodePayload(w) ==
    LET k    == w.buf
        size == Min({B!ReadableBytes(k), w.payload_remains})
        data == [i \in 1..size |-> XorByte(k.buffer[k.read_idx + i],
                                       w.mask_key[MaskIndex(i - 1, w.last_read_idx) + 1])]
        done == PayloadComplete(w.payload_remains, size)
    IN  [w EXCEPT !.payload_remains = @ - size,
                  !.last_read_idx = IF done THEN 0 ELSE @ + size,
                  !.req.payload = @ \o data,
                  !.buf = TakePayload(k, data),
                  !.state = IF done THEN "ParseFinished" ELSE @]

AtPayload(w) == IF w.state = "ExceptPayload" THEN DecodePayload(w) ELSE w

\* The loop of Decode, which ends at the first frame that is complete.
Decode(w, beyond) ==
    IF w.state = "ExceptHandshake" THEN HandShake(w, beyond)
    ELSE AtPayload(IF w.state = "ExceptFrameHead" THEN DecodeFrameHead(w, beyond) ELSE w)

-----------------------------------------------------------------------------
(* The client.  A byte on the wire is marked when a read may end behind    *)
(* it.                                                                     *)

Marked(bytes, cut) == [i \in DOMAIN bytes |-> [byte |-> bytes[i], cut |-> cut \/ i = Len(bytes)]]

FrameHead(f) ==
    LET length == IF f.width = 0 THEN Len(f.payload) ELSE IF f.width = 2 THEN 126 ELSE 127
    IN  <<128 + f.type, 128 * f.mask + length>>
          \o [i \in 1..f.width |-> CASE i = f.width     -> Len(f.payload) % 256
                                    [] i = f.width - 1 -> Len(f.payload) \div 256
                                    [] OTHER           -> 0]
          \o IF f.mask = 1 THEN f.key ELSE <<>>

FramePayload(f) ==
    [i \in DOMAIN f.payload |->
        IF f.mask = 1 THEN XorByte(f.payload[i], f.key[((i - 1) % 4) + 1]) ELSE f.payload[i]]

FrameBytes(f) == FrameHead(f) \o FramePayload(f)

ClientHandshakes ==
    /\ ~shaken
    /\ shaken' = TRUE
    /\ \E h \in Handshakes : wire' = Marked(h, SplitHandshake)
    /\ UNCHANGED <<c, asked, begins, received, reply>>

ClientSendsFrame ==
    /\ c.open /\ c.state # "ExceptHandshake"
    /\ Len(asked) < MaxFrames
    /\ Pipelined \/ (wire = <<>> /\ Len(received) = Len(asked))
    /\ \E f \in Frames :
        /\ asked' = Append(asked, f)
        /\ begins' = Append(begins, begins[Len(begins)] + Len(FrameBytes(f)))
        /\ wire' = wire \o Marked(FrameHead(f), SplitHeads) \o Marked(FramePayload(f), TRUE)
    /\ UNCHANGED <<c, shaken, received, reply>>

-----------------------------------------------------------------------------
(* The server.                                                             *)

Init ==
    /\ c = NewCodec
    /\ wire = <<>> /\ shaken = FALSE
    /\ asked = <<>> /\ begins = <<0>> /\ received = <<>>
    /\ reply = NoReply

\* TcpConn::OnChannelReadable, which returns at once on a connection that was shut
\* down, has read n bytes and calls OnDataReceived.  A frame that is complete is
\* handed to OnRequest, and the reply is a head and a payload of any size.
OnTcpReceivedData ==
    /\ c.open /\ c.state # "Thrown"
    /\ \E n \in {i \in DOMAIN wire : wire[i].cut}, beyond \in Beyond :
        /\ LET bytes == [i \in 1..n |-> wire[i].byte]
               read  == [c EXCEPT !.buf = B!ReadBytesFromFd(@, bytes)]
           IN  \E w \in {Decode(read, beyond)} :
                \/ /\ w.state = "ParseFinished"
                   /\ c' = [w EXCEPT !.state = "ExceptFrameHead", !.req.payload = <<>>]
                   /\ received' = Append(received, w.req)
                   /\ \E size \in RespSizes :
                        reply' = [head |-> EncodeFrameHead(size, kText), size |-> size]
                \/ /\ w.state # "ParseFinished"
                   /\ c' = w
                   /\ UNCHANGED <<received, reply>>
        /\ wire' = SubSeq(wire, n + 1, Len(wire))
    /\ UNCHANGED <<shaken, asked, begins>>

\* The client hangs up and comes back: a new codec for a new connection.
OnTcpConnected ==
    /\ shaken /\ c.state # "Thrown"
    /\ c' = NewCodec
    /\ wire' = <<>> /\ shaken' = FALSE
    /\ asked' = <<>> /\ begins' = <<0>> /\ received' = <<>>
    /\ reply' = NoReply

Next == ClientHandshakes \/ ClientSendsFrame \/ OnTcpReceivedData \/ OnTcpConnected

Spec == Init /\ [][Next]_vars

-----------------------------------------------------------------------------
(* Properties.                                                             *)

\* OnRequest is called with the frames that were sent, in order, each with its own
\* type and its payload unmasked: the mask index goes on where the last read ended
\* and starts anew with each frame.
FramesAsSent ==
    IsPrefix(received, [i \in DOMAIN asked |-> [type |-> asked[i].type,
                                                payload |-> asked[i].payload]])

\* The server closes a connection only on a handshake it may refuse, or when the
\* next frame after those handed out is a close frame or has no mask.
ClosedOnRequest ==
    c.open \/ asked = <<>> \/
        LET next == Len(received) + 1
        IN  next \in DOMAIN asked /\ (asked[next].type = kClose \/ asked[next].mask = 0)

\* When all of a handshake has been read, the connection is a websocket or it has
\* been refused.
HandshakeAnswered ==
    (shaken /\ wire = <<>>) => (c.state # "ExceptHandshake" \/ ~c.open)

\* Decode hands out one frame per read.  When everything has been read, the frames
\* that have not been handed out are in the receive buffer, whole, in order and
\* still masked: unmasking in place and dropping bytes touches no later frame.
RestIsBuffered ==
    (c.open /\ wire = <<>> /\ c.state = "ExceptFrameHead") =>
        LET rest == B!ToString(c.buf)
            Place(i) == begins[i] - begins[Len(received) + 1]
        IN  /\ Len(rest) = Place(Len(asked) + 1)
            /\ \A i \in Len(received) + 1..Len(asked) :
                  SubSeq(rest, Place(i) + 1, Place(i + 1)) = FrameBytes(asked[i])

\* The length a client finds in the head of a reply (RFC 6455, 5.2), 0 included.
Announced(head) ==
    IF Len(head) < 2 THEN <<>>
    ELSE LET length == head[2] % 128
             width  == WidthOf(length)
         IN  IF Len(head) # 2 + width THEN <<>>
             ELSE IF width = 0 THEN <<length>>
             ELSE <<BigEndian(SubSeq(head, 3, Len(head)))>>

\* What EncodeFrameHead says of itself (WebsocketCodec.cc:191): a reply is 2 bytes of
\* head, 0, 2 or 8 bytes of length, and the data.  A client finds in every head the
\* length of the payload it was made for.
RepliesAreFramed == reply # NoReply => Announced(reply.head) = <<reply.size>>

=============================================================================
