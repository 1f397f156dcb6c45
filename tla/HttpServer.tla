----------------------------- MODULE HttpServer -----------------------------
(***************************************************************************)
(* HttpServer (src/src/proto/http/HttpServer.cc) on one connection: a      *)
(* client sends requests over a keep-alive connection, TCP delivers them   *)
(* in pieces of any size, and each read is followed by one call of the     *)
(* decoder and, when it returns a request, by OnRequest, which builds the  *)
(* response (HttpResp) that is sent.                                       *)
(***************************************************************************)
EXTENDS HttpReqDecoder, SequencesExt

Byte == 0..255

CONSTANTS
    Requests,      \* the requests the client may send
    MaxRequests,   \* bound on the requests of one connection
    BodyMaxBytes,  \* the argument of SetBodyMaxBytes
    OnRequest(_),  \* the sequences of calls OnRequest may make for a request
    Cuts(_, _)     \* where a read may end inside the i-th request, r

ASSUME SizesAssumption == MethodLimit \in Nat /\ BodyMaxBytes \in Nat /\ MaxRequests \in Nat

\* The requests are ones the server knows: no word holds the byte that ends it, and
\* the body is one that ParseBody does not cut.
ASSUME RequestsAssumption ==
    \A r \in Requests :
        /\ r \in [method : Methods \cap Seq(Byte), request_uri : Seq(Byte),
                  version : Versions \cap Seq(Byte), headers : Seq(Seq(Byte) \X Seq(Byte)),
                  body : Seq(Byte)]
        /\ SP \notin ToSet(r.method) /\ SP \notin ToSet(r.request_uri)
        /\ CR \notin ToSet(r.version)
        /\ \A h \in ToSet(r.headers) :
              COLON \notin ToSet(h[1]) /\ CR \notin ToSet(h[1]) /\ CR \notin ToSet(h[2])
        /\ Len(r.body) <= BodyMaxBytes

VARIABLES
    d,         \* the decoder of the connection
    wire,      \* bytes the client has sent and the server has not read, each
               \* with whether a read may end behind it
    asked,     \* the requests of this connection
    answered,  \* what OnRequest was called with
    reply      \* the response under way: the calls of OnRequest and the text

vars == <<d, wire, asked, answered, reply>>

R == INSTANCE HttpResp

NoReply == [calls |-> <<>>, text |-> <<>>]

FirstOf(headers) ==
    [n \in {FoldCase(h[1]) : h \in ToSet(headers)} |->
        LET i == Min({j \in DOMAIN headers : FoldCase(headers[j][1]) = n}) IN headers[i][2]]

\* The bytes of a request.
Encode(r) ==
    r.method \o <<SP>> \o r.request_uri \o <<SP>> \o r.version \o CRLF
      \o FlattenSeq([i \in DOMAIN r.headers |->
                        r.headers[i][1] \o <<COLON, SP>> \o r.headers[i][2] \o CRLF])
      \o CRLF \o r.body

\* A line begins behind the first p bytes of e.
LineStart(e, p) == p >= 2 /\ e[p - 1] = CR /\ e[p] = LF

\* When they have arrived, and no more, ParseHeaders looks at a byte that has not.
LooksAhead(e, p) == LineStart(e, p) \/ (LineStart(e, p - 1) /\ e[p] = CR)

\* Where a read may end inside the i-th request, r, for the decoder to wait for the
\* rest: not behind the headers, as ParseBody waits for nothing, and where ParseHeaders
\* does not look ahead, except in the first request, whose memory is still zero.  The
\* method is shorter than the limit of ParseRequestLine, and the request fits in the
\* vector.
SafeCuts(i, r) ==
    {p \in 1..(Len(Encode(r)) - Len(r.body) - 1) :
        /\ Len(r.method) < MethodLimit /\ Len(Encode(r)) <= InitSize
        /\ i = 1 \/ ~LooksAhead(Encode(r), p)}

CutsAreSafe == \A i \in 1..MaxRequests, r \in Requests : Cuts(i, r) \subseteq SafeCuts(i, r)

Init ==
    /\ d = NewDecoder(NewBuffer, BodyMaxBytes)
    /\ wire = <<>> /\ asked = <<>> /\ answered = <<>> /\ reply = NoReply

\* A read may end behind the last byte and behind those of cuts.
Marked(bytes, cuts) ==
    [i \in DOMAIN bytes |-> [byte |-> bytes[i], cut |-> i \in cuts \/ i = Len(bytes)]]

\* The client waits for the response before it sends another request.
ClientRequests ==
    /\ Len(asked) < MaxRequests
    /\ wire = <<>> /\ Len(answered) >= Len(asked)
    /\ \E r \in Requests :
        /\ asked' = Append(asked, r)
        /\ wire' = Marked(Encode(r), Cuts(Len(asked'), r))
    /\ reply' = NoReply
    /\ UNCHANGED <<d, answered>>

\* OnRequest is called, and the text of the response is sent, unless ToString
\* throws, which nobody catches.
Respond(dec) ==
    \E calls \in OnRequest(dec.req) :
        LET resp == R!Built(calls) IN
        /\ answered' = Append(answered, dec.req)
        /\ reply' = IF R!Throws(resp) THEN NoReply
                    ELSE [calls |-> calls, text |-> R!RespToString(resp)]
        /\ d' = IF R!Throws(resp) THEN [MovedOut(dec) EXCEPT !.state = "Thrown"]
                ELSE MovedOut(dec)

\* TcpConn::OnChannelReadable has read n bytes and calls OnDataReceived.
OnTcpReceivedData ==
    /\ d.state # "Thrown"
    /\ \E n \in {i \in DOMAIN wire : wire[i].cut}, beyond \in Beyond :
        /\ LET bytes == [i \in 1..n |-> wire[i].byte]
               read  == [d EXCEPT !.buf = B!ReadBytesFromFd(@, bytes)]
           IN  \E dec \in {DecodeLoop(read, beyond)} :
                \/ dec.state = "ParseFinished" /\ Respond(dec)
                \/ dec.state # "ParseFinished" /\ d' = dec /\ UNCHANGED <<answered, reply>>
        /\ wire' = SubSeq(wire, n + 1, Len(wire))
    /\ UNCHANGED asked

\* The client hangs up and comes back: OnTcpConnected makes a new decoder for the
\* buffer of the new connection.
OnTcpConnected ==
    /\ asked # <<>> /\ d.state # "Thrown"
    /\ d' = NewDecoder(NewBuffer, BodyMaxBytes)
    /\ wire' = <<>> /\ asked' = <<>> /\ answered' = <<>> /\ reply' = NoReply

Next == ClientRequests \/ OnTcpReceivedData \/ OnTcpConnected

Spec == Init /\ [][Next]_vars

-----------------------------------------------------------------------------
(* Properties.                                                             *)

\* The request as an application should see it.
Expected(r) ==
    [method |-> r.method, request_uri |-> r.request_uri, version |-> r.version,
     headers |-> FirstOf(r.headers),
     body |-> SubSeq(r.body, 1, IF Len(r.body) < BodyMaxBytes THEN Len(r.body) ELSE BodyMaxBytes),
     is_body_truncated |-> Len(r.body) > BodyMaxBytes]

\* OnRequest gives the arguments their types, and leaves Content-Length and Date to
\* HttpResp.
ASSUME CallsAssumption ==
    \A r \in Requests : \A calls \in OnRequest(Expected(r)) :
        /\ Len(calls) \in Nat /\ DOMAIN calls = 1..Len(calls)
        /\ \A i \in DOMAIN calls : R!IsCall(calls[i])

\* OnRequest is called with the requests that were sent, in order, each with its
\* own method, uri, version, headers and body, when reads end at SafeCuts: a request
\* that arrives in pieces over what earlier ones left in the buffer and in req has
\* nothing of them.
RequestsAsSent == IsPrefix(answered, [i \in DOMAIN asked |-> Expected(asked[i])])

\* Decode is called once per read and waits for more bytes otherwise: when the
\* client has nothing more to send, every request has been handed out and none is
\* stuck in the buffer, at whichever of SafeCuts it was cut.
NoRequestStuck == wire = <<>> => Len(answered) = Len(asked)

\* "reach the End of headers" (HttpReqDecoder.cc:111): OnRequest is not called before
\* all of the request line and the headers has been read.
HeadersReached ==
    (asked # <<>> /\ Len(answered) = Len(asked)) => Len(wire) <= Len(Last(asked).body)

\* Whatever OnRequest calls on its HttpResp, in whatever order: a header that has
\* one value is sent once, with the last value given, one that may have several is
\* sent with all of them in the order given, and Content-Length is the length of
\* the body that was set last and appended to since.
ResponseAsBuilt == reply # NoReply => R!AsGiven(reply.calls, reply.text)

=============================================================================
