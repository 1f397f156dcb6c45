-------------------------- MODULE MCWebsocketServer --------------------------
(* WebsocketServer for TLC: words of one letter, keys of four different    *)
(* bytes, payloads longer than a key.                                      *)
EXTENDS WebsocketServer, Bitwise

MCXorByte(x, y) == x ^^ y

MCGET == <<71>>
MCHttp10 == <<48>>
MCHttp11 == <<49>>
MCMethods == {MCGET, <<80>>}
MCVersions == {MCHttp10, MCHttp11}
MCRequiredHeaders == {<<104>>, <<107>>}

RequestLine(method, version) == method \o <<SP, 47, SP>> \o version \o CRLF
HostLine == <<104, COLON, SP, 1>> \o CRLF
HostLineUpper == <<72, COLON, SP, 1>> \o CRLF
KeyLine == <<107, COLON, SP, 2>> \o CRLF

\* Names of headers in either case.
MCGood == {RequestLine(MCGET, MCHttp11) \o HostLine \o KeyLine \o CRLF,
           RequestLine(MCGET, MCHttp11) \o HostLineUpper \o KeyLine \o CRLF}

MCHandshakes == MCGood \cup
    {RequestLine(MCGET, MCHttp11) \o KeyLine \o CRLF,
     RequestLine(MCGET, MCHttp10) \o HostLine \o KeyLine \o CRLF,
     RequestLine(<<80>>, MCHttp11) \o HostLine \o KeyLine \o CRLF}

MCFrame(type, mask, width, payload) ==
    [type |-> type, mask |-> mask, key |-> <<11, 22, 33, 44>>, width |-> width,
     payload |-> payload]

\* A frame with each of the three lengths of a head.
MCDataFrames ==
    {MCFrame(kText, 1, 0, <<1, 2, 3, 4, 5>>), MCFrame(2, 1, 2, <<7>>), MCFrame(2, 1, 8, <<8, 9>>),
     MCFrame(9, 1, 0, <<>>)}

MCFrames == MCDataFrames \cup {MCFrame(kClose, 1, 0, <<>>), MCFrame(kText, 0, 0, <<1>>)}

=============================================================================
