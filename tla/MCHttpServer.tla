---------------------------- MODULE MCHttpServer ----------------------------
(* HttpServer for TLC: methods of one and two letters (GET and OPTIONS),   *)
(* uris, versions, names and values of one, bodies of up to two bytes.     *)
EXTENDS HttpServer

GET == <<71>>
OPTIONS == <<79, 80>>
HTTP11 == <<49>>
MCMethods == {GET, OPTIONS}
MCVersions == {HTTP11}

Host == <<<<104>>, <<1>>>>
Key == <<<<107>>, <<2>>>>
KeyAgain == <<<<75>>, <<3>>>>

Request(method, headers, body) ==
    [method |-> method, request_uri |-> <<47>>, version |-> HTTP11,
     headers |-> headers, body |-> body]

\* Up to two headers, one of them sent again in upper case; a body that looks like a
\* line end.
MCRequests ==
    {Request(m, h, body) : m \in MCMethods,
        h \in {<<>>, <<Host>>, <<Host, Key>>, <<Key, KeyAgain>>},
        body \in {<<>>, <<5>>, CRLF}}

MCCuts(i, r) == SafeCuts(i, r)

\* Requests without a body, cut anywhere.
MCBodyless == {r \in MCRequests : r.body = <<>>}
MCAnyCuts(i, r) == 1..Len(Encode(r))

\* What OnRequest may call; 299 has no phrase.
MCCalls ==
    {<<"AddHeader", n, v, b>> : n \in {R!ContentType, R!Etag}, v \in {7, 8}, b \in BOOLEAN}
        \union {<<"SetContentType", 9>>, <<"SetServer", 9>>, <<"SetRedirect", 9, 302>>,
                <<"AddEtag", 9>>, <<"SetKeepAlive">>, <<"SetStatus", 404>>,
                <<"SetStatus", 299>>, <<"SetBody", <<1>>>>, <<"AppendBody", <<2, 3>>>>}

\* Up to three calls for one request, none for the others.
MCOnRequest(req) ==
    IF req.method = OPTIONS /\ DOMAIN req.headers = {} /\ req.body = <<>>
    THEN UNION {[1..n -> MCCalls] : n \in 0..3}
    ELSE {<<>>}

=============================================================================
