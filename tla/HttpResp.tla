------------------------------ MODULE HttpResp ------------------------------
(***************************************************************************)
(* HttpResp (src/src/proto/http/HttpResp.cc): the response an application  *)
(* builds in OnRequest by any sequence of calls, and the text made of it.  *)
(*                                                                         *)
(* A response is a record of the members; the member functions are         *)
(* functions on that record.  headers is a multimap: a sequence of pairs   *)
(* sorted by name.  A name is a number, in alphabetical order; values are  *)
(* numbers; a body is a sequence.  The text is a record of its lines.      *)
(***************************************************************************)
EXTENDS Naturals, SequencesExt

Connection == 1
ContentLength == 2
ContentType == 3
DateName == 4
Etag == 5
Location == 6
Server == 7

\* The keys of status_map.
StatusMap ==
    {100, 101} \union (200..206) \union (300..305) \union {307}
        \union (400..417) \union (500..505)

NewResp == [headers |-> <<>>, status_code |-> 200, body |-> <<>>]

\* std::multimap::emplace: behind the values of the same name.
Emplace(headers, name, value) ==
    LET before == {i \in DOMAIN headers : headers[i][1] <= name}
    IN  InsertAt(headers, Cardinality(before) + 1, <<name, value>>)

\* Mutant: AddHeader never overwrites.
AddHeaderAlways(r, name, value, multiple) ==
    [r EXCEPT !.headers = Emplace(@, name, value)]

\* find returns the first header of the name; a value that is not one of several
\* overwrites it.
AddHeader(r, name, value, multiple) ==
    LET found == {i \in DOMAIN r.headers : r.headers[i][1] = name}
    IN  IF multiple \/ found = {}
        THEN [r EXCEPT !.headers = Emplace(@, name, value)]
        ELSE [r EXCEPT !.headers[Min(found)][2] = value]

SetContentType(r, content_type) == AddHeader(r, ContentType, content_type, FALSE)

SetServer(r, server_name) == AddHeader(r, Server, server_name, FALSE)

SetRedirect(r, location, status_code) ==
    AddHeader([r EXCEPT !.status_code = status_code], Location, location, FALSE)

AddEtag(r, etag) == AddHeader(r, Etag, etag, TRUE)

KeepAlive == 0
SetKeepAlive(r) == AddHeader(r, Connection, KeepAlive, FALSE)

SetStatus(r, status_code) == [r EXCEPT !.status_code = status_code]

SetBody(r, body) == [r EXCEPT !.body = body]

AppendBody(r, body) == [r EXCEPT !.body = @ \o body]

GetContentLength(r) == Len(r.body)

\* status_map.at throws when the status has no phrase.
Throws(r) == r.status_code \notin StatusMap

\* The headers, then the length and the date, then the body.
RespToString(r) ==
    [status |-> r.status_code,
     headers |-> r.headers \o <<<<ContentLength, GetContentLength(r)>>, <<DateName, 0>>>>,
     body |-> r.body]

-----------------------------------------------------------------------------
(* The application: a call is a tuple of the function's name and arguments. *)

IsCall(call) ==
    \/ /\ call[1] = "AddHeader" /\ call[2] \in Nat \ {0, ContentLength, DateName}
       /\ call[3] \in Nat /\ call[4] \in BOOLEAN
    \/ call[1] \in {"SetContentType", "SetServer", "SetRedirect", "AddEtag"} /\ call[2] \in Nat
    \/ call[1] \in {"SetKeepAlive", "SetStatus"}
    \/ call[1] \in {"SetBody", "AppendBody"} /\ call[2] \in Seq(0..255)

Call(r, call) ==
    CASE call[1] = "AddHeader"      -> AddHeader(r, call[2], call[3], call[4])
      [] call[1] = "SetContentType" -> SetContentType(r, call[2])
      [] call[1] = "SetServer"      -> SetServer(r, call[2])
      [] call[1] = "SetRedirect"    -> SetRedirect(r, call[2], call[3])
      [] call[1] = "AddEtag"        -> AddEtag(r, call[2])
      [] call[1] = "SetKeepAlive"   -> SetKeepAlive(r)
      [] call[1] = "SetStatus"      -> SetStatus(r, call[2])
      [] call[1] = "SetBody"        -> SetBody(r, call[2])
      [] call[1] = "AppendBody"     -> AppendBody(r, call[2])

\* The response after all of them, in turn.
Built(calls) ==
    LET after[n \in 0..Len(calls)] ==
            IF n = 0 THEN NewResp ELSE Call(after[n - 1], calls[n])
    IN  after[Len(calls)]

-----------------------------------------------------------------------------
(* What the text should be, said of the calls and not of the multimap.     *)

NoName == 0

\* The header a call gives a value to, the value, and whether it is one of several.
NameOf(call) ==
    CASE call[1] = "AddHeader"      -> call[2]
      [] call[1] = "SetContentType" -> ContentType
      [] call[1] = "SetServer"      -> Server
      [] call[1] = "SetRedirect"    -> Location
      [] call[1] = "AddEtag"        -> Etag
      [] call[1] = "SetKeepAlive"   -> Connection
      [] OTHER                      -> NoName

ValueOf(call) ==
    CASE call[1] = "AddHeader"    -> call[3]
      [] call[1] = "SetKeepAlive" -> KeepAlive
      [] OTHER                    -> call[2]

IsOneOfSeveral(call) == call[1] = "AddEtag" \/ (call[1] = "AddHeader" /\ call[4])

Lines(headers, name) == {i \in DOMAIN headers : headers[i][1] = name}

\* The lines are those of the calls, in the order of the calls.
InOrderOfCalls(calls, given, headers, lines) ==
    \E line \in [given -> lines] :
        /\ lines = {line[i] : i \in given}
        /\ \A i, j \in given : i < j => line[i] < line[j]
        /\ \A i \in given : headers[line[i]][2] = ValueOf(calls[i])

\* The values of a header that is always one of several are all there, in the
\* order of the calls; of one that never is, the last.  One given in both ways is
\* left open.
HeaderAsGiven(calls, headers, name) ==
    LET given == {i \in DOMAIN calls : NameOf(calls[i]) = name}
        lines == Lines(headers, name)
    IN  /\ (\A i \in given : IsOneOfSeveral(calls[i])) =>
              InOrderOfCalls(calls, given, headers, lines)
        /\ given # {} /\ (\A i \in given : ~IsOneOfSeveral(calls[i])) =>
              \E n \in lines : lines = {n} /\ headers[n][2] = ValueOf(calls[Max(given)])

\* The body is what was set last and what was appended since.
BodyAsGiven(calls, body) ==
    LET sets == {i \in DOMAIN calls : calls[i][1] = "SetBody"}
        from == IF sets = {} THEN 0 ELSE Max(sets)
    IN  body = FlattenSeq([i \in DOMAIN calls |->
                              IF i >= from /\ calls[i][1] \in {"SetBody", "AppendBody"}
                              THEN calls[i][2] ELSE <<>>])

\* Content-Length is there once and frames the body.
LengthIsThere(text) ==
    \E n \in DOMAIN text.headers :
        /\ Lines(text.headers, ContentLength) = {n}
        /\ text.headers[n][2] = Len(text.body)

AsGiven(calls, text) ==
    /\ \A name \in {Connection, ContentType, Etag, Location, Server} :
            HeaderAsGiven(calls, text.headers, name)
    /\ BodyAsGiven(calls, text.body)
    /\ LengthIsThere(text)

=============================================================================
