----------------------------- MODULE HttpClient -----------------------------
(***************************************************************************)
(* The HTTP client (ArduinoHttpClient/src/HttpClient.cpp): one state       *)
(* machine, iState, for building a request and for reading its response    *)
(* symbol by symbol, over one connection after the other.  The server      *)
(* answers with one of a few responses and may stop anywhere in it; what   *)
(* it sends may always be too late for the call that waits for it.         *)
(*                                                                         *)
(* A symbol is what the parser tells apart: the prefix of a status line,   *)
(* its code, the halves of the two headers the parser knows, CR, LF, a     *)
(* digit, and "x" for any other character.                                 *)
(***************************************************************************)
EXTENDS Integers, Sequences

CONSTANTS
  Responses,    \* what the server may answer
  MaxRequests   \* bound: requests

VARIABLES
  http,      \* the fields of HttpClient
  alive,     \* connectionKeepAlive() was called: ~iConnectionClose
  link,      \* the connection is open
  coming,    \* what the server has still to send on it
  app,       \* how far the application is with a request
  doing,     \* the call that waits: [op, line, length, text]
  ret,       \* what the last call returned: [op, value]
  own,       \* history: the response to this request, and how it was begun
  wire,      \* history: what was written until the status was asked for, behind the
             \* last before
  slips,     \* history: "nothing" was read as a symbol, a begun request was "abandoned"
             \* or went on "unstarted" with a connection that is open, or was read from
  requests   \* history: requests so far

connVars == <<alive, link, coming>>
httpVars == <<http, connVars, app, doing, ret, own, wire, slips, requests>>

(***************************************************************************)
(* The states and results of HttpClient.h, and the symbols.                *)
(***************************************************************************)
eIdle == 0
eRequestStarted == 1
eRequestSent == 2
eReadingStatusCode == 3
eStatusCodeRead == 4
eReadingContentLength == 5
eSkipToEndOfHeader == 6
eLineStartingCRFound == 7
eReadingBody == 8
eReadingChunkLength == 9
eReadingBodyChunk == 10

HTTP_SUCCESS == 0
HTTP_ERROR_CONNECTION_FAILED == -1
HTTP_ERROR_API == -2
HTTP_ERROR_TIMED_OUT == -3
HTTP_ERROR_INVALID_RESPONSE == -4
kNoContentLengthHeader == -1

\* A prefix is two of its characters.  Content-Type begins like the one and, at
\* the T, like the other.
kContentLengthPrefix == <<"c", "l">>
kTransferEncodingChunked == <<"t", "e">>
ContentType == <<"c", "t", "x">>
CRLF == <<"CR", "LF">>

Number == [s \in {"0", "1", "2", "100", "200", "404"} |->
             CASE s = "0" -> 0 [] s = "1" -> 1 [] s = "2" -> 2
               [] s = "100" -> 100 [] s = "200" -> 200 [] s = "404" -> 404]
IsDigit(c) == c \in DOMAIN Number
Symbols == {"HTTP", "c", "l", "t", "e", "x", "CR", "LF"} \cup DOMAIN Number

\* A response: [code, interim, length, chunked, body], length a symbol or "none".
\* An informational response comes before it, without headers.
Line(words, rest) == words \o (CRLF \o rest)
Transfer(r) ==
  LET size == IF Len(r.body) = 2 THEN "2" ELSE "1"
      last == Line(<<"0">>, CRLF)
  IN IF ~ r.chunked THEN r.body
     ELSE IF r.body = <<>> THEN last ELSE Line(<<size>>, r.body \o (CRLF \o last))
EmptyLine(r) == CRLF \o Transfer(r)
CodingLine(r) ==
  IF r.chunked THEN Line(kTransferEncodingChunked, EmptyLine(r)) ELSE EmptyLine(r)
LengthLine(r) ==
  IF r.length = "none" THEN CodingLine(r)
  ELSE kContentLengthPrefix \o Line(<<r.length>>, CodingLine(r))
HeaderLines(r) == Line(ContentType, LengthLine(r))
Response(r) ==
  LET final == Line(<<"HTTP", r.code>>, HeaderLines(r))
  IN IF r.interim THEN Line(<<"HTTP", "100">>, CRLF \o final) ELSE final
LengthOf(r) == IF r.length = "none" THEN kNoContentLengthHeader ELSE Number[r.length]

\* A server announces the length its body has.  (A chunk's length is one symbol.)
ASSUME HttpAssumption ==
  /\ Responses # {}
  /\ \A r \in Responses :
       /\ r.code \in DOMAIN Number /\ r.length \in {"none"} \cup DOMAIN Number
       /\ r.interim \in BOOLEAN /\ r.chunked \in BOOLEAN /\ r.body \in Seq(Symbols)
       /\ r.length # "none" => Number[r.length] = Len(r.body)
       /\ r.chunked => Len(r.body) <= 2
  /\ MaxRequests \in Nat

(***************************************************************************)
(* The fields of the client.                                               *)
(***************************************************************************)
Fresh(length) ==
  [iState |-> eIdle, iStatusCode |-> 0, iContentLength |-> length,
   iBodyLengthConsumed |-> 0, iContentLengthPtr |-> 0,
   iTransferEncodingChunkedPtr |-> 0, iIsChunked |-> FALSE, iChunkLength |-> 0]

\* (Bug: the length of the last response stays.)
ResetKeepsLength == Fresh(http.iContentLength)

ResetState == Fresh(kNoContentLengthHeader)

EndOfHeadersReached(h) ==
  h.iState \in {eReadingBody, eReadingChunkLength, eReadingBodyChunk}

\* read() of a byte: how much of the body has been read.
Counted(h) ==
  LET counts == EndOfHeadersReached(h) /\ h.iContentLength > 0
      chunk == IF h.iState = eReadingBodyChunk THEN h.iChunkLength - 1 ELSE h.iChunkLength
  IN [h EXCEPT !.iBodyLengthConsumed = IF counts THEN @ + 1 ELSE @,
               !.iChunkLength = chunk,
               !.iState = IF @ = eReadingBodyChunk /\ chunk = 0
                          THEN eReadingChunkLength ELSE @]

\* available(): a symbol of the line with a chunk's length.  A chunk without
\* bytes, the last or the empty line behind one, leads to the next length.
ChunkLength(h, c) ==
  IF c = "LF"
  THEN [h EXCEPT !.iState = IF h.iChunkLength = 0 THEN eReadingChunkLength
                            ELSE eReadingBodyChunk]
  ELSE IF IsDigit(c) THEN [h EXCEPT !.iChunkLength = 16 * @ + Number[c]]
  ELSE h

\* readHeader(): what it makes of a symbol, of -1 too.
Matches(prefix, ptr, c) == ptr < 2 /\ c = prefix[ptr + 1]
HeaderBegins(h, c) ==
  IF Matches(kContentLengthPrefix, h.iContentLengthPtr, c)
  THEN IF h.iContentLengthPtr = 0 THEN [h EXCEPT !.iContentLengthPtr = 1]
       ELSE [h EXCEPT !.iContentLengthPtr = 2, !.iState = eReadingContentLength,
                      !.iContentLength = 0, !.iBodyLengthConsumed = 0]
  ELSE IF Matches(kTransferEncodingChunked, h.iTransferEncodingChunkedPtr, c)
  THEN IF h.iTransferEncodingChunkedPtr = 0 THEN [h EXCEPT !.iTransferEncodingChunkedPtr = 1]
       ELSE [h EXCEPT !.iTransferEncodingChunkedPtr = 2, !.iIsChunked = TRUE,
                      !.iState = eSkipToEndOfHeader]
  ELSE IF c = "CR" /\ h.iContentLengthPtr = 0 /\ h.iTransferEncodingChunkedPtr = 0
  THEN [h EXCEPT !.iState = eLineStartingCRFound]
  ELSE [h EXCEPT !.iState = eSkipToEndOfHeader]

InLine(h, c) ==
  CASE h.iState = eStatusCodeRead -> HeaderBegins(h, c)
    [] h.iState = eReadingContentLength ->
         IF IsDigit(c) THEN [h EXCEPT !.iContentLength = 10 * @ + Number[c]]
         ELSE [h EXCEPT !.iState = eSkipToEndOfHeader]
    [] h.iState = eLineStartingCRFound /\ c = "LF" ->
         IF h.iIsChunked THEN [h EXCEPT !.iState = eReadingChunkLength, !.iChunkLength = 0]
         ELSE [h EXCEPT !.iState = eReadingBody]
    [] OTHER -> h
ReadHeader(h, c) ==
  IF EndOfHeadersReached(h) THEN h
  ELSE LET n == InLine(h, c)
       IN IF c = "LF" /\ ~ EndOfHeadersReached(n)
          THEN [n EXCEPT !.iState = eStatusCodeRead, !.iContentLengthPtr = 0,
                         !.iTransferEncodingChunkedPtr = 0]
          ELSE n

(***************************************************************************)
(* Requests.                                                               *)
(***************************************************************************)
Connected == link \/ coming # <<>>
Kept == alive /\ Connected
NoCall == [op |-> "none", line |-> FALSE, length |-> 0, text |-> <<>>]
Return(op, value) == ret' = [op |-> op, value |-> value] /\ doing' = NoCall

\* What is written reaches the server while the connection is open; the end of
\* the headers makes it answer.
LastToken(s) == IF s = <<>> THEN s ELSE <<s[Len(s)]>>
Writes(open, old, tokens) == wire' = IF open THEN old \o tokens ELSE old
Answers(open, begun, left) ==
  IF open THEN \E r \in Responses : own' = [of |-> r, begun |-> begun]
                                   /\ coming' = left \o Response(r)
  ELSE UNCHANGED own /\ coming' = left

BeginRequest ==
  /\ app = "free" /\ requests < MaxRequests
  /\ http' = [http EXCEPT !.iState = eRequestStarted]
  /\ app' = "begun"
  /\ UNCHANGED <<connVars, doing, ret, own, wire, slips, requests>>

\* startRequest(): of a connection that is kept, what has come of the last body
\* is read and thrown away; the state must be eIdle or eRequestStarted then; a
\* new connection is made unless one is kept.  A request that was not begun
\* ends its headers itself, and so does one with a body.
\* WiFiClient::connect() fails at the name, and then leaves the old connection and what
\* has come on it, or behind its stop(): then there is none, or one that is made later
\* than it waits for.  The application need not look at the result (IndoorMonitor.ino
\* does not): it writes the rest of a begun request.
Flushed == IF EndOfHeadersReached(http)
           THEN {SubSeq(coming, k + 1, Len(coming)) : k \in 0..Len(coming)} ELSE {coming}
StartState == IF EndOfHeadersReached(http) THEN ResetState ELSE http
MayStart(h) == h.iState \in {eIdle, eRequestStarted}
\* (Bug: every request ends its headers.)
EndsAlways(begun, body) == TRUE
Ends(begun, body) == body \/ (~ begun /\ StartState.iState = eIdle)

\* sendInitialHeaders(): the request line, Host, User-Agent and, on a connection that is not
\* kept, Connection: close.
InitialHeaders == <<"line">>

StartRequest(begun, body) ==
  /\ app = IF begun THEN "begun" ELSE "free"
  /\ begun \/ requests < MaxRequests
  /\ requests' = requests + 1
  /\ UNCHANGED alive
  /\ \E rest \in Flushed :
       \/ /\ ~ MayStart(StartState)
          /\ http' = StartState /\ coming' = rest
          /\ app' = "free"
          /\ Return("start", HTTP_ERROR_API)
          /\ UNCHANGED <<link, own, wire, slips>>
       \/ /\ MayStart(StartState) /\ ~ Kept
          /\ http' = StartState
          /\ \/ coming' = rest /\ UNCHANGED <<link, wire>>
             \/ coming' = <<>> /\ link' \in BOOLEAN /\ wire' = <<>>
          /\ \/ begun /\ app' = "headers"
                /\ slips' = IF link' \/ coming' # <<>> THEN slips \cup {"unstarted"} ELSE slips
             \/ app' = "free" /\ slips' = IF begun THEN slips \cup {"abandoned"} ELSE slips
          /\ Return("start", HTTP_ERROR_CONNECTION_FAILED)
          /\ UNCHANGED own
       \/ LET ends == Ends(begun, body)
          IN /\ MayStart(StartState)
             /\ link' = (Kept => link)
             /\ http' = [StartState EXCEPT !.iState = IF ends THEN eRequestSent
                                                      ELSE eRequestStarted]
             /\ Writes(link', IF Kept THEN LastToken(wire) ELSE <<>>,
                       InitialHeaders \o (IF ends THEN <<"end">> ELSE <<>>)
                         \o (IF body THEN <<"body">> ELSE <<>>))
             /\ IF ends THEN Answers(link', begun, IF Kept THEN rest ELSE <<>>)
                ELSE coming' = (IF Kept THEN rest ELSE <<>>) /\ UNCHANGED own
             /\ app' = IF begun /\ ~ body THEN "headers" ELSE "sent"
             /\ Return("start", HTTP_SUCCESS)
             /\ slips' = IF Kept THEN slips ELSE slips \ {"unstarted"}

\* get(), post(), put(), patch() and del(), with a body or without, by a caller that began
\* the request or did not.
Request == \E begun, body \in BOOLEAN : StartRequest(begun, body)

\* sendHeader() and, in groups of four characters, sendBasicAuth().
SendHeader ==
  /\ app = "headers"
  /\ wire # <<>> => wire[Len(wire)] # "header"
  /\ Writes(link, wire, <<"header">>)
  /\ UNCHANGED <<http, connVars, app, doing, ret, own, slips, requests>>

\* beginBody(), endRequest() and every write: the headers are ended once.
Finishes == http.iState < eRequestSent
Finish(tokens) ==
  /\ http' = IF Finishes THEN [http EXCEPT !.iState = eRequestSent] ELSE http
  /\ Writes(link, wire, (IF Finishes THEN <<"end">> ELSE <<>>) \o tokens)
  /\ IF Finishes THEN Answers(link, TRUE, coming) ELSE UNCHANGED <<coming, own>>
  /\ UNCHANGED <<alive, link, doing, ret, slips, requests>>
BeginBody == app = "headers" /\ Finish(<<>>) /\ app' = "body"
Write == app \in {"headers", "body"} /\ Finish(<<"body">>) /\ app' = "written"
EndRequest == app \in {"headers", "body", "written"} /\ Finish(<<>>) /\ app' = "sent"

Stop ==
  /\ app \in {"free", "sent"} /\ doing = NoCall
  /\ http' = ResetState
  /\ link' = FALSE /\ coming' = <<>> /\ wire' = <<>>
  /\ app' = "free" /\ slips' = slips \ {"unstarted"}
  /\ UNCHANGED <<alive, doing, ret, own, requests>>

(***************************************************************************)
(* The response.                                                           *)
(***************************************************************************)
Waits(op) == doing' = [NoCall EXCEPT !.op = op] /\ UNCHANGED ret
Mine == UNCHANGED <<alive, link, app, own, slips, requests>>

\* responseStatusCode().
StatusBegins ==
  /\ app = "sent" /\ doing = NoCall /\ ret.op = "start"
  /\ IF http.iState < eRequestSent
     THEN Return("status", HTTP_ERROR_API) /\ UNCHANGED http
     ELSE /\ Waits("status")
          /\ http' = [http EXCEPT !.iStatusCode = 0, !.iState = eRequestSent]
  /\ wire' = LastToken(wire)
  /\ UNCHANGED coming /\ Mine

Informational(h) == h.iStatusCode < 200 /\ h.iStatusCode # 101
StatusByte ==
  /\ doing.op = "status" /\ coming # <<>>
  /\ LET c == Head(coming)
         h == CASE http.iState = eRequestSent -> [http EXCEPT !.iState = eReadingStatusCode]
                [] http.iState = eReadingStatusCode ->
                     IF IsDigit(c) THEN [http EXCEPT !.iStatusCode = 10 * @ + Number[c]]
                     ELSE [http EXCEPT !.iState = eStatusCodeRead]
                [] OTHER -> http
     IN IF http.iState = eRequestSent /\ c # "HTTP"
        THEN Return("status", HTTP_ERROR_INVALID_RESPONSE) /\ UNCHANGED http
        ELSE IF c # "LF" THEN http' = h /\ UNCHANGED <<doing, ret>>
        ELSE IF Informational(h)
        THEN /\ http' = [h EXCEPT !.iStatusCode = 0, !.iState = eRequestSent]
             /\ UNCHANGED <<doing, ret>>
        ELSE http' = h /\ Return("status", h.iStatusCode)
  /\ coming' = Tail(coming) /\ UNCHANGED wire /\ Mine

\* Thirty seconds without a byte.  In an informational line they begin again.
StatusTimesOut ==
  /\ doing.op = "status"
  /\ IF http.iState = eStatusCodeRead /\ Informational(http)
     THEN /\ http' = [http EXCEPT !.iStatusCode = 0, !.iState = eRequestSent]
          /\ UNCHANGED <<doing, ret>>
     ELSE Return("status", HTTP_ERROR_TIMED_OUT) /\ UNCHANGED http
  /\ UNCHANGED <<coming, wire>> /\ Mine

\* skipResponseHeaders(), which reads only what is there, and headerAvailable(),
\* which does not look: what is not there it reads as -1, "nothing", and takes for a
\* symbol (bound: once, where nothing else went amiss).  The application asks for them
\* behind a status.
HeadersBegin(op) ==
  /\ app = "sent" /\ doing = NoCall /\ ret.op \in {"status", "headers", "line"}
  /\ ret.op = "status" => ret.value > 0
  /\ http.iState >= eRequestSent /\ ~ EndOfHeadersReached(http)
  /\ Waits(op)
  /\ UNCHANGED <<http, coming, wire>> /\ Mine

HeaderByte ==
  /\ doing.op \in {"headers", "line"} /\ coming # <<>>
  /\ LET c == Head(coming)
         h == ReadHeader(http, c)
         ended == doing.op = "line" /\ doing.line /\ c \in {"CR", "LF"}
     IN /\ http' = h
        /\ IF EndOfHeadersReached(h) \/ ended
           THEN Return(doing.op, HTTP_SUCCESS)
           ELSE /\ doing' = [doing EXCEPT !.line = @ \/ c \notin {"CR", "LF"}]
                /\ UNCHANGED ret
  /\ coming' = Tail(coming) /\ UNCHANGED wire /\ Mine

HeaderNothing ==
  /\ doing.op = "line" /\ slips = {}
  /\ http' = ReadHeader(http, "nothing")
  /\ doing' = [doing EXCEPT !.line = TRUE]
  /\ slips' = slips \cup {"nothing"}
  /\ UNCHANGED <<connVars, app, ret, own, wire, requests>>

HeadersTimeOut ==
  /\ doing.op = "headers"
  /\ Return("headers", HTTP_ERROR_TIMED_OUT)
  /\ UNCHANGED <<http, coming, wire>> /\ Mine

\* responseBody(), behind the headers or when they did not come: it reads up to
\* the length it has by now.
BodyBegins ==
  /\ app = "sent" /\ doing = NoCall
  /\ EndOfHeadersReached(http)
     \/ (ret.op = "headers" /\ ret.value = HTTP_ERROR_TIMED_OUT)
  /\ doing' = [NoCall EXCEPT !.op = "body", !.length = http.iContentLength]
  /\ UNCHANGED <<http, coming, ret, wire>> /\ Mine

BodyByte ==
  /\ doing.op = "body" /\ http.iBodyLengthConsumed # doing.length
  /\ coming # <<>>
  /\ IF http.iState = eReadingChunkLength
     THEN http' = ChunkLength(http, Head(coming)) /\ UNCHANGED doing
     ELSE http' = Counted(http) /\ doing' = [doing EXCEPT !.text = Append(@, Head(coming))]
  /\ coming' = Tail(coming) /\ UNCHANGED <<ret, wire>> /\ Mine

\* At the length, or after a second without a byte: what is not of the length
\* that was announced is no body.
\* (Bug: what has come is the body.)
BodyAsItIs == "text"
Body == IF doing.length > 0 /\ doing.length # Len(doing.text) THEN "null" ELSE "text"
BodyReturns ==
  /\ doing.op = "body"
  /\ ret' = [op |-> "body", value |-> IF Body = "null" THEN <<"null">> ELSE doing.text]
  /\ doing' = NoCall
  /\ UNCHANGED <<http, coming, wire>> /\ Mine

\* The application goes on to its next request, with whatever it has read.
Done ==
  /\ app = "sent" /\ doing = NoCall
  /\ app' = "free"
  /\ UNCHANGED <<http, connVars, doing, ret, own, wire, slips, requests>>

\* The server, or the network, ends the connection: all of the response has been
\* sent, or the rest of it is lost.
ServerCloses ==
  /\ link
  /\ link' = FALSE
  /\ coming' \in {coming, <<>>}
  /\ UNCHANGED <<http, alive, app, doing, ret, own, wire, slips, requests>>

HttpInit ==
  /\ http = Fresh(kNoContentLengthHeader) /\ alive \in BOOLEAN
  /\ link = FALSE /\ coming = <<>>
  /\ app = "free" /\ doing = NoCall
  /\ ret = [op |-> "none", value |-> 0]
  /\ own = [of |-> CHOOSE r \in Responses : TRUE, begun |-> FALSE]
  /\ wire = <<>> /\ slips = {} /\ requests = 0

HttpNext ==
  \/ BeginRequest \/ Request
  \/ SendHeader \/ BeginBody \/ Write \/ EndRequest \/ Stop
  \/ StatusBegins \/ StatusByte \/ StatusTimesOut
  \/ HeadersBegin("headers") \/ HeadersBegin("line")
  \/ HeaderByte \/ HeaderNothing \/ HeadersTimeOut
  \/ BodyBegins \/ BodyByte \/ BodyReturns \/ Done \/ ServerCloses

HttpSpec == HttpInit /\ [][HttpNext]_httpVars

(***************************************************************************)
(* Properties.                                                             *)
(***************************************************************************)
\* A status is that of the response to this request and of no other, however late
\* the one before it comes and however far it was read.  (On a kept connection it
\* need not be: a late response, or the one behind an informational one, is taken
\* for that to the next request.  Nor need it where the application did not look at the
\* result of the start: behind a name that was not found, the old connection is read.)
StatusIsOwn ==
  /\ ret.op = "status" /\ ret.value >= 200 /\ app = "sent"
  /\ ~ alive /\ "unstarted" \notin slips
  => ret.value = Number[own.of.code]

\* And contentLength() is the announced one of this response, "or
\* kNoContentLengthHeader if no Content-Length header was returned by the server", on a
\* connection of its own, although the last response may have been left anywhere.  A
\* request that was begun, as the sketch's are, is not reset: it gets its own length when
\* the server announces one (behind another header), and else may keep the last one's.
LengthIsOwn ==
  /\ app = "sent" /\ EndOfHeadersReached(http) /\ ~ alive /\ slips = {}
  /\ own.begun => own.of.length # "none"
  => http.iContentLength = LengthOf(own.of)

ResponseIsOwn == StatusIsOwn /\ LengthIsOwn

\* responseBody() returns the whole body of the response whose length was
\* announced, or nothing: no part of it, wherever the connection ends.  (Of a request
\* that was started: see above.)
BodyIsWhole ==
  /\ ret.op = "body" /\ app = "sent" /\ ret.value # <<"null">>
  /\ own.of.length # "none" /\ EndOfHeadersReached(http)
  /\ "nothing" \notin slips /\ "unstarted" \notin slips /\ ~ alive
  => ret.value = own.of.body

\* On each connection requests follow one another whole: a line, its headers, one
\* end of them, the body, whichever of beginBody(), print() and endRequest() were
\* called and whatever failed before.  The exceptions are the application's: a begun
\* request that it gave up, and one that it went on with although it was not started:
\* the headers and the body without their line are on the old connection then.
RequestsWellFormed ==
  "abandoned" \notin slips /\ "unstarted" \notin slips =>
    \A i \in 2..Len(wire) :
      wire[i - 1] \in CASE wire[i] = "line" -> {"end", "body"}
                        [] wire[i] \in {"header", "end"} -> {"line", "header"}
                        [] wire[i] = "body" -> {"end", "body"}
=============================================================================
