-------------------------- MODULE HttpClient_proof --------------------------
(***************************************************************************)
(* Proofs about the HTTP client, for every server that announces the       *)
(* length its body has, any number of requests and whatever is lost.       *)
(***************************************************************************)
EXTENDS HttpClient, SequenceTheorems, TLAPS

USE DEF eIdle, eRequestStarted, eRequestSent, eReadingStatusCode, eStatusCodeRead,
        eReadingContentLength, eSkipToEndOfHeader, eLineStartingCRFound, eReadingBody,
        eReadingChunkLength, eReadingBodyChunk, HTTP_SUCCESS, HTTP_ERROR_CONNECTION_FAILED,
        HTTP_ERROR_API, HTTP_ERROR_TIMED_OUT, HTTP_ERROR_INVALID_RESPONSE,
        kNoContentLengthHeader

-----------------------------------------------------------------------------
(* Types.                                                                  *)

Fields ==
  [iState : 0..10, iStatusCode : Nat, iContentLength : Int, iBodyLengthConsumed : Nat,
   iContentLengthPtr : 0..2, iTransferEncodingChunkedPtr : 0..2, iIsChunked : BOOLEAN,
   iChunkLength : Int]
Calls ==
  [op : {"none", "status", "headers", "line", "body"}, line : BOOLEAN, length : Int,
   text : Seq(Symbols)]
Stages == {"free", "begun", "headers", "body", "written", "sent"}
Tokens == {"line", "header", "end", "body"}
Replies == {"none", "start", "status", "headers", "line", "body"}

HttpTypes ==
  /\ http \in Fields
  /\ alive \in BOOLEAN /\ link \in BOOLEAN /\ coming \in Seq(Symbols)
  /\ app \in Stages
  /\ doing \in Calls /\ (doing.op = "none" => doing = NoCall)
  /\ ret.op \in Replies /\ (ret.op = "status" => ret.value \in Int)
  /\ own.of \in Responses /\ own.begun \in BOOLEAN
  /\ wire \in Seq(Tokens) /\ slips \subseteq {"nothing", "abandoned", "unstarted"}
  /\ requests \in Nat

LEMMA Digits ==
  /\ DOMAIN Number = {"0", "1", "2", "100", "200", "404"}
  /\ Number["0"] = 0 /\ Number["1"] = 1 /\ Number["2"] = 2
  /\ Number["100"] = 100 /\ Number["200"] = 200 /\ Number["404"] = 404
BY DEF Number

LEMMA DigitIsNat ==
  \A c : IsDigit(c) => Number[c] \in Nat
BY Digits DEF IsDigit

\* What the server may answer.
LEMMA ResponseFields ==
  ASSUME NEW r \in Responses
  PROVE  /\ r.code \in DOMAIN Number /\ r.length \in {"none"} \cup DOMAIN Number
         /\ r.interim \in BOOLEAN /\ r.chunked \in BOOLEAN
         /\ r.body \in Seq(Symbols) /\ Len(r.body) \in Nat
         /\ r.length # "none" => Number[r.length] = Len(r.body)
         /\ r.chunked => Len(r.body) <= 2
<1>1. /\ r.code \in DOMAIN Number /\ r.length \in {"none"} \cup DOMAIN Number
      /\ r.interim \in BOOLEAN /\ r.chunked \in BOOLEAN /\ r.body \in Seq(Symbols)
      /\ r.length # "none" => Number[r.length] = Len(r.body)
      /\ r.chunked => Len(r.body) <= 2
  BY HttpAssumption, Zenon
<1>2. Len(r.body) \in Nat
  BY <1>1, LenProperties
<1> QED BY <1>1, <1>2

LEMMA HeadIsFirst ==
  ASSUME NEW S, NEW s \in Seq(S), s # <<>>
  PROVE  Head(s) = s[1]
OBVIOUS

\* What comes behind a few symbols.
LEMMA Behind ==
  ASSUME NEW S, NEW x \in S, NEW y \in S, NEW z \in S, NEW s \in Seq(S)
  PROVE  /\ <<x>> \o s \in Seq(S) /\ <<x>> \o s # <<>>
         /\ Head(<<x>> \o s) = x /\ Tail(<<x>> \o s) = s
         /\ <<x, y>> \o s \in Seq(S) /\ <<x, y>> \o s # <<>>
         /\ Head(<<x, y>> \o s) = x /\ Tail(<<x, y>> \o s) = <<y>> \o s
         /\ <<x, y, z>> \o s \in Seq(S) /\ <<x, y, z>> \o s # <<>>
         /\ Head(<<x, y, z>> \o s) = x /\ Tail(<<x, y, z>> \o s) = <<y, z>> \o s
<1>1. /\ <<x>> \in Seq(S) /\ Len(<<x>>) = 1 /\ <<x, y>> \in Seq(S) /\ Len(<<x, y>>) = 2
      /\ <<y>> \in Seq(S) /\ Len(<<y>>) = 1 /\ <<y, z>> \in Seq(S) /\ Len(<<y, z>>) = 2
      /\ <<x, y, z>> \in Seq(S) /\ Len(<<x, y, z>>) = 3
  OBVIOUS
<1> DEFINE a == <<x>> \o s
           b == <<x, y>> \o s
           c == <<x, y, z>> \o s
           d == <<y>> \o s
           e == <<y, z>> \o s
<1>2. /\ a \in Seq(S) /\ Len(a) = Len(s) + 1 /\ b \in Seq(S) /\ Len(b) = Len(s) + 2
      /\ c \in Seq(S) /\ Len(c) = Len(s) + 3 /\ d \in Seq(S) /\ Len(d) = Len(s) + 1
      /\ e \in Seq(S) /\ Len(e) = Len(s) + 2
  BY <1>1, ConcatProperties
<1>3. /\ a # <<>> /\ b # <<>> /\ c # <<>>
      /\ Head(a) = x /\ Head(b) = x /\ Head(c) = x
  <2>1. a[1] = x /\ b[1] = x /\ c[1] = x
    BY <1>1, ConcatProperties
  <2>2. a # <<>> /\ b # <<>> /\ c # <<>>
    BY <1>2
  <2>3. Head(a) = a[1] /\ Head(b) = b[1] /\ Head(c) = c[1]
    <3> HIDE DEF a, b, c
    <3> QED BY <1>2, <2>2, HeadIsFirst
  <2> QED BY <2>1, <2>2, <2>3
<1>4. /\ Tail(a) \in Seq(S) /\ Len(Tail(a)) = Len(s)
      /\ Tail(b) \in Seq(S) /\ Len(Tail(b)) = Len(d)
      /\ Tail(c) \in Seq(S) /\ Len(Tail(c)) = Len(e)
  BY <1>2, <1>3, HeadTailProperties
<1>5. /\ \A i \in 1..Len(Tail(a)) : Tail(a)[i] = s[i]
      /\ \A i \in 1..Len(Tail(b)) : Tail(b)[i] = d[i]
      /\ \A i \in 1..Len(Tail(c)) : Tail(c)[i] = e[i]
  <2>1. /\ \A i \in 1..Len(Tail(a)) : Tail(a)[i] = a[i + 1]
        /\ \A i \in 1..Len(Tail(b)) : Tail(b)[i] = b[i + 1]
        /\ \A i \in 1..Len(Tail(c)) : Tail(c)[i] = c[i + 1]
    <3> HIDE DEF a, b, c
    <3> QED BY <1>2, <1>3, HeadTailProperties
  <2>2. /\ \A i \in 1..Len(s) : a[i + 1] = s[i]
        /\ \A i \in 1..Len(s) + 1 : b[i + 1] = d[i]
        /\ \A i \in 1..Len(s) + 2 : c[i + 1] = e[i]
    <3>1. \A i \in 1..Len(s) : a[i + 1] = s[i]
      BY <1>1, ConcatProperties
    <3>2. \A i \in 1..Len(s) + 1 : b[i + 1] = d[i]
      BY <1>1, ConcatProperties
    <3>3. \A i \in 1..Len(s) + 2 : c[i + 1] = e[i]
      BY <1>1, ConcatProperties
    <3> QED BY <3>1, <3>2, <3>3
  <2> HIDE DEF a, b, c, d, e
  <2> QED BY <1>2, <1>4, <2>1, <2>2
<1>6. Tail(a) = s /\ Tail(b) = d /\ Tail(c) = e
  BY <1>2, <1>4, <1>5, SeqEqual
<1> QED BY <1>2, <1>3, <1>6

\* A line and what follows it.
LEMMA BehindOne ==
  ASSUME NEW x \in Symbols, NEW s \in Seq(Symbols)
  PROVE  <<x>> \o s \in Seq(Symbols) /\ Head(<<x>> \o s) = x /\ Tail(<<x>> \o s) = s
BY Behind

LEMMA BehindTwo ==
  ASSUME NEW x \in Symbols, NEW y \in Symbols, NEW s \in Seq(Symbols)
  PROVE  /\ <<x, y>> \o s \in Seq(Symbols)
         /\ Head(<<x, y>> \o s) = x /\ Tail(<<x, y>> \o s) = <<y>> \o s
<1>1. <<x, y>> \o s \in Seq(Symbols)
  BY Behind
<1>2. Head(<<x, y>> \o s) = x /\ Tail(<<x, y>> \o s) = <<y>> \o s
  BY Behind
<1> QED BY <1>1, <1>2

LEMMA Lines ==
  ASSUME NEW s \in Seq(Symbols)
  PROVE  /\ CRLF \o s \in Seq(Symbols) /\ CRLF \o s # <<>>
         /\ Head(CRLF \o s) = "CR" /\ Tail(CRLF \o s) = <<"LF">> \o s
         /\ <<"LF">> \o s \in Seq(Symbols) /\ <<"LF">> \o s # <<>>
         /\ Head(<<"LF">> \o s) = "LF" /\ Tail(<<"LF">> \o s) = s
<1>1. "CR" \in Symbols /\ "LF" \in Symbols
  BY DEF Symbols
<1> QED BY <1>1, Behind DEF CRLF

\* The words are symbols.
LEMMA Letters ==
  /\ "HTTP" \in Symbols /\ "c" \in Symbols /\ "l" \in Symbols /\ "t" \in Symbols
  /\ "e" \in Symbols /\ "x" \in Symbols /\ "CR" \in Symbols /\ "LF" \in Symbols
  /\ DOMAIN Number \subseteq Symbols
BY DEF Symbols

LEMMA TransferIsText ==
  ASSUME NEW r \in Responses
  PROVE  Transfer(r) \in Seq(Symbols)
<1> DEFINE size == IF Len(r.body) = 2 THEN "2" ELSE "1"
           last == Line(<<"0">>, CRLF)
           chunk == r.body \o (CRLF \o last)
<1>1. r.body \in Seq(Symbols) /\ r.chunked \in BOOLEAN
  BY ResponseFields
<1>2. "0" \in Symbols /\ size \in Symbols
  BY Letters, Digits
<1>3. CRLF \in Seq(Symbols)
  BY Letters DEF CRLF
<1>4. last \in Seq(Symbols)
  BY <1>2, <1>3, Lines, Behind DEF Line
<1> HIDE DEF last
<1>5. chunk \in Seq(Symbols)
  BY <1>1, <1>4, Lines, ConcatProperties
<1> HIDE DEF size, chunk
<1>6. Line(<<size>>, chunk) \in Seq(Symbols)
  BY <1>2, <1>5, Lines, Behind DEF Line
<1>7. Transfer(r) = IF ~ r.chunked THEN r.body
                    ELSE IF r.body = <<>> THEN last ELSE Line(<<size>>, chunk)
  BY DEF Transfer, size, last, chunk
<1> QED BY <1>1, <1>4, <1>6, <1>7

\* The lines of a response, symbol by symbol.
LEMMA LinesOfAResponse ==
  ASSUME NEW r \in Responses
  PROVE  /\ Transfer(r) \in Seq(Symbols) /\ EmptyLine(r) \in Seq(Symbols)
         /\ CodingLine(r) \in Seq(Symbols) /\ LengthLine(r) \in Seq(Symbols)
         /\ HeaderLines(r) \in Seq(Symbols) /\ Response(r) \in Seq(Symbols)
<1>1. Transfer(r) \in Seq(Symbols)
  BY TransferIsText
<1>2. EmptyLine(r) \in Seq(Symbols)
  BY <1>1, Lines DEF EmptyLine
<1>3. CodingLine(r) \in Seq(Symbols)
  <2>1. CASE r.chunked
    BY <1>2, <2>1, Letters, Lines, Behind DEF CodingLine, Line, kTransferEncodingChunked
  <2>2. CASE ~ r.chunked
    BY <1>2, <2>2 DEF CodingLine
  <2> QED BY <2>1, <2>2
<1>4. LengthLine(r) \in Seq(Symbols)
  <2>1. CASE r.length = "none"
    BY <1>3, <2>1 DEF LengthLine
  <2>2. CASE r.length # "none"
    <3>1. r.length \in Symbols
      BY <2>2, ResponseFields, Letters
    <3>2. Line(<<r.length>>, CodingLine(r)) \in Seq(Symbols)
      BY <1>3, <3>1, Lines, Behind DEF Line
    <3> QED BY <2>2, <3>2, Letters, Behind DEF LengthLine, kContentLengthPrefix
  <2> QED BY <2>1, <2>2
<1>5. HeaderLines(r) \in Seq(Symbols)
  BY <1>4, Letters, Lines, Behind DEF HeaderLines, Line, ContentType
<1>6. \A code \in DOMAIN Number : \A s \in Seq(Symbols) :
        Line(<<"HTTP", code>>, s) \in Seq(Symbols)
  BY Letters, Lines, Behind DEF Line
<1>7. r.code \in DOMAIN Number /\ "100" \in DOMAIN Number
  BY ResponseFields, Digits
<1>8. Response(r) \in Seq(Symbols)
  BY <1>5, <1>6, <1>7, Lines DEF Response
<1> QED BY <1>1, <1>2, <1>3, <1>4, <1>5, <1>8

-----------------------------------------------------------------------------
(* What a symbol does to the fields.                                       *)

\* One field is set and the others stay.
LEMMA SetState ==
  \A h \in Fields, v \in 0..10 : \A g : g = [h EXCEPT !.iState = v] =>
    /\ g \in Fields /\ g.iState = v
    /\ g.iStatusCode = h.iStatusCode /\ g.iContentLength = h.iContentLength
    /\ g.iBodyLengthConsumed = h.iBodyLengthConsumed
    /\ g.iContentLengthPtr = h.iContentLengthPtr
    /\ g.iTransferEncodingChunkedPtr = h.iTransferEncodingChunkedPtr
    /\ g.iIsChunked = h.iIsChunked /\ g.iChunkLength = h.iChunkLength
BY DEF Fields

LEMMA SetCode ==
  \A h \in Fields, v \in Nat : \A g : g = [h EXCEPT !.iStatusCode = v] =>
    /\ g \in Fields /\ g.iStatusCode = v
    /\ g.iState = h.iState /\ g.iContentLength = h.iContentLength
    /\ g.iBodyLengthConsumed = h.iBodyLengthConsumed
    /\ g.iContentLengthPtr = h.iContentLengthPtr
    /\ g.iTransferEncodingChunkedPtr = h.iTransferEncodingChunkedPtr
    /\ g.iIsChunked = h.iIsChunked /\ g.iChunkLength = h.iChunkLength
BY DEF Fields

LEMMA SetLength ==
  \A h \in Fields, v \in Int : \A g : g = [h EXCEPT !.iContentLength = v] =>
    /\ g \in Fields /\ g.iContentLength = v
    /\ g.iState = h.iState /\ g.iStatusCode = h.iStatusCode
    /\ g.iBodyLengthConsumed = h.iBodyLengthConsumed
    /\ g.iContentLengthPtr = h.iContentLengthPtr
    /\ g.iTransferEncodingChunkedPtr = h.iTransferEncodingChunkedPtr
    /\ g.iIsChunked = h.iIsChunked /\ g.iChunkLength = h.iChunkLength
BY DEF Fields

LEMMA SetConsumed ==
  \A h \in Fields, v \in Nat : \A g : g = [h EXCEPT !.iBodyLengthConsumed = v] =>
    /\ g \in Fields /\ g.iBodyLengthConsumed = v
    /\ g.iState = h.iState /\ g.iStatusCode = h.iStatusCode
    /\ g.iContentLength = h.iContentLength /\ g.iContentLengthPtr = h.iContentLengthPtr
    /\ g.iTransferEncodingChunkedPtr = h.iTransferEncodingChunkedPtr
    /\ g.iIsChunked = h.iIsChunked /\ g.iChunkLength = h.iChunkLength
BY DEF Fields

LEMMA SetLengthPtr ==
  \A h \in Fields, v \in 0..2 : \A g : g = [h EXCEPT !.iContentLengthPtr = v] =>
    /\ g \in Fields /\ g.iContentLengthPtr = v
    /\ g.iState = h.iState /\ g.iStatusCode = h.iStatusCode
    /\ g.iContentLength = h.iContentLength /\ g.iBodyLengthConsumed = h.iBodyLengthConsumed
    /\ g.iTransferEncodingChunkedPtr = h.iTransferEncodingChunkedPtr
    /\ g.iIsChunked = h.iIsChunked /\ g.iChunkLength = h.iChunkLength
BY DEF Fields

LEMMA SetCodingPtr ==
  \A h \in Fields, v \in 0..2 : \A g : g = [h EXCEPT !.iTransferEncodingChunkedPtr = v] =>
    /\ g \in Fields /\ g.iTransferEncodingChunkedPtr = v
    /\ g.iState = h.iState /\ g.iStatusCode = h.iStatusCode
    /\ g.iContentLength = h.iContentLength /\ g.iBodyLengthConsumed = h.iBodyLengthConsumed
    /\ g.iContentLengthPtr = h.iContentLengthPtr /\ g.iIsChunked = h.iIsChunked
    /\ g.iChunkLength = h.iChunkLength
BY DEF Fields

LEMMA SetChunked ==
  \A h \in Fields, v \in BOOLEAN : \A g : g = [h EXCEPT !.iIsChunked = v] =>
    /\ g \in Fields /\ g.iIsChunked = v
    /\ g.iState = h.iState /\ g.iStatusCode = h.iStatusCode
    /\ g.iContentLength = h.iContentLength /\ g.iBodyLengthConsumed = h.iBodyLengthConsumed
    /\ g.iContentLengthPtr = h.iContentLengthPtr
    /\ g.iTransferEncodingChunkedPtr = h.iTransferEncodingChunkedPtr
    /\ g.iChunkLength = h.iChunkLength
BY DEF Fields

LEMMA SetChunk ==
  \A h \in Fields, v \in Int : \A g : g = [h EXCEPT !.iChunkLength = v] =>
    /\ g \in Fields /\ g.iChunkLength = v
    /\ g.iState = h.iState /\ g.iStatusCode = h.iStatusCode
    /\ g.iContentLength = h.iContentLength /\ g.iBodyLengthConsumed = h.iBodyLengthConsumed
    /\ g.iContentLengthPtr = h.iContentLengthPtr
    /\ g.iTransferEncodingChunkedPtr = h.iTransferEncodingChunkedPtr
    /\ g.iIsChunked = h.iIsChunked
BY DEF Fields

LEMMA ResetFields ==
  /\ ResetState \in Fields
  /\ ResetState.iState = eIdle /\ ResetState.iContentLength = -1
BY DEF ResetState, Fresh, Fields

LEMMA CountedFields ==
  ASSUME NEW h \in Fields
  PROVE  /\ Counted(h) \in Fields
         /\ h.iState # eReadingBodyChunk =>
              /\ Counted(h).iState = h.iState
              /\ Counted(h).iChunkLength = h.iChunkLength
         /\ h.iState = eReadingBodyChunk =>
              /\ Counted(h).iState = IF h.iChunkLength = 1 THEN eReadingChunkLength
                                     ELSE eReadingBodyChunk
              /\ Counted(h).iChunkLength = h.iChunkLength - 1
         /\ Counted(h).iContentLength = h.iContentLength
         /\ Counted(h).iBodyLengthConsumed =
              IF EndOfHeadersReached(h) /\ h.iContentLength > 0
              THEN h.iBodyLengthConsumed + 1 ELSE h.iBodyLengthConsumed
<1> DEFINE counts == EndOfHeadersReached(h) /\ h.iContentLength > 0
           chunk == IF h.iState = eReadingBodyChunk THEN h.iChunkLength - 1 ELSE h.iChunkLength
           read == IF counts THEN h.iBodyLengthConsumed + 1 ELSE h.iBodyLengthConsumed
           state == IF h.iState = eReadingBodyChunk /\ chunk = 0
                    THEN eReadingChunkLength ELSE h.iState
<1>1. /\ chunk \in Int /\ read \in Nat /\ state \in 0..10
      /\ h.iState # eReadingBodyChunk => state = h.iState /\ chunk = h.iChunkLength
      /\ h.iState = eReadingBodyChunk =>
           /\ chunk = h.iChunkLength - 1
           /\ state = IF h.iChunkLength = 1 THEN eReadingChunkLength ELSE eReadingBodyChunk
  BY DEF Fields
<1>2. Counted(h) = [h EXCEPT !.iBodyLengthConsumed = read, !.iChunkLength = chunk,
                             !.iState = state]
  BY Zenon DEF Counted
<1> HIDE DEF read, chunk, state
<1>3. /\ Counted(h) \in Fields
      /\ Counted(h).iState = state /\ Counted(h).iChunkLength = chunk
      /\ Counted(h).iContentLength = h.iContentLength
      /\ Counted(h).iBodyLengthConsumed = read
  BY <1>1, <1>2 DEF Fields
<1> QED BY <1>1, <1>3 DEF read

LEMMA ChunkLengthFields ==
  ASSUME NEW h \in Fields, NEW c
  PROVE  /\ ChunkLength(h, c) \in Fields
         /\ c = "LF" => /\ ChunkLength(h, c).iState = IF h.iChunkLength = 0
                                                     THEN eReadingChunkLength
                                                     ELSE eReadingBodyChunk
                        /\ ChunkLength(h, c).iChunkLength = h.iChunkLength
         /\ c # "LF" => /\ ChunkLength(h, c).iState = h.iState
                        /\ ~ IsDigit(c) => ChunkLength(h, c).iChunkLength = h.iChunkLength
                        /\ IsDigit(c) => ChunkLength(h, c).iChunkLength
                                           = 16 * h.iChunkLength + Number[c]
         /\ ChunkLength(h, c).iContentLength = h.iContentLength
         /\ ChunkLength(h, c).iBodyLengthConsumed = h.iBodyLengthConsumed
<1>1. CASE c = "LF"
  BY <1>1 DEF ChunkLength, Fields
<1>2. CASE c # "LF" /\ IsDigit(c)
  <2>1. Number[c] \in Nat
    BY <1>2, DigitIsNat
  <2>2. ChunkLength(h, c) = [h EXCEPT !.iChunkLength = 16 * h.iChunkLength + Number[c]]
    BY <1>2, Zenon DEF ChunkLength
  <2> QED BY <1>2, <2>1, <2>2 DEF Fields
<1>3. CASE c # "LF" /\ ~ IsDigit(c)
  BY <1>3 DEF ChunkLength
<1> QED BY <1>1, <1>2, <1>3

LEMMA HeaderBeginsFields ==
  ASSUME NEW h \in Fields, h.iState = eStatusCodeRead, NEW c
  PROVE  HeaderBegins(h, c) \in Fields /\ HeaderBegins(h, c).iState \in 4..7
<1>1. CASE Matches(kContentLengthPrefix, h.iContentLengthPtr, c)
  <2>1. CASE h.iContentLengthPtr = 0
    <3>1. HeaderBegins(h, c) = [h EXCEPT !.iContentLengthPtr = 1]
      BY <1>1, <2>1 DEF HeaderBegins
    <3> QED BY <3>1 DEF Fields
  <2>2. CASE h.iContentLengthPtr # 0
    <3>1. HeaderBegins(h, c) = [h EXCEPT !.iContentLengthPtr = 2,
                                         !.iState = eReadingContentLength,
                                         !.iContentLength = 0, !.iBodyLengthConsumed = 0]
      BY <1>1, <2>2 DEF HeaderBegins
    <3>2. PICK g1 : g1 = [h EXCEPT !.iContentLengthPtr = 2]
      OBVIOUS
    <3>3. PICK g2 : g2 = [g1 EXCEPT !.iState = eReadingContentLength]
      OBVIOUS
    <3>4. PICK g3 : g3 = [g2 EXCEPT !.iContentLength = 0]
      OBVIOUS
    <3>5. g1 \in Fields
      BY <3>2, SetLengthPtr
    <3>6. g2 \in Fields /\ g2.iState = 5
      BY <3>3, <3>5, SetState
    <3>7. g3 \in Fields /\ g3.iState = 5
      BY <3>4, <3>6, SetLength
    <3>8. HeaderBegins(h, c) = [g3 EXCEPT !.iBodyLengthConsumed = 0]
      BY <3>1, <3>2, <3>3, <3>4
    <3> QED BY <3>7, <3>8, SetConsumed
  <2> QED BY <2>1, <2>2
<1>2. CASE /\ ~ Matches(kContentLengthPrefix, h.iContentLengthPtr, c)
           /\ Matches(kTransferEncodingChunked, h.iTransferEncodingChunkedPtr, c)
  <2>1. CASE h.iTransferEncodingChunkedPtr = 0
    <3>1. HeaderBegins(h, c) = [h EXCEPT !.iTransferEncodingChunkedPtr = 1]
      BY <1>2, <2>1 DEF HeaderBegins
    <3> QED BY <3>1 DEF Fields
  <2>2. CASE h.iTransferEncodingChunkedPtr # 0
    <3>1. HeaderBegins(h, c) = [h EXCEPT !.iTransferEncodingChunkedPtr = 2,
                                         !.iIsChunked = TRUE, !.iState = eSkipToEndOfHeader]
      BY <1>2, <2>2 DEF HeaderBegins
    <3>2. PICK g1 : g1 = [h EXCEPT !.iTransferEncodingChunkedPtr = 2]
      OBVIOUS
    <3>3. PICK g2 : g2 = [g1 EXCEPT !.iIsChunked = TRUE]
      OBVIOUS
    <3>4. g1 \in Fields
      BY <3>2, SetCodingPtr
    <3>5. g2 \in Fields
      BY <3>3, <3>4, SetChunked
    <3>6. HeaderBegins(h, c) = [g2 EXCEPT !.iState = eSkipToEndOfHeader]
      BY <3>1, <3>2, <3>3
    <3> QED BY <3>5, <3>6, SetState
  <2> QED BY <2>1, <2>2
<1>3. CASE /\ ~ Matches(kContentLengthPrefix, h.iContentLengthPtr, c)
           /\ ~ Matches(kTransferEncodingChunked, h.iTransferEncodingChunkedPtr, c)
  <2>1. \E s \in {eLineStartingCRFound, eSkipToEndOfHeader} :
          HeaderBegins(h, c) = [h EXCEPT !.iState = s]
    BY <1>3, Zenon DEF HeaderBegins
  <2>2. PICK s \in {6, 7} : HeaderBegins(h, c) = [h EXCEPT !.iState = s]
    BY <2>1
  <2> QED BY <2>2 DEF Fields
<1> QED BY <1>1, <1>2, <1>3

\* The symbols of a header: within a line nothing happens but for the two prefixes, the
\* length and the CR of an empty line; the end of a line begins the next.
LEMMA LineBegins ==
  ASSUME NEW h \in Fields, h.iState = eStatusCodeRead, NEW c, c # "LF"
  PROVE  /\ ReadHeader(h, c) \in Fields
         /\ ReadHeader(h, c) = HeaderBegins(h, c)
         /\ ReadHeader(h, c).iState \in 4..7
<1>1. HeaderBegins(h, c) \in Fields /\ HeaderBegins(h, c).iState \in 4..7
  BY HeaderBeginsFields
<1>2. InLine(h, c) = HeaderBegins(h, c)
  BY DEF InLine
<1>3. ~ EndOfHeadersReached(h)
  BY DEF EndOfHeadersReached
<1>4. ReadHeader(h, c) = HeaderBegins(h, c)
  BY <1>2, <1>3 DEF ReadHeader
<1> QED BY <1>1, <1>4

LEMMA LineGoesOn ==
  ASSUME NEW h \in Fields, NEW c, c # "LF",
         h.iState \notin {eStatusCodeRead, eReadingContentLength}
  PROVE  ReadHeader(h, c) = h
<1>1. InLine(h, c) = h
  BY DEF InLine
<1> QED BY <1>1 DEF ReadHeader

LEMMA LengthGoesOn ==
  ASSUME NEW h \in Fields, NEW c, c # "LF", h.iState = eReadingContentLength
  PROVE  /\ ReadHeader(h, c) \in Fields
         /\ IsDigit(c) => ReadHeader(h, c)
                            = [h EXCEPT !.iContentLength = 10 * h.iContentLength + Number[c]]
         /\ ~ IsDigit(c) => ReadHeader(h, c) = [h EXCEPT !.iState = eSkipToEndOfHeader]
<1>1. /\ IsDigit(c) => InLine(h, c)
                          = [h EXCEPT !.iContentLength = 10 * h.iContentLength + Number[c]]
      /\ ~ IsDigit(c) => InLine(h, c) = [h EXCEPT !.iState = eSkipToEndOfHeader]
  BY DEF InLine
<1>2. InLine(h, c) \in Fields /\ InLine(h, c).iState \in {5, 6}
  <2>1. CASE IsDigit(c)
    BY <1>1, <2>1, DigitIsNat DEF Fields
  <2>2. CASE ~ IsDigit(c)
    BY <1>1, <2>2 DEF Fields
  <2> QED BY <2>1, <2>2
<1>3. ~ EndOfHeadersReached(h)
  BY DEF EndOfHeadersReached
<1>4. ReadHeader(h, c) = InLine(h, c)
  BY <1>3 DEF ReadHeader
<1> QED BY <1>1, <1>2, <1>4

Ended(h) == [h EXCEPT !.iState = eStatusCodeRead, !.iContentLengthPtr = 0,
                      !.iTransferEncodingChunkedPtr = 0]

LEMMA EndedFields ==
  ASSUME NEW h \in Fields
  PROVE  /\ Ended(h) \in Fields /\ Ended(h).iState = eStatusCodeRead
         /\ Ended(h).iContentLengthPtr = 0 /\ Ended(h).iTransferEncodingChunkedPtr = 0
         /\ Ended(h).iContentLength = h.iContentLength
         /\ Ended(h).iBodyLengthConsumed = h.iBodyLengthConsumed
         /\ Ended(h).iIsChunked = h.iIsChunked
<1>1. PICK g1 : g1 = [h EXCEPT !.iState = eStatusCodeRead]
  OBVIOUS
<1>2. PICK g2 : g2 = [g1 EXCEPT !.iContentLengthPtr = 0]
  OBVIOUS
<1>3. Ended(h) = [g2 EXCEPT !.iTransferEncodingChunkedPtr = 0]
  BY <1>1, <1>2 DEF Ended
<1>4. /\ g1 \in Fields /\ g1.iState = eStatusCodeRead
      /\ g1.iContentLength = h.iContentLength /\ g1.iIsChunked = h.iIsChunked
      /\ g1.iBodyLengthConsumed = h.iBodyLengthConsumed
  BY <1>1, SetState
<1>5. /\ g2 \in Fields /\ g2.iState = eStatusCodeRead /\ g2.iContentLengthPtr = 0
      /\ g2.iContentLength = h.iContentLength /\ g2.iIsChunked = h.iIsChunked
      /\ g2.iBodyLengthConsumed = h.iBodyLengthConsumed
  BY <1>2, <1>4, SetLengthPtr
<1> QED BY <1>3, <1>5, SetCodingPtr

\* The end of a line.
LEMMA LineEnds ==
  ASSUME NEW h \in Fields, ~ EndOfHeadersReached(h)
  PROVE  /\ ReadHeader(h, "LF") \in Fields
         /\ h.iState # eLineStartingCRFound =>
              /\ ReadHeader(h, "LF").iState = eStatusCodeRead
              /\ ReadHeader(h, "LF").iContentLengthPtr = 0
              /\ ReadHeader(h, "LF").iTransferEncodingChunkedPtr = 0
         /\ h.iState \notin {eStatusCodeRead, eReadingContentLength, eLineStartingCRFound} =>
              /\ ReadHeader(h, "LF").iContentLength = h.iContentLength
              /\ ReadHeader(h, "LF").iBodyLengthConsumed = h.iBodyLengthConsumed
              /\ ReadHeader(h, "LF").iIsChunked = h.iIsChunked
         /\ h.iState = eLineStartingCRFound =>
              /\ h.iIsChunked => ReadHeader(h, "LF")
                                   = [h EXCEPT !.iState = eReadingChunkLength,
                                               !.iChunkLength = 0]
              /\ ~ h.iIsChunked => ReadHeader(h, "LF") = [h EXCEPT !.iState = eReadingBody]
<1> DEFINE n == InLine(h, "LF")
<1>1. CASE h.iState = eLineStartingCRFound
  <2>1. /\ h.iIsChunked => n = [h EXCEPT !.iState = eReadingChunkLength, !.iChunkLength = 0]
        /\ ~ h.iIsChunked => n = [h EXCEPT !.iState = eReadingBody]
    BY <1>1 DEF InLine
  <2>2. n \in Fields /\ n.iState \in {8, 9}
    <3> HIDE DEF n
    <3>1. CASE h.iIsChunked
      <4>1. PICK g : g = [h EXCEPT !.iState = eReadingChunkLength]
        OBVIOUS
      <4>2. g \in Fields /\ g.iState = 9
        BY <4>1 DEF Fields
      <4>3. n = [g EXCEPT !.iChunkLength = 0]
        BY <2>1, <3>1, <4>1, Zenon
      <4> QED BY <4>2, <4>3 DEF Fields
    <3>2. CASE ~ h.iIsChunked
      BY <2>1, <3>2 DEF Fields
    <3> QED BY <3>1, <3>2
  <2>3. ReadHeader(h, "LF") = n
    BY <2>2 DEF ReadHeader, EndOfHeadersReached
  <2> QED BY <1>1, <2>1, <2>2, <2>3
<1>2. CASE h.iState # eLineStartingCRFound
  <2>1. n \in Fields /\ n.iState \notin {8, 9, 10}
    <3>1. CASE h.iState = eStatusCodeRead
      BY <3>1, HeaderBeginsFields DEF InLine
    <3>2. CASE h.iState = eReadingContentLength
      <4>1. n = [h EXCEPT !.iState = eSkipToEndOfHeader]
        BY <3>2, Digits DEF InLine, IsDigit
      <4> HIDE DEF n
      <4> QED BY <4>1 DEF Fields
    <3>3. CASE h.iState \notin {eStatusCodeRead, eReadingContentLength}
      <4>1. n = h
        BY <1>2, <3>3 DEF InLine
      <4> QED BY <4>1 DEF EndOfHeadersReached
    <3> QED BY <3>1, <3>2, <3>3
  <2>2. ReadHeader(h, "LF") = Ended(n)
    BY <2>1 DEF ReadHeader, EndOfHeadersReached, Ended
  <2>3. /\ Ended(n) \in Fields /\ Ended(n).iState = eStatusCodeRead
        /\ Ended(n).iContentLengthPtr = 0 /\ Ended(n).iTransferEncodingChunkedPtr = 0
        /\ Ended(n).iContentLength = n.iContentLength
        /\ Ended(n).iBodyLengthConsumed = n.iBodyLengthConsumed
        /\ Ended(n).iIsChunked = n.iIsChunked
    <3> HIDE DEF n
    <3> QED BY <2>1, EndedFields
  <2>4. h.iState \notin {eStatusCodeRead, eReadingContentLength} => n = h
    BY <1>2 DEF InLine
  <2> QED BY <1>2, <2>2, <2>3, <2>4
<1> QED BY <1>1, <1>2

LEMMA ReadHeaderFields ==
  ASSUME NEW h \in Fields, NEW c
  PROVE  /\ ReadHeader(h, c) \in Fields
         /\ ReadHeader(h, c) = h \/ ReadHeader(h, c).iState \in 4..9
<1>1. CASE EndOfHeadersReached(h)
  BY <1>1 DEF ReadHeader
<1>2. CASE ~ EndOfHeadersReached(h) /\ c = "LF"
  <2> DEFINE n == ReadHeader(h, "LF")
  <2>1. /\ n \in Fields
        /\ h.iState # eLineStartingCRFound => n.iState = eStatusCodeRead
        /\ h.iState = eLineStartingCRFound =>
             \/ n = [h EXCEPT !.iState = eReadingChunkLength, !.iChunkLength = 0]
             \/ n = [h EXCEPT !.iState = eReadingBody]
    BY <1>2, LineEnds
  <2> HIDE DEF n
  <2>2. n \in Fields /\ n.iState \in 4..9
    <3>1. n = [h EXCEPT !.iState = eReadingChunkLength, !.iChunkLength = 0]
            => n.iState = eReadingChunkLength
      BY DEF Fields
    <3>2. n = [h EXCEPT !.iState = eReadingBody] => n.iState = eReadingBody
      BY DEF Fields
    <3> QED BY <2>1, <3>1, <3>2
  <2> QED BY <1>2, <2>2 DEF n
<1>3. CASE ~ EndOfHeadersReached(h) /\ c # "LF" /\ h.iState = eStatusCodeRead
  BY <1>3, LineBegins
<1>4. CASE ~ EndOfHeadersReached(h) /\ c # "LF" /\ h.iState = eReadingContentLength
  BY <1>4, LengthGoesOn DEF Fields
<1>5. CASE c # "LF" /\ h.iState \notin {eStatusCodeRead, eReadingContentLength}
  BY <1>5, LineGoesOn
<1> QED BY <1>1, <1>2, <1>3, <1>4, <1>5

-----------------------------------------------------------------------------
(* The types are kept.                                                     *)

LEMMA HttpTypeInit ==
  HttpInit => HttpTypes
<1> SUFFICES ASSUME HttpInit PROVE HttpTypes
  OBVIOUS
<1>1. http \in Fields /\ alive \in BOOLEAN /\ link \in BOOLEAN
  <2>1. http = ResetState /\ alive \in BOOLEAN /\ link \in BOOLEAN
    BY DEF HttpInit, ResetState
  <2> QED BY <2>1, ResetFields
<1>2. /\ coming \in Seq(Symbols) /\ wire \in Seq(Tokens)
      /\ slips \subseteq {"nothing", "abandoned", "unstarted"}
  BY DEF HttpInit
<1>3. doing \in Calls /\ (doing.op = "none" => doing = NoCall)
  BY DEF HttpInit, NoCall, Calls
<1>4. ret.op \in Replies /\ (ret.op = "status" => ret.value \in Int)
  BY DEF HttpInit, Replies
<1>5. own.of \in Responses /\ own.begun \in BOOLEAN
  BY HttpAssumption DEF HttpInit
<1>6. app \in Stages /\ requests \in Nat
  BY DEF HttpInit, Stages
<1> QED BY <1>1, <1>2, <1>3, <1>4, <1>5, <1>6 DEF HttpTypes

\* What the types say of the call that waits and of what was returned.
CallTypes ==
  /\ doing \in Calls /\ (doing.op = "none" => doing = NoCall)
  /\ ret.op \in Replies /\ (ret.op = "status" => ret.value \in Int)

LEMMA ReturnTypes ==
  ASSUME NEW op \in Replies, NEW value, op = "status" => value \in Int, Return(op, value)
  PROVE  CallTypes'
<1>1. NoCall \in Calls
  BY DEF NoCall, Calls
<1>2. doing' = NoCall /\ ret'.op = op /\ ret'.value = value
  BY DEF Return
<1> QED BY <1>1, <1>2 DEF CallTypes

LEMMA WaitTypes ==
  ASSUME NEW op \in {"status", "headers", "line"}, CallTypes, Waits(op)
  PROVE  CallTypes' /\ doing'.op = op
<1>1. doing' = [op |-> op, line |-> FALSE, length |-> 0, text |-> <<>>]
  BY DEF Waits, NoCall
<1>2. doing' \in Calls /\ doing'.op = op
  BY <1>1 DEF Calls
<1>3. ret' = ret
  BY DEF Waits
<1> QED BY <1>2, <1>3 DEF CallTypes

LEMMA TailIsText ==
  ASSUME coming \in Seq(Symbols), coming # <<>>
  PROVE  Tail(coming) \in Seq(Symbols) /\ Head(coming) \in Symbols
BY HeadTailProperties

\* A byte of the status line.
LEMMA StatusByteTypes ==
  ASSUME HttpTypes, StatusByte
  PROVE  HttpTypes'
<1>0. http \in Fields /\ coming \in Seq(Symbols) /\ CallTypes
  BY DEF HttpTypes, CallTypes
<1> DEFINE c == Head(coming)
           h == CASE http.iState = eRequestSent -> [http EXCEPT !.iState = eReadingStatusCode]
                  [] http.iState = eReadingStatusCode ->
                       IF IsDigit(c) THEN [http EXCEPT !.iStatusCode = 10 * @ + Number[c]]
                       ELSE [http EXCEPT !.iState = eStatusCodeRead]
                  [] OTHER -> http
<1>1. h \in Fields
  <2>1. CASE http.iState = eRequestSent
    <3>1. h = [http EXCEPT !.iState = eReadingStatusCode]
      BY <2>1
    <3> HIDE DEF h
    <3> QED BY <1>0, <3>1, SetState
  <2>2. CASE http.iState = eReadingStatusCode /\ IsDigit(c)
    <3>1. 10 * http.iStatusCode + Number[c] \in Nat
      BY <1>0, <2>2, DigitIsNat DEF Fields
    <3>2. h = [http EXCEPT !.iStatusCode = 10 * http.iStatusCode + Number[c]]
      BY <2>2
    <3> HIDE DEF h
    <3> QED BY <1>0, <3>1, <3>2, SetCode
  <2>3. CASE http.iState = eReadingStatusCode /\ ~ IsDigit(c)
    <3>1. h = [http EXCEPT !.iState = eStatusCodeRead]
      BY <2>3
    <3> HIDE DEF h
    <3> QED BY <1>0, <3>1, SetState
  <2>4. CASE http.iState \notin {eRequestSent, eReadingStatusCode}
    BY <1>0, <2>4
  <2> QED BY <2>1, <2>2, <2>3, <2>4
<1>2. \/ Return("status", HTTP_ERROR_INVALID_RESPONSE) /\ UNCHANGED http
      \/ http' = h /\ UNCHANGED <<doing, ret>>
      \/ /\ http' = [h EXCEPT !.iStatusCode = 0, !.iState = eRequestSent]
         /\ UNCHANGED <<doing, ret>>
      \/ http' = h /\ Return("status", h.iStatusCode)
  BY Zenon DEF StatusByte
<1> HIDE DEF h
<1>3. http' \in Fields /\ CallTypes'
  <2>1. CASE Return("status", HTTP_ERROR_INVALID_RESPONSE) /\ UNCHANGED http
    <3>1. CallTypes'
      BY <2>1, ReturnTypes DEF Replies
    <3> QED BY <1>0, <2>1, <3>1
  <2>2. CASE http' = h /\ UNCHANGED <<doing, ret>>
    BY <1>0, <1>1, <2>2 DEF CallTypes
  <2>3. CASE /\ http' = [h EXCEPT !.iStatusCode = 0, !.iState = eRequestSent]
             /\ UNCHANGED <<doing, ret>>
    <3>1. PICK g : g = [h EXCEPT !.iStatusCode = 0]
      OBVIOUS
    <3>2. g \in Fields
      BY <1>1, <3>1, SetCode
    <3>3. PICK n : n = [g EXCEPT !.iState = eRequestSent]
      OBVIOUS
    <3>4. n \in Fields
      BY <3>2, <3>3, SetState
    <3>5. http' = n
      BY <2>3, <3>1, <3>3
    <3> QED BY <1>0, <2>3, <3>4, <3>5 DEF CallTypes
  <2>4. CASE http' = h /\ Return("status", h.iStatusCode)
    <3>1. h.iStatusCode \in Int
      BY <1>1 DEF Fields
    <3>2. CallTypes'
      BY <2>4, <3>1, ReturnTypes DEF Replies
    <3> QED BY <1>1, <2>4, <3>2
  <2> QED BY <1>2, <2>1, <2>2, <2>3, <2>4
<1>4. /\ coming' = Tail(coming) /\ coming # <<>>
      /\ UNCHANGED <<wire, alive, link, app, own, slips, requests>>
  BY DEF StatusByte, Mine
<1>5. coming' \in Seq(Symbols)
  BY <1>0, <1>4, TailIsText
<1> QED BY <1>3, <1>4, <1>5 DEF CallTypes, HttpTypes

\* startRequest(): the three ways it ends.
LEMMA StartFields ==
  ASSUME http \in Fields
  PROVE  /\ StartState \in Fields
         /\ \A s \in {eRequestStarted, eRequestSent} :
              [StartState EXCEPT !.iState = s] \in Fields
         /\ EndOfHeadersReached(http) => StartState = ResetState
         /\ ~ EndOfHeadersReached(http) => StartState = http
<1>1. EndOfHeadersReached(http) => StartState = ResetState
  BY DEF StartState
<1>2. ~ EndOfHeadersReached(http) => StartState = http
  BY DEF StartState
<1>3. StartState \in Fields
  BY <1>1, <1>2, ResetFields
<1>4. \A s \in {eRequestStarted, eRequestSent} : [StartState EXCEPT !.iState = s] \in Fields
  BY <1>3, SetState
<1> QED BY <1>1, <1>2, <1>3, <1>4

LEMMA FlushedIsText ==
  ASSUME coming \in Seq(Symbols), NEW rest \in Flushed
  PROVE  rest \in Seq(Symbols)
<1>1. CASE EndOfHeadersReached(http)
  <2>1. PICK k \in 0..Len(coming) : rest = SubSeq(coming, k + 1, Len(coming))
    BY <1>1 DEF Flushed
  <2>2. \A i \in k + 1 .. Len(coming) : coming[i] \in Symbols
    BY ElementOfSeq
  <2> QED BY <2>1, <2>2, SubSeqProperties
<1>2. CASE ~ EndOfHeadersReached(http)
  BY <1>2 DEF Flushed
<1> QED BY <1>1, <1>2

LEMMA LastTokenTypes ==
  ASSUME wire \in Seq(Tokens)
  PROVE  /\ LastToken(wire) \in Seq(Tokens) /\ Len(LastToken(wire)) <= 1
         /\ wire # <<>> => LastToken(wire) = <<wire[Len(wire)]>> /\ wire[Len(wire)] \in Tokens
         /\ wire = <<>> => LastToken(wire) = <<>>
<1>1. wire # <<>> => Len(wire) \in 1..Len(wire) /\ wire[Len(wire)] \in Tokens
  BY ElementOfSeq
<1> QED BY <1>1 DEF LastToken

LEMMA ShortWrites ==
  /\ <<>> \in Seq(Tokens) /\ <<"end">> \in Seq(Tokens) /\ <<"body">> \in Seq(Tokens)
  /\ <<"header">> \in Seq(Tokens) /\ <<"line">> \in Seq(Tokens)
<1>1. \A x \in Tokens : <<x>> \in Seq(Tokens)
  OBVIOUS
<1>2. "end" \in Tokens /\ "body" \in Tokens /\ "header" \in Tokens /\ "line" \in Tokens
  BY DEF Tokens
<1> QED BY <1>1, <1>2

LEMMA WritesTypes ==
  ASSUME NEW open, NEW old \in Seq(Tokens), NEW tokens \in Seq(Tokens),
         Writes(open, old, tokens)
  PROVE  wire' \in Seq(Tokens)
BY ConcatProperties DEF Writes

LEMMA AnswersTypes ==
  ASSUME own.of \in Responses, own.begun \in BOOLEAN, NEW left \in Seq(Symbols), NEW open,
         NEW begun \in BOOLEAN, Answers(open, begun, left)
  PROVE  coming' \in Seq(Symbols) /\ own'.of \in Responses /\ own'.begun \in BOOLEAN
<1>1. CASE open
  <2>1. PICK r \in Responses : own' = [of |-> r, begun |-> begun]
                               /\ coming' = left \o Response(r)
    BY <1>1 DEF Answers
  <2>2. Response(r) \in Seq(Symbols)
    BY LinesOfAResponse
  <2> QED BY <2>1, <2>2, ConcatProperties
<1>2. CASE ~ open
  BY <1>2 DEF Answers
<1> QED BY <1>1, <1>2

StartRefused(rest) ==
  /\ ~ MayStart(StartState)
  /\ http' = StartState /\ coming' = rest /\ app' = "free"
  /\ Return("start", HTTP_ERROR_API)
  /\ UNCHANGED <<link, own, wire, slips>>
StartFails(begun, rest) ==
  /\ MayStart(StartState) /\ ~ Kept
  /\ http' = StartState
  /\ \/ coming' = rest /\ UNCHANGED <<link, wire>>
     \/ coming' = <<>> /\ link' \in BOOLEAN /\ wire' = <<>>
  /\ \/ begun /\ app' = "headers"
        /\ slips' = IF link' \/ coming' # <<>> THEN slips \cup {"unstarted"} ELSE slips
     \/ app' = "free" /\ slips' = IF begun THEN slips \cup {"abandoned"} ELSE slips
  /\ Return("start", HTTP_ERROR_CONNECTION_FAILED)
  /\ UNCHANGED own
Begins(ends, body) ==
  InitialHeaders \o (IF ends THEN <<"end">> ELSE <<>>) \o (IF body THEN <<"body">> ELSE <<>>)
StartSucceeds(begun, body, ends, rest) ==
  /\ MayStart(StartState)
  /\ link' = (Kept => link)
  /\ http' = [StartState EXCEPT !.iState = IF ends THEN eRequestSent ELSE eRequestStarted]
  /\ Writes(link', IF Kept THEN LastToken(wire) ELSE <<>>, Begins(ends, body))
  /\ IF ends THEN Answers(link', begun, IF Kept THEN rest ELSE <<>>)
     ELSE coming' = (IF Kept THEN rest ELSE <<>>) /\ UNCHANGED own
  /\ app' = IF begun /\ ~ body THEN "headers" ELSE "sent"
  /\ Return("start", HTTP_SUCCESS)
  /\ slips' = IF Kept THEN slips ELSE slips \ {"unstarted"}

LEMMA StartCases ==
  ASSUME coming \in Seq(Symbols), NEW begun \in BOOLEAN, NEW body \in BOOLEAN,
         StartRequest(begun, body)
  PROVE  /\ alive' = alive /\ requests' = requests + 1
         /\ app = IF begun THEN "begun" ELSE "free"
         /\ \/ \E rest \in Seq(Symbols) : StartRefused(rest)
            \/ \E rest \in Seq(Symbols) : StartFails(begun, rest)
            \/ \E rest \in Seq(Symbols) : StartSucceeds(begun, body, Ends(begun, body), rest)
<1>1. /\ alive' = alive /\ requests' = requests + 1
      /\ app = IF begun THEN "begun" ELSE "free"
  BY DEF StartRequest
<1>2. \E rest \in Flushed : \/ StartRefused(rest) \/ StartFails(begun, rest)
                           \/ StartSucceeds(begun, body, Ends(begun, body), rest)
  BY Zenon DEF StartRequest, StartRefused, StartFails, StartSucceeds, Begins
<1>3. \A rest \in Flushed : rest \in Seq(Symbols)
  BY FlushedIsText
<1> QED BY <1>1, <1>2, <1>3

LEMMA StartTypes ==
  ASSUME HttpTypes, NEW begun \in BOOLEAN, NEW body \in BOOLEAN, StartRequest(begun, body)
  PROVE  HttpTypes'
<1>0. /\ http \in Fields /\ coming \in Seq(Symbols) /\ CallTypes
      /\ own.of \in Responses /\ own.begun \in BOOLEAN
      /\ wire \in Seq(Tokens) /\ slips \subseteq {"nothing", "abandoned", "unstarted"}
      /\ requests \in Nat /\ alive \in BOOLEAN /\ link \in BOOLEAN
  BY DEF HttpTypes, CallTypes
<1>1. requests' \in Nat /\ alive' \in BOOLEAN
  BY <1>0, StartCases
<1>2. StartState \in Fields
  BY <1>0, StartFields
<1>3. \A value : Return("start", value) => CallTypes'
  BY ReturnTypes DEF Replies
<1>4. ASSUME NEW rest \in Seq(Symbols), StartRefused(rest)
      PROVE  HttpTypes'
  <2>1. CallTypes' /\ app' \in Stages
    BY <1>3, <1>4 DEF StartRefused, Stages
  <2> QED BY <1>0, <1>1, <1>2, <1>4, <2>1 DEF StartRefused, HttpTypes, CallTypes
<1>5. ASSUME NEW rest \in Seq(Symbols), StartFails(begun, rest)
      PROVE  HttpTypes'
  <2>1. CallTypes'
    BY <1>3, <1>5 DEF StartFails
  <2>2. app' \in Stages /\ slips' \subseteq {"nothing", "abandoned", "unstarted"}
    <3>1. \/ slips' = IF link' \/ coming' # <<>> THEN slips \cup {"unstarted"} ELSE slips
          \/ slips' = IF begun THEN slips \cup {"abandoned"} ELSE slips
      BY <1>5, Zenon DEF StartFails
    <3>2. \/ slips' = slips \/ slips' = slips \cup {"unstarted"}
          \/ slips' = slips \cup {"abandoned"}
      BY <3>1, Zenon
    <3>3. app' \in Stages
      BY <1>5 DEF StartFails, Stages
    <3> QED BY <1>0, <3>2, <3>3
  <2>3. coming' \in Seq(Symbols) /\ wire' \in Seq(Tokens) /\ link' \in BOOLEAN
    <3>1. \/ coming' = rest /\ link' = link /\ wire' = wire
          \/ coming' = <<>> /\ link' \in BOOLEAN /\ wire' = <<>>
      BY <1>5, Zenon DEF StartFails
    <3>2. <<>> \in Seq(Symbols) /\ <<>> \in Seq(Tokens)
      OBVIOUS
    <3>3. CASE coming' = rest /\ link' = link /\ wire' = wire
      BY <1>0, <3>3
    <3>4. CASE coming' = <<>> /\ link' \in BOOLEAN /\ wire' = <<>>
      BY <3>2, <3>4
    <3> QED BY <3>1, <3>3, <3>4
  <2> QED BY <1>0, <1>1, <1>2, <1>5, <2>1, <2>2, <2>3 DEF StartFails, HttpTypes, CallTypes
<1>6. ASSUME NEW rest \in Seq(Symbols), NEW ends \in BOOLEAN,
             StartSucceeds(begun, body, ends, rest)
      PROVE  HttpTypes'
  <2> DEFINE old == IF Kept THEN LastToken(wire) ELSE <<>>
             left == IF Kept THEN rest ELSE <<>>
  <2>1. CallTypes' /\ slips' \subseteq slips
    BY <1>3, <1>6 DEF StartSucceeds
  <2>2. app' \in Stages /\ link' \in BOOLEAN
    BY <1>6 DEF StartSucceeds, Stages
  <2>3. old \in Seq(Tokens) /\ left \in Seq(Symbols)
    BY <1>0, LastTokenTypes
  <2>4. Begins(ends, body) \in Seq(Tokens)
    <3>1. /\ InitialHeaders \in Seq(Tokens)
          /\ (IF ends THEN <<"end">> ELSE <<>>) \in Seq(Tokens)
          /\ (IF body THEN <<"body">> ELSE <<>>) \in Seq(Tokens)
      BY ShortWrites DEF InitialHeaders
    <3> QED BY <3>1, ConcatProperties DEF Begins
  <2>5. Writes(link', old, Begins(ends, body))
    BY <1>6, Zenon DEF StartSucceeds
  <2>6. IF ends THEN Answers(link', begun, left) ELSE coming' = left /\ UNCHANGED own
    BY <1>6, Zenon DEF StartSucceeds
  <2>7. http' = [StartState EXCEPT !.iState = IF ends THEN eRequestSent ELSE eRequestStarted]
    BY <1>6, Zenon DEF StartSucceeds
  <2> HIDE DEF old, left
  <2>8. http' \in Fields
    BY <1>0, <2>7, StartFields
  <2>9. wire' \in Seq(Tokens)
    BY <2>3, <2>4, <2>5, WritesTypes
  <2>10. coming' \in Seq(Symbols) /\ own'.of \in Responses /\ own'.begun \in BOOLEAN
    BY <1>0, <2>3, <2>6, AnswersTypes
  <2> QED BY <1>0, <1>1, <2>1, <2>2, <2>8, <2>9, <2>10 DEF HttpTypes, CallTypes
<1>7. Ends(begun, body) \in BOOLEAN
  BY DEF Ends
<1> QED BY <1>0, <1>4, <1>5, <1>6, <1>7, StartCases

LEMMA FinishTypes ==
  ASSUME HttpTypes, NEW tokens \in {<<>>, <<"body">>}, Finish(tokens), app' \in Stages
  PROVE  HttpTypes'
<1>0. /\ http \in Fields /\ coming \in Seq(Symbols) /\ wire \in Seq(Tokens)
      /\ own.of \in Responses /\ own.begun \in BOOLEAN
  BY DEF HttpTypes
<1>1. http' \in Fields
  BY <1>0, SetState DEF Finish
<1>2. wire' \in Seq(Tokens)
  <2>1. tokens \in Seq(Tokens) /\ (IF Finishes THEN <<"end">> ELSE <<>>) \in Seq(Tokens)
    BY ShortWrites
  <2>2. Writes(link, wire, (IF Finishes THEN <<"end">> ELSE <<>>) \o tokens)
    BY DEF Finish
  <2>3. (IF Finishes THEN <<"end">> ELSE <<>>) \o tokens \in Seq(Tokens)
    BY <2>1, ConcatProperties
  <2> QED BY <1>0, <2>2, <2>3, WritesTypes
<1>3. coming' \in Seq(Symbols) /\ own'.of \in Responses /\ own'.begun \in BOOLEAN
  <2>1. IF Finishes THEN Answers(link, TRUE, coming) ELSE UNCHANGED <<coming, own>>
    BY DEF Finish
  <2>2. CASE Finishes
    BY <1>0, <2>1, <2>2, AnswersTypes
  <2>3. CASE ~ Finishes
    BY <1>0, <2>1, <2>3
  <2> QED BY <2>2, <2>3
<1>4. UNCHANGED <<alive, link, doing, ret, slips, requests>>
  BY DEF Finish
<1> QED BY <1>1, <1>2, <1>3, <1>4 DEF HttpTypes

LEMMA HttpTypeStep ==
  ASSUME HttpTypes, [HttpNext]_httpVars
  PROVE  HttpTypes'
<1>0. /\ http \in Fields /\ coming \in Seq(Symbols) /\ wire \in Seq(Tokens)
      /\ own.of \in Responses /\ own.begun \in BOOLEAN /\ app \in Stages /\ link \in BOOLEAN
      /\ slips \subseteq {"nothing", "abandoned", "unstarted"} /\ CallTypes /\ doing \in Calls
  BY DEF HttpTypes, CallTypes
<1>1. CASE BeginRequest
  <2>1. http' \in Fields
    BY <1>0, <1>1, SetState DEF BeginRequest
  <2> QED BY <1>1, <2>1 DEF BeginRequest, HttpTypes, Stages, connVars
<1>2. CASE Request
  BY <1>2, StartTypes DEF Request
<1>3. CASE SendHeader
  <2>1. wire' \in Seq(Tokens)
    BY <1>0, <1>3, WritesTypes, ShortWrites DEF SendHeader
  <2> QED BY <1>3, <2>1 DEF SendHeader, HttpTypes, connVars
<1>4. CASE BeginBody
  BY <1>4, FinishTypes DEF BeginBody, Stages
<1>5. CASE Write
  BY <1>5, FinishTypes DEF Write, Stages
<1>6. CASE EndRequest
  BY <1>6, FinishTypes DEF EndRequest, Stages
<1>7. CASE Stop
  <2>1. http' \in Fields
    BY <1>7, ResetFields DEF Stop
  <2>2. coming' \in Seq(Symbols) /\ wire' \in Seq(Tokens)
    BY <1>7 DEF Stop
  <2> QED BY <1>7, <2>1, <2>2 DEF Stop, HttpTypes, Stages
<1>8. CASE StatusBegins
  <2>1. http' \in Fields
    <3>1. CASE http.iState < eRequestSent
      BY <1>0, <1>8, <3>1 DEF StatusBegins
    <3>2. CASE ~ http.iState < eRequestSent
      <4>1. PICK g : g = [http EXCEPT !.iStatusCode = 0]
        OBVIOUS
      <4>2. g \in Fields
        BY <1>0, <4>1, SetCode
      <4>3. http' = [g EXCEPT !.iState = eRequestSent]
        BY <1>8, <3>2, <4>1 DEF StatusBegins
      <4> QED BY <4>2, <4>3, SetState
    <3> QED BY <3>1, <3>2
  <2>2. CallTypes'
    <3>1. Return("status", HTTP_ERROR_API) \/ Waits("status")
      BY <1>8 DEF StatusBegins
    <3> QED BY <1>0, <3>1, ReturnTypes, WaitTypes DEF Replies
  <2>3. wire' \in Seq(Tokens)
    BY <1>0, <1>8, LastTokenTypes DEF StatusBegins
  <2> QED BY <1>0, <1>8, <2>1, <2>2, <2>3 DEF StatusBegins, Mine, CallTypes, HttpTypes
<1>9. CASE StatusByte
  BY <1>9, StatusByteTypes
<1>10. CASE StatusTimesOut
  <2>1. http' \in Fields /\ CallTypes'
    <3>1. CASE http.iState = eStatusCodeRead /\ Informational(http)
      <4>1. PICK g : g = [http EXCEPT !.iStatusCode = 0]
        OBVIOUS
      <4>2. g \in Fields
        BY <1>0, <4>1, SetCode
      <4>3. http' = [g EXCEPT !.iState = eRequestSent] /\ UNCHANGED <<doing, ret>>
        BY <1>10, <3>1, <4>1 DEF StatusTimesOut
      <4> QED BY <1>0, <4>2, <4>3, SetState DEF CallTypes
    <3>2. CASE ~ (http.iState = eStatusCodeRead /\ Informational(http))
      <4>1. Return("status", HTTP_ERROR_TIMED_OUT) /\ UNCHANGED http
        BY <1>10, <3>2 DEF StatusTimesOut
      <4>2. CallTypes'
        BY <4>1, ReturnTypes DEF Replies
      <4> QED BY <1>0, <4>1, <4>2
    <3> QED BY <3>1, <3>2
  <2> QED BY <1>0, <1>10, <2>1 DEF StatusTimesOut, Mine, CallTypes, HttpTypes
<1>11. ASSUME NEW op \in {"headers", "line"}, HeadersBegin(op)
       PROVE  HttpTypes'
  <2>1. CallTypes'
    BY <1>0, <1>11, WaitTypes DEF HeadersBegin
  <2> QED BY <1>0, <1>11, <2>1 DEF HeadersBegin, Mine, CallTypes, HttpTypes
<1>12. CASE HeaderByte
  <2>1. http' = ReadHeader(http, Head(coming)) /\ coming # <<>> /\ coming' = Tail(coming)
    BY <1>12 DEF HeaderByte
  <2>2. http' \in Fields /\ coming' \in Seq(Symbols)
    BY <1>0, <2>1, ReadHeaderFields, TailIsText
  <2>3. CallTypes'
    <3>1. doing.op \in {"headers", "line"}
      BY <1>12 DEF HeaderByte
    <3>2. \/ Return(doing.op, HTTP_SUCCESS)
          \/ /\ doing' = [doing EXCEPT !.line = @ \/ Head(coming) \notin {"CR", "LF"}]
             /\ UNCHANGED ret
      BY <1>12, Zenon DEF HeaderByte
    <3>3. CASE Return(doing.op, HTTP_SUCCESS)
      BY <3>1, <3>3, ReturnTypes DEF Replies
    <3>4. CASE /\ doing' = [doing EXCEPT !.line = @ \/ Head(coming) \notin {"CR", "LF"}]
               /\ UNCHANGED ret
      <4>1. PICK b \in BOOLEAN : b = (doing.line \/ Head(coming) \notin {"CR", "LF"})
        OBVIOUS
      <4>2. doing' = [doing EXCEPT !.line = b]
        BY <3>4, <4>1
      <4>3. doing' \in Calls /\ doing'.op = doing.op
        BY <1>0, <4>2 DEF Calls
      <4> QED BY <1>0, <3>1, <3>4, <4>3 DEF CallTypes
    <3> QED BY <3>2, <3>3, <3>4
  <2> QED BY <1>0, <1>12, <2>2, <2>3 DEF HeaderByte, Mine, CallTypes, HttpTypes
<1>13. CASE HeaderNothing
  <2>1. http' \in Fields
    BY <1>0, <1>13, ReadHeaderFields DEF HeaderNothing
  <2>2. doing.op = "line" /\ doing' = [doing EXCEPT !.line = TRUE]
    BY <1>13 DEF HeaderNothing
  <2>3. doing' \in Calls /\ doing'.op = "line"
    BY <1>0, <2>2 DEF Calls
  <2>4. slips' \subseteq {"nothing", "abandoned", "unstarted"}
    BY <1>0, <1>13 DEF HeaderNothing
  <2> QED BY <1>13, <2>1, <2>3, <2>4 DEF HeaderNothing, connVars, HttpTypes
<1>14. CASE HeadersTimeOut
  <2>1. CallTypes'
    BY <1>14, ReturnTypes DEF HeadersTimeOut, Replies
  <2> QED BY <1>14, <2>1 DEF HeadersTimeOut, Mine, CallTypes, HttpTypes
<1>15. CASE BodyBegins
  <2>1. doing' = [op |-> "body", line |-> FALSE, length |-> http.iContentLength, text |-> <<>>]
    BY <1>15 DEF BodyBegins, NoCall
  <2>2. doing' \in Calls /\ doing'.op = "body"
    BY <1>0, <2>1 DEF Calls, Fields
  <2> QED BY <1>15, <2>2 DEF BodyBegins, Mine, HttpTypes
<1>16. CASE BodyByte
  <2>1. coming # <<>> /\ coming' = Tail(coming) /\ doing.op = "body"
    BY <1>16 DEF BodyByte
  <2>2. coming' \in Seq(Symbols) /\ Head(coming) \in Symbols
    BY <1>0, <2>1, TailIsText
  <2>3. http' \in Fields /\ doing' \in Calls /\ doing'.op = "body"
    <3>1. CASE http.iState = eReadingChunkLength
      BY <1>0, <1>16, <2>1, <3>1, ChunkLengthFields DEF BodyByte
    <3>2. CASE http.iState # eReadingChunkLength
      <4>1. /\ http' = Counted(http)
            /\ doing' = [doing EXCEPT !.text = Append(doing.text, Head(coming))]
        BY <1>16, <3>2 DEF BodyByte
      <4>2. doing.text \in Seq(Symbols)
        BY <1>0 DEF Calls
      <4>3. PICK t \in Seq(Symbols) : t = Append(doing.text, Head(coming))
        BY <2>2, <4>2, AppendProperties
      <4>4. doing' = [doing EXCEPT !.text = t]
        BY <4>1, <4>3
      <4>5. doing' \in Calls /\ doing'.op = doing.op
        BY <1>0, <4>4 DEF Calls
      <4> QED BY <1>0, <2>1, <4>1, <4>5, CountedFields
    <3> QED BY <3>1, <3>2
  <2> QED BY <1>16, <2>2, <2>3 DEF BodyByte, Mine, HttpTypes
<1>17. CASE BodyReturns
  <2>1. NoCall \in Calls /\ doing' = NoCall /\ ret'.op = "body"
    BY <1>17 DEF BodyReturns, NoCall, Calls
  <2> QED BY <1>17, <2>1 DEF BodyReturns, Mine, HttpTypes, Replies
<1>18. CASE Done
  BY <1>18 DEF Done, connVars, HttpTypes, Stages
<1>19. CASE ServerCloses
  <2>1. coming' = coming \/ coming' = <<>>
    BY <1>19, Zenon DEF ServerCloses
  <2>2. <<>> \in Seq(Symbols)
    OBVIOUS
  <2>3. coming' \in Seq(Symbols)
    BY <1>0, <2>1, <2>2, Zenon
  <2> QED BY <1>19, <2>3 DEF ServerCloses, HttpTypes
<1>20. CASE UNCHANGED httpVars
  BY <1>20 DEF httpVars, connVars, HttpTypes
<1> QED BY <1>1, <1>2, <1>3, <1>4, <1>5, <1>6, <1>7, <1>8, <1>9, <1>10, <1>11, <1>12, <1>13,
           <1>14, <1>15, <1>16, <1>17, <1>18, <1>19, <1>20 DEF HttpNext

\* The type invariant, for any server and any number of requests.
THEOREM HttpTypeCorrect ==
  HttpSpec => []HttpTypes
BY HttpTypeInit, HttpTypeStep, PTL DEF HttpSpec

-----------------------------------------------------------------------------
(* Where the state machine is when the application is at a stage.          *)

Abandoned == "abandoned" \in slips

CallInv ==
  /\ doing.op # "none" => app = "sent"
  /\ app \in {"headers", "body", "written"} => ret.op = "start"
  /\ app \in {"begun", "headers"} => http.iState = eRequestStarted
  /\ app \in {"body", "written"} => http.iState = eRequestSent
  /\ ~ Abandoned /\ app = "sent" => http.iState >= eRequestSent
  /\ ~ Abandoned /\ app = "free" => http.iState # eRequestStarted
  /\ http.iState = eIdle => http = ResetState /\ app # "sent"

LEMMA CallInit ==
  HttpInit => CallInv
BY ResetFields DEF HttpInit, CallInv, NoCall, ResetState

\* A request that may start is one that was begun, or the state is reset.
LEMMA MayStartIs ==
  ASSUME HttpTypes, CallInv, NEW begun \in BOOLEAN, NEW body \in BOOLEAN,
         StartRequest(begun, body)
  PROVE  /\ begun => http.iState = eRequestStarted /\ StartState = http
         /\ ~ begun /\ ~ Abandoned /\ MayStart(StartState) => StartState = ResetState
<1>0. http \in Fields /\ coming \in Seq(Symbols)
  BY DEF HttpTypes
<1>1. app = IF begun THEN "begun" ELSE "free"
  BY <1>0, StartCases
<1>2. begun => http.iState = eRequestStarted /\ StartState = http
  BY <1>0, <1>1, StartFields DEF CallInv, EndOfHeadersReached
<1>3. ASSUME ~ begun, ~ Abandoned, MayStart(StartState)
      PROVE  StartState = ResetState
  <2>1. CASE EndOfHeadersReached(http)
    BY <1>0, <2>1, StartFields
  <2>2. CASE ~ EndOfHeadersReached(http)
    BY <1>0, <1>1, <1>3, <2>2, StartFields DEF CallInv, MayStart
  <2> QED BY <2>1, <2>2
<1> QED BY <1>2, <1>3

LEMMA CallStart ==
  ASSUME HttpTypes, CallInv, NEW begun \in BOOLEAN, NEW body \in BOOLEAN,
         StartRequest(begun, body)
  PROVE  CallInv'
<1>0. http \in Fields /\ coming \in Seq(Symbols)
  BY DEF HttpTypes
<1>1. StartState \in Fields /\ (StartState.iState = eIdle => StartState = ResetState)
  BY <1>0, StartFields, ResetFields DEF CallInv
<1>2. \A value : Return("start", value) => doing'.op = "none" /\ ret'.op = "start"
  BY DEF Return, NoCall
<1>3. ResetState' = ResetState
  BY DEF ResetState, Fresh
<1>4. ASSUME NEW rest \in Seq(Symbols), StartRefused(rest)
      PROVE  CallInv'
  <2>1. doing'.op = "none" /\ http' = StartState /\ app' = "free" /\ ~ MayStart(StartState)
    BY <1>2, <1>4 DEF StartRefused
  <2> QED BY <1>1, <1>3, <2>1 DEF CallInv, MayStart
<1>5. ASSUME NEW rest \in Seq(Symbols), StartFails(begun, rest)
      PROVE  CallInv'
  <2>1. doing'.op = "none" /\ ret'.op = "start" /\ http' = StartState
    BY <1>2, <1>5 DEF StartFails
  <2>2. CASE begun /\ app' = "headers"
    BY <1>1, <1>3, <2>1, <2>2, MayStartIs DEF CallInv
  <2>3. CASE app' = "free" /\ begun /\ slips' = slips \cup {"abandoned"}
    BY <1>1, <1>3, <2>1, <2>3 DEF CallInv, Abandoned
  <2>4. CASE app' = "free" /\ ~ begun /\ slips' = slips
    <3>1. ~ Abandoned => StartState = ResetState
      BY <1>5, <2>4, MayStartIs DEF StartFails
    <3> QED BY <1>1, <1>3, <2>1, <2>4, <3>1, ResetFields DEF CallInv, Abandoned
  <2>5. \/ begun /\ app' = "headers"
        \/ app' = "free" /\ slips' = IF begun THEN slips \cup {"abandoned"} ELSE slips
    BY <1>5 DEF StartFails
  <2> QED BY <2>2, <2>3, <2>4, <2>5
<1>6. ASSUME NEW rest \in Seq(Symbols), StartSucceeds(begun, body, Ends(begun, body), rest)
      PROVE  CallInv'
  <2>1. /\ doing'.op = "none" /\ ret'.op = "start" /\ (Abandoned' <=> Abandoned)
        /\ app' = IF begun /\ ~ body THEN "headers" ELSE "sent"
        /\ http' = [StartState EXCEPT !.iState = IF Ends(begun, body) THEN eRequestSent
                                                 ELSE eRequestStarted]
    <3>1. /\ Return("start", HTTP_SUCCESS)
          /\ slips' = IF Kept THEN slips ELSE slips \ {"unstarted"}
          /\ app' = IF begun /\ ~ body THEN "headers" ELSE "sent"
          /\ http' = [StartState EXCEPT !.iState = IF Ends(begun, body) THEN eRequestSent
                                                   ELSE eRequestStarted]
      BY <1>6, Zenon DEF StartSucceeds
    <3>2. Abandoned' <=> Abandoned
      BY <3>1 DEF Abandoned
    <3> QED BY <1>2, <3>1, <3>2, Zenon
  <2>2. http'.iState = IF Ends(begun, body) THEN eRequestSent ELSE eRequestStarted
    BY <1>1, <2>1, SetState
  <2>3. begun /\ ~ body => ~ Ends(begun, body)
    BY DEF Ends
  <2>4. ~ (begun /\ ~ body) /\ ~ Abandoned => Ends(begun, body)
    <3>1. ~ begun /\ ~ Abandoned => StartState = ResetState
      BY <1>6, MayStartIs DEF StartSucceeds
    <3> QED BY <3>1, ResetFields DEF Ends
  <2> QED BY <2>1, <2>2, <2>3, <2>4 DEF CallInv, Abandoned
<1> QED BY <1>0, <1>4, <1>5, <1>6, StartCases

LEMMA FinishIs ==
  ASSUME HttpTypes, NEW tokens, Finish(tokens)
  PROVE  /\ http'.iState = IF Finishes THEN eRequestSent ELSE http.iState
         /\ ~ Finishes => http' = http
         /\ UNCHANGED <<alive, link, doing, ret, slips>>
<1>1. http \in Fields
  BY DEF HttpTypes
<1>2. /\ http' = IF Finishes THEN [http EXCEPT !.iState = eRequestSent] ELSE http
      /\ UNCHANGED <<alive, link, doing, ret, slips>>
  BY DEF Finish
<1> QED BY <1>1, <1>2, SetState

\* The calls behind a request change neither its stage nor what is given up, and the
\* state of the client to one behind the request.
ResponseStep ==
  /\ app = "sent" /\ app' = "sent" /\ (Abandoned <=> Abandoned')
  /\ \/ http' = http \/ http'.iState >= eRequestSent
     \/ http'.iState = http.iState /\ http.iState # eIdle

LEMMA ResponseSteps ==
  ASSUME HttpTypes, CallInv,
         \/ StatusBegins \/ StatusByte \/ StatusTimesOut
         \/ (\E op \in {"headers", "line"} : HeadersBegin(op))
         \/ HeaderByte \/ HeaderNothing \/ HeadersTimeOut
         \/ BodyBegins \/ BodyByte \/ BodyReturns
  PROVE  ResponseStep
<1>0. http \in Fields /\ app \in Stages
  BY DEF HttpTypes
<1>1. Mine => app' = app /\ (Abandoned <=> Abandoned')
  BY DEF Mine, Abandoned
<1>2. doing.op # "none" => app = "sent"
  BY DEF CallInv
<1>3. \A h \in Fields :
        [h EXCEPT !.iStatusCode = 0, !.iState = eRequestSent].iState = eRequestSent
  <2> SUFFICES ASSUME NEW h \in Fields
               PROVE  [h EXCEPT !.iStatusCode = 0, !.iState = eRequestSent].iState = eRequestSent
    OBVIOUS
  <2>1. PICK g : g = [h EXCEPT !.iStatusCode = 0]
    OBVIOUS
  <2>2. g \in Fields
    BY <2>1, SetCode
  <2>3. [g EXCEPT !.iState = eRequestSent].iState = eRequestSent
    BY <2>2, SetState
  <2> QED BY <2>1, <2>3
<1>4. CASE StatusBegins
  <2>1. app = "sent" /\ Mine
    BY <1>4 DEF StatusBegins
  <2>2. http' = http \/ http' = [http EXCEPT !.iStatusCode = 0, !.iState = eRequestSent]
    BY <1>4, Zenon DEF StatusBegins
  <2>3. http' = http \/ http'.iState = eRequestSent
    BY <1>0, <1>3, <2>2, Zenon
  <2> QED BY <1>1, <2>1, <2>3 DEF ResponseStep
<1>5. CASE StatusByte
  <2>1. app = "sent" /\ Mine
    BY <1>2, <1>5 DEF StatusByte
  <2>2. http' = http \/ http'.iState >= eRequestSent
    <3> DEFINE c == Head(coming)
               h == CASE http.iState = eRequestSent
                           -> [http EXCEPT !.iState = eReadingStatusCode]
                      [] http.iState = eReadingStatusCode ->
                           IF IsDigit(c) THEN [http EXCEPT !.iStatusCode = 10 * @ + Number[c]]
                           ELSE [http EXCEPT !.iState = eStatusCodeRead]
                      [] OTHER -> http
    <3>1. \/ http' = http \/ http' = h
          \/ http' = [h EXCEPT !.iStatusCode = 0, !.iState = eRequestSent]
      BY <1>5, Zenon DEF StatusByte
    <3>2. h \in Fields /\ (h = http \/ h.iState >= eRequestSent)
      <4>1. CASE http.iState = eRequestSent
        <5>1. h = [http EXCEPT !.iState = eReadingStatusCode]
          BY <4>1
        <5> HIDE DEF h
        <5> QED BY <1>0, <5>1, SetState
      <4>2. CASE http.iState = eReadingStatusCode /\ IsDigit(c)
        <5>1. 10 * http.iStatusCode + Number[c] \in Nat
          BY <1>0, <4>2, DigitIsNat DEF Fields
        <5>2. h = [http EXCEPT !.iStatusCode = 10 * http.iStatusCode + Number[c]]
          BY <4>2
        <5> HIDE DEF h
        <5> QED BY <1>0, <4>2, <5>1, <5>2, SetCode
      <4>3. CASE http.iState = eReadingStatusCode /\ ~ IsDigit(c)
        <5>1. h = [http EXCEPT !.iState = eStatusCodeRead]
          BY <4>3
        <5> HIDE DEF h
        <5> QED BY <1>0, <5>1, SetState
      <4>4. CASE http.iState \notin {eRequestSent, eReadingStatusCode}
        BY <1>0, <4>4
      <4> QED BY <4>1, <4>2, <4>3, <4>4
    <3> HIDE DEF h
    <3>3. http' = http \/ http' = h \/ http'.iState = eRequestSent
      BY <1>3, <3>1, <3>2, Zenon
    <3> QED BY <3>2, <3>3
  <2> QED BY <1>1, <2>1, <2>2 DEF ResponseStep
<1>6. CASE StatusTimesOut
  <2>1. app = "sent" /\ Mine
    BY <1>2, <1>6 DEF StatusTimesOut
  <2>2. http' = http \/ http' = [http EXCEPT !.iStatusCode = 0, !.iState = eRequestSent]
    BY <1>6, Zenon DEF StatusTimesOut
  <2>3. http' = http \/ http'.iState = eRequestSent
    BY <1>0, <1>3, <2>2, Zenon
  <2> QED BY <1>1, <2>1, <2>3 DEF ResponseStep
<1>7. ASSUME NEW op \in {"headers", "line"}, HeadersBegin(op)
      PROVE  ResponseStep
  BY <1>1, <1>7 DEF HeadersBegin, ResponseStep
<1>8. CASE HeaderByte
  <2>1. app = "sent" /\ Mine /\ http' = ReadHeader(http, Head(coming))
    BY <1>2, <1>8 DEF HeaderByte
  <2> QED BY <1>0, <1>1, <2>1, ReadHeaderFields DEF ResponseStep
<1>9. CASE HeaderNothing
  <2>1. app = "sent" /\ app' = app /\ http' = ReadHeader(http, "nothing")
    BY <1>2, <1>9 DEF HeaderNothing
  <2>2. Abandoned <=> Abandoned'
    BY <1>9 DEF HeaderNothing, Abandoned
  <2> QED BY <1>0, <2>1, <2>2, ReadHeaderFields DEF ResponseStep
<1>10. CASE HeadersTimeOut
  BY <1>1, <1>2, <1>10 DEF HeadersTimeOut, ResponseStep
<1>11. CASE BodyBegins
  BY <1>1, <1>11 DEF BodyBegins, ResponseStep
<1>12. CASE BodyByte
  <2>1. app = "sent" /\ Mine
    BY <1>2, <1>12 DEF BodyByte
  <2>2. CASE http.iState = eReadingChunkLength
    <3>1. http' = ChunkLength(http, Head(coming))
      BY <1>12, <2>2 DEF BodyByte
    <3> QED BY <1>0, <1>1, <2>1, <2>2, <3>1, ChunkLengthFields DEF ResponseStep
  <2>3. CASE http.iState # eReadingChunkLength
    <3>1. http' = Counted(http)
      BY <1>12, <2>3 DEF BodyByte
    <3>2. http.iState # eIdle
      BY <2>1 DEF CallInv
    <3>3. http'.iState = http.iState \/ http'.iState \in {9, 10}
      BY <1>0, <3>1, CountedFields
    <3> QED BY <1>0, <1>1, <2>1, <3>2, <3>3 DEF ResponseStep
  <2> QED BY <2>2, <2>3
<1>13. CASE BodyReturns
  BY <1>1, <1>2, <1>13 DEF BodyReturns, ResponseStep
<1> QED BY <1>4, <1>5, <1>6, <1>7, <1>8, <1>9, <1>10, <1>11, <1>12, <1>13

LEMMA CallStep ==
  ASSUME HttpTypes, CallInv, [HttpNext]_httpVars
  PROVE  CallInv'
<1>0. http \in Fields /\ app \in Stages
  BY DEF HttpTypes
<1>1. ResetState' = ResetState
  BY DEF ResetState, Fresh
<1>2. CASE BeginRequest
  <2>1. /\ app = "free" /\ app' = "begun" /\ doing' = doing
        /\ http' = [http EXCEPT !.iState = eRequestStarted]
    BY <1>2 DEF BeginRequest
  <2>2. http'.iState = eRequestStarted
    BY <1>0, <2>1, SetState
  <2> QED BY <2>1, <2>2 DEF CallInv
<1>3. CASE Request
  BY <1>3, CallStart DEF Request
<1>4. CASE SendHeader
  BY <1>1, <1>4 DEF SendHeader, CallInv, Abandoned
<1>5. ASSUME NEW tokens, Finish(tokens), app \in {"headers", "body", "written"},
             app' \in {"body", "written", "sent"}
      PROVE  CallInv'
  <2>1. http.iState \in {eRequestStarted, eRequestSent} /\ ret.op = "start"
    BY <1>5 DEF CallInv
  <2>2. http'.iState = eRequestSent
    BY <1>5, <2>1, FinishIs DEF Finishes
  <2>3. doing' = doing /\ ret' = ret /\ slips' = slips
    BY <1>5, FinishIs
  <2>4. doing.op = "none"
    BY <1>5 DEF CallInv
  <2> QED BY <1>5, <2>1, <2>2, <2>3, <2>4 DEF CallInv
<1>6. CASE BeginBody
  BY <1>5, <1>6 DEF BeginBody
<1>7. CASE Write
  BY <1>5, <1>7 DEF Write
<1>8. CASE EndRequest
  BY <1>5, <1>8 DEF EndRequest
<1>9. CASE Stop
  <2>1. http' = ResetState /\ app' = "free" /\ doing' = NoCall
    BY <1>9 DEF Stop
  <2> QED BY <1>1, <2>1, ResetFields DEF CallInv, NoCall
<1>10. CASE ResponseStep
  BY <1>10 DEF ResponseStep, CallInv
<1>11. CASE Done
  <2>1. /\ app = "sent" /\ app' = "free" /\ doing = NoCall /\ UNCHANGED <<http, doing, slips>>
    BY <1>11 DEF Done
  <2>2. doing'.op = "none"
    BY <2>1 DEF NoCall
  <2> QED BY <1>0, <1>1, <2>1, <2>2 DEF CallInv, Abandoned
<1>12. CASE ServerCloses
  BY <1>1, <1>12 DEF ServerCloses, CallInv, Abandoned
<1>13. CASE UNCHANGED httpVars
  BY <1>1, <1>13 DEF httpVars, connVars, CallInv, Abandoned
<1> QED BY <1>2, <1>3, <1>4, <1>6, <1>7, <1>8, <1>9, <1>10, <1>11, <1>12, <1>13, ResponseSteps
        DEF HttpNext

-----------------------------------------------------------------------------
(* What is written.                                                        *)

Follows(last, token) ==
  last \in CASE token = "line" -> {"end", "body"}
             [] token \in {"header", "end"} -> {"line", "header"}
             [] token = "body" -> {"end", "body"}
Chain(w) == \A i \in 2..Len(w) : Follows(w[i - 1], w[i])
Final(w) == w[Len(w)]

\* On an open connection the next request, or the next header, can follow.
Unstarted == "unstarted" \in slips
WireInv ==
  ~ Abandoned /\ ~ Unstarted =>
    /\ Chain(wire)
    /\ link /\ wire # <<>> => Final(wire) \in IF app = "headers" THEN {"line", "header"}
                                            ELSE {"end", "body"}

LEMMA ChainIsWellFormed ==
  WireInv => RequestsWellFormed
BY DEF WireInv, Chain, Follows, Abandoned, Unstarted, RequestsWellFormed

LEMMA ChainOfOne ==
  \A t \in Tokens : /\ <<t>> \in Seq(Tokens) /\ Chain(<<t>>) /\ Chain(<<>>)
                   /\ <<t>> # <<>> /\ Final(<<t>>) = t /\ <<t>>[1] = t
BY DEF Chain, Final

LEMMA ChainGrows ==
  ASSUME NEW w \in Seq(Tokens), Chain(w), NEW t \in Tokens,
         w # <<>> => Follows(Final(w), t)
  PROVE  /\ w \o <<t>> \in Seq(Tokens) /\ Chain(w \o <<t>>)
         /\ w \o <<t>> # <<>> /\ Final(w \o <<t>>) = t
<1>1. /\ <<t>> \in Seq(Tokens) /\ Len(<<t>>) = 1 /\ <<t>>[1] = t /\ Len(w) \in Nat
  BY LenProperties
<1> DEFINE v == w \o <<t>>
<1>2. /\ v \in Seq(Tokens) /\ Len(v) = Len(w) + 1 /\ v[Len(w) + 1] = t
      /\ \A i \in 1..Len(w) : v[i] = w[i]
  BY <1>1, ConcatProperties
<1> HIDE DEF v
<1>3. ASSUME NEW i \in 2..Len(v)
      PROVE  Follows(v[i - 1], v[i])
  <2>1. CASE i \in 2..Len(w)
    BY <1>1, <1>2, <2>1 DEF Chain
  <2>2. CASE i = Len(w) + 1
    <3>1. w # <<>> /\ v[i - 1] = w[Len(w)] /\ v[i] = t
      BY <1>1, <1>2, <1>3, <2>2
    <3> QED BY <3>1 DEF Final
  <2> QED BY <1>1, <1>2, <1>3, <2>1, <2>2
<1>4. v # <<>> /\ Final(v) = t
  BY <1>1, <1>2 DEF Final
<1> QED BY <1>2, <1>3, <1>4 DEF v, Chain

LEMMA LastTokenChains ==
  ASSUME wire \in Seq(Tokens)
  PROVE  /\ Chain(LastToken(wire))
         /\ LastToken(wire) # <<>> => wire # <<>> /\ Final(LastToken(wire)) = Final(wire)
<1>1. CASE wire = <<>>
  BY <1>1 DEF LastToken, Chain
<1>2. CASE wire # <<>>
  <2>1. LastToken(wire) = <<Final(wire)>> /\ Final(wire) \in Tokens
    BY <1>2, LastTokenTypes DEF Final
  <2> QED BY <1>2, <2>1, ChainOfOne
<1> QED BY <1>1, <1>2

\* What startRequest() writes.
LEMMA BeginsChains ==
  ASSUME NEW old \in Seq(Tokens), Chain(old), NEW ends \in BOOLEAN, NEW body \in BOOLEAN,
         body => ends, old # <<>> => Final(old) \in {"end", "body"}
  PROVE  /\ Chain(old \o Begins(ends, body)) /\ old \o Begins(ends, body) # <<>>
         /\ Final(old \o Begins(ends, body)) = IF body THEN "body"
                                               ELSE IF ends THEN "end" ELSE "line"
<1>0. "line" \in Tokens /\ "end" \in Tokens /\ "body" \in Tokens
  BY DEF Tokens
<1>1. PICK a : a = old \o <<"line">>
  OBVIOUS
<1>2. PICK b : b = a \o <<"end">>
  OBVIOUS
<1>3. PICK c : c = b \o <<"body">>
  OBVIOUS
<1>4. a \in Seq(Tokens) /\ Chain(a) /\ a # <<>> /\ Final(a) = "line"
  BY <1>0, <1>1, ChainGrows DEF Follows
<1>5. b \in Seq(Tokens) /\ Chain(b) /\ b # <<>> /\ Final(b) = "end"
  BY <1>0, <1>2, <1>4, ChainGrows DEF Follows
<1>6. Chain(c) /\ c # <<>> /\ Final(c) = "body"
  BY <1>0, <1>3, <1>5, ChainGrows DEF Follows
<1>7. old \o Begins(ends, body) = IF body THEN c ELSE IF ends THEN b ELSE a
  <2>1. /\ <<"line">> \in Seq(Tokens) /\ <<"end">> \in Seq(Tokens)
        /\ <<"body">> \in Seq(Tokens) /\ <<>> \in Seq(Tokens)
    BY ShortWrites
  <2>2. Begins(FALSE, FALSE) = <<"line">>
    BY <2>1, ConcatEmptySeq DEF Begins, InitialHeaders
  <2>3. Begins(TRUE, FALSE) = <<"line">> \o <<"end">>
    BY <2>1, ConcatEmptySeq, ConcatProperties DEF Begins, InitialHeaders
  <2>4. Begins(TRUE, TRUE) = (<<"line">> \o <<"end">>) \o <<"body">>
    BY DEF Begins, InitialHeaders
  <2>5. old \o (<<"line">> \o <<"end">>) = b
    BY <1>1, <1>2, <2>1, ConcatAssociative
  <2>6. old \o ((<<"line">> \o <<"end">>) \o <<"body">>) = c
    <3>1. PICK e : e = <<"line">> \o <<"end">>
      OBVIOUS
    <3>2. e \in Seq(Tokens)
      BY <2>1, <3>1, ConcatProperties
    <3>3. old \o (e \o <<"body">>) = (old \o e) \o <<"body">>
      BY <2>1, <3>2, ConcatAssociative
    <3> QED BY <1>3, <2>5, <3>1, <3>3
  <2>7. ends = TRUE \/ ends = FALSE
    OBVIOUS
  <2>8. body = TRUE \/ body = FALSE
    OBVIOUS
  <2>9. CASE body
    BY <2>4, <2>6, <2>7, <2>8, <2>9, Zenon
  <2>10. CASE ~ body /\ ends
    BY <2>3, <2>5, <2>7, <2>8, <2>10, Zenon
  <2>11. CASE ~ body /\ ~ ends
    BY <1>1, <2>2, <2>7, <2>8, <2>11, Zenon
  <2> QED BY <2>9, <2>10, <2>11
<1> QED BY <1>4, <1>5, <1>6, <1>7

LEMMA WireStart ==
  ASSUME HttpTypes, CallInv, WireInv, NEW begun \in BOOLEAN, NEW body \in BOOLEAN,
         StartRequest(begun, body)
  PROVE  WireInv'
<1>0. coming \in Seq(Symbols) /\ wire \in Seq(Tokens) /\ <<>> \in Seq(Tokens) /\ Chain(<<>>)
  BY ShortWrites DEF HttpTypes, Chain
<1>1. app # "headers"
  BY <1>0, StartCases
<1>2. ASSUME NEW rest \in Seq(Symbols), StartRefused(rest)
      PROVE  WireInv'
  BY <1>1, <1>2 DEF StartRefused, WireInv, Abandoned, Unstarted
<1>3. ASSUME NEW rest \in Seq(Symbols), StartFails(begun, rest)
      PROVE  WireInv'
  <2>1. CASE coming' = <<>> /\ wire' = <<>>
    BY <1>0, <2>1 DEF WireInv
  <2>2. CASE UNCHANGED <<link, wire>>
    <3>1. CASE begun /\ app' = "headers" /\ link'
      BY <1>3, <3>1 DEF StartFails, WireInv, Unstarted
    <3>2. CASE begun /\ app' = "headers" /\ ~ link'
      BY <1>3, <2>2, <3>2 DEF StartFails, WireInv, Abandoned, Unstarted
    <3>3. CASE app' = "free"
      BY <1>1, <1>3, <2>2, <3>3 DEF StartFails, WireInv, Abandoned, Unstarted
    <3> QED BY <1>3, <3>1, <3>2, <3>3 DEF StartFails
  <2> QED BY <1>3, <2>1, <2>2 DEF StartFails
<1>4. ASSUME NEW rest \in Seq(Symbols), StartSucceeds(begun, body, Ends(begun, body), rest),
             ~ Abandoned
      PROVE  WireInv'
  <2> DEFINE old == IF Kept THEN LastToken(wire) ELSE <<>>
  <2>1. /\ Writes(link', old, Begins(Ends(begun, body), body)) /\ link' = (Kept => link)
        /\ app' = IF begun /\ ~ body THEN "headers" ELSE "sent"
        /\ MayStart(StartState) /\ slips' = IF Kept THEN slips ELSE slips \ {"unstarted"}
    BY <1>4, Zenon DEF StartSucceeds
  <2>2. /\ begun /\ ~ body => ~ Ends(begun, body)
        /\ ~ (begun /\ ~ body) => Ends(begun, body)
        /\ body => Ends(begun, body)
    <3>1. ~ begun => StartState = ResetState
      BY <1>4, <2>1, MayStartIs
    <3> QED BY <3>1, ResetFields DEF Ends
  <2>3. Ends(begun, body) \in BOOLEAN
    BY DEF Ends
  <2>4. old \in Seq(Tokens) /\ Chain(old)
    BY <1>0, LastTokenTypes, LastTokenChains
  <2>5. link' /\ old # <<>> /\ ~ Unstarted' => Final(old) \in {"end", "body"}
    BY <1>0, <1>1, <1>4, <2>1, LastTokenChains DEF WireInv, Unstarted
  <2> HIDE DEF old
  <2>6. CASE link' /\ ~ Unstarted'
    <3>1. wire' = old \o Begins(Ends(begun, body), body)
      BY <2>1, <2>6 DEF Writes
    <3>2. PICK w : w = old \o Begins(Ends(begun, body), body)
      OBVIOUS
    <3>3. /\ Chain(w)
          /\ Final(w) = IF body THEN "body" ELSE IF Ends(begun, body) THEN "end" ELSE "line"
      BY <2>2, <2>3, <2>4, <2>5, <2>6, <3>2, BeginsChains
    <3>4. Final(w) \in IF app' = "headers" THEN {"line", "header"} ELSE {"end", "body"}
      BY <2>1, <2>2, <3>3
    <3>5. wire' = w
      BY <3>1, <3>2
    <3> QED BY <3>3, <3>4, <3>5 DEF WireInv
  <2>7. CASE ~ link'
    <3>1. wire' = old
      BY <2>1, <2>7 DEF Writes
    <3> QED BY <2>4, <2>7, <3>1 DEF WireInv
  <2>8. CASE Unstarted'
    BY <2>8 DEF WireInv
  <2> QED BY <2>6, <2>7, <2>8
<1>5. ASSUME NEW rest \in Seq(Symbols), StartSucceeds(begun, body, Ends(begun, body), rest),
             Abandoned
      PROVE  WireInv'
  BY <1>5 DEF StartSucceeds, WireInv, Abandoned
<1> QED BY <1>0, <1>2, <1>3, <1>4, <1>5, StartCases

LEMMA WireFinish ==
  ASSUME HttpTypes, CallInv, WireInv, NEW tokens \in {<<>>, <<"body">>}, Finish(tokens),
         app \in {"headers", "body", "written"}, app' \in {"body", "written", "sent"}
  PROVE  WireInv'
<1>0. wire \in Seq(Tokens) /\ link' = link /\ slips' = slips
  BY DEF HttpTypes, Finish
<1>1. IF Finishes THEN app = "headers" ELSE app \in {"body", "written"}
  BY DEF Finishes, CallInv
<1>2. Writes(link, wire, (IF Finishes THEN <<"end">> ELSE <<>>) \o tokens)
  BY DEF Finish
<1>3. CASE ~ link
  BY <1>0, <1>2, <1>3 DEF Writes, WireInv, Abandoned, Unstarted
<1>4. CASE Abandoned \/ Unstarted
  BY <1>0, <1>4 DEF WireInv, Abandoned, Unstarted
<1>5. CASE link /\ ~ Abandoned /\ ~ Unstarted
  <2> DEFINE w == IF Finishes THEN wire \o <<"end">> ELSE wire
  <2>0. "end" \in Tokens /\ "body" \in Tokens
    BY DEF Tokens
  <2>1. /\ w \in Seq(Tokens) /\ Chain(w) /\ (w # <<>> => Final(w) \in {"end", "body"})
    <3>1. CASE Finishes
      <4>1. wire # <<>> => Follows(Final(wire), "end")
        BY <1>1, <1>5, <3>1 DEF WireInv, Follows
      <4>2. Chain(wire)
        BY <1>5 DEF WireInv
      <4> QED BY <1>0, <2>0, <3>1, <4>1, <4>2, ChainGrows
    <3>2. CASE ~ Finishes
      BY <1>0, <1>1, <1>5, <3>2 DEF WireInv
    <3> QED BY <3>1, <3>2
  <2>2. wire' = IF tokens = <<>> THEN w ELSE w \o <<"body">>
    <3>1. wire' = wire \o ((IF Finishes THEN <<"end">> ELSE <<>>) \o tokens)
      BY <1>2, <1>5 DEF Writes
    <3>2. PICK e : e = IF Finishes THEN <<"end">> ELSE <<>>
      OBVIOUS
    <3>3. e \in Seq(Tokens) /\ tokens \in Seq(Tokens)
      BY <3>2, ShortWrites
    <3>4. wire \o (e \o tokens) = (wire \o e) \o tokens
      BY <1>0, <3>3, ConcatAssociative
    <3>5. w = wire \o e
      BY <1>0, <3>2, ConcatEmptySeq
    <3>6. wire' = w \o tokens
      BY <3>1, <3>2, <3>4, <3>5, Zenon
    <3> HIDE DEF w
    <3>7. tokens = <<>> => w \o tokens = w
      BY <2>1, ConcatEmptySeq
    <3> QED BY <3>6, <3>7
  <2> HIDE DEF w
  <2>3. PICK v : v = w \o <<"body">>
    OBVIOUS
  <2>4. Chain(v) /\ v # <<>> /\ Final(v) = "body"
    BY <2>0, <2>1, <2>3, ChainGrows DEF Follows
  <2>5. wire' = w \/ wire' = v
    BY <2>2, <2>3
  <2> QED BY <2>1, <2>4, <2>5 DEF WireInv
<1> QED BY <1>3, <1>4, <1>5

LEMMA WireStep ==
  ASSUME HttpTypes, CallInv, WireInv, [HttpNext]_httpVars
  PROVE  WireInv'
<1>0. wire \in Seq(Tokens) /\ Chain(<<>>)
  BY DEF HttpTypes, Chain
<1>1. CASE BeginRequest
  BY <1>1 DEF BeginRequest, connVars, WireInv, Abandoned, Unstarted
<1>2. CASE Request
  BY <1>2, WireStart DEF Request
<1>3. CASE SendHeader
  <2>1. /\ app = "headers" /\ app' = app /\ UNCHANGED <<link, slips>>
        /\ wire' = IF link THEN wire \o <<"header">> ELSE wire
    BY <1>3 DEF SendHeader, connVars, Writes
  <2>2. CASE link /\ ~ Abandoned /\ ~ Unstarted
    <3>1. Chain(wire) /\ (wire # <<>> => Follows(Final(wire), "header"))
      BY <2>1, <2>2 DEF WireInv, Follows
    <3>2. PICK v : v = wire \o <<"header">>
      OBVIOUS
    <3>3. Chain(v) /\ Final(v) = "header"
      BY <1>0, <3>1, <3>2, ChainGrows DEF Tokens
    <3>4. wire' = v
      BY <2>1, <2>2, <3>2
    <3> QED BY <2>1, <3>3, <3>4 DEF WireInv
  <2>3. CASE ~ link \/ Abandoned \/ Unstarted
    BY <2>1, <2>3 DEF WireInv, Abandoned, Unstarted
  <2> QED BY <2>2, <2>3
<1>4. CASE BeginBody
  BY <1>4, WireFinish DEF BeginBody
<1>5. CASE Write
  BY <1>5, WireFinish DEF Write
<1>6. CASE EndRequest
  BY <1>6, WireFinish DEF EndRequest
<1>7. CASE Stop
  BY <1>0, <1>7 DEF Stop, WireInv
<1>8. CASE StatusBegins
  <2>1. app = "sent" /\ wire' = LastToken(wire) /\ UNCHANGED <<link, app, slips>>
    BY <1>8 DEF StatusBegins, Mine
  <2>2. PICK v : v = LastToken(wire)
    OBVIOUS
  <2>3. Chain(v) /\ (v # <<>> => wire # <<>> /\ Final(v) = Final(wire))
    BY <1>0, <2>2, LastTokenChains
  <2> QED BY <2>1, <2>2, <2>3 DEF WireInv, Abandoned, Unstarted
<1>9. CASE /\ UNCHANGED <<wire, link>> /\ (Abandoned' <=> Abandoned)
           /\ app' = app /\ (Unstarted' <=> Unstarted)
  BY <1>9 DEF WireInv
<1>10. CASE \/ StatusByte \/ StatusTimesOut
            \/ (\E op \in {"headers", "line"} : HeadersBegin(op))
            \/ HeaderByte \/ HeadersTimeOut \/ BodyBegins \/ BodyByte \/ BodyReturns
  <2>1. wire' = wire /\ Mine
    BY <1>10 DEF StatusByte, StatusTimesOut, HeadersBegin, HeaderByte, HeadersTimeOut,
                BodyBegins, BodyByte, BodyReturns
  <2> QED BY <1>9, <2>1 DEF Mine, Abandoned, Unstarted
<1>11. CASE HeaderNothing
  BY <1>9, <1>11 DEF HeaderNothing, connVars, Abandoned, Unstarted
<1>12. CASE Done
  BY <1>12 DEF Done, connVars, WireInv, Abandoned, Unstarted
<1>13. CASE ServerCloses
  BY <1>13 DEF ServerCloses, WireInv, Abandoned, Unstarted
<1>14. CASE UNCHANGED httpVars
  BY <1>9, <1>14 DEF httpVars, connVars, Abandoned, Unstarted
<1> QED BY <1>1, <1>2, <1>3, <1>4, <1>5, <1>6, <1>7, <1>8, <1>10, <1>11, <1>12, <1>13, <1>14
        DEF HttpNext

LEMMA RequestInvariant ==
  HttpSpec => [](HttpTypes /\ CallInv /\ WireInv)
<1> DEFINE Inv == HttpTypes /\ CallInv /\ WireInv
<1>1. HttpInit => Inv
  BY HttpTypeInit, CallInit DEF HttpInit, WireInv, Chain
<1>2. Inv /\ [HttpNext]_httpVars => Inv'
  BY HttpTypeStep, CallStep, WireStep
<1> QED BY <1>1, <1>2, PTL DEF HttpSpec

\* On each connection requests follow one another whole, for any number of requests and
\* whatever failed before, unless the application gave up a begun request or went on with
\* one that was not started.
THEOREM RequestsAreWhole ==
  HttpSpec => []RequestsWellFormed
BY RequestInvariant, ChainIsWellFormed, PTL

-----------------------------------------------------------------------------
(* The status line, on a connection of its own.                            *)

CodeOf(r) == IF r.interim THEN "100" ELSE r.code
BehindStatus(r) ==
  IF r.interim THEN CRLF \o Line(<<"HTTP", r.code>>, HeaderLines(r)) ELSE HeaderLines(r)

\* How far the status line has been read; the last is a response that cannot be read.
AtStatus(h, w, r) ==
  \/ h.iState = eRequestSent /\ h.iStatusCode = 0 /\ w = Response(r)
  \/ /\ h.iState = eReadingStatusCode /\ h.iStatusCode = 0
     /\ w = <<CodeOf(r)>> \o (CRLF \o BehindStatus(r))
  \/ /\ h.iState = eReadingStatusCode /\ h.iStatusCode = Number[CodeOf(r)]
     /\ w = CRLF \o BehindStatus(r)
  \/ /\ h.iState = eStatusCodeRead /\ h.iStatusCode = Number[CodeOf(r)]
     /\ w = <<"LF">> \o BehindStatus(r)
  \/ h.iState = eRequestSent /\ w # <<>> /\ Head(w) # "HTTP"

LEMMA StatusLine ==
  ASSUME NEW r \in Responses
  PROVE  /\ CodeOf(r) \in DOMAIN Number
         /\ Number[CodeOf(r)] \in Nat
         /\ BehindStatus(r) \in Seq(Symbols) /\ BehindStatus(r) # <<>>
         /\ Head(BehindStatus(r)) # "HTTP"
         /\ Response(r) # <<>> /\ Head(Response(r)) = "HTTP"
         /\ Tail(Response(r)) = <<CodeOf(r)>> \o (CRLF \o BehindStatus(r))
         /\ <<CodeOf(r)>> \o (CRLF \o BehindStatus(r)) # <<>>
         /\ Head(<<CodeOf(r)>> \o (CRLF \o BehindStatus(r))) = CodeOf(r)
         /\ Tail(<<CodeOf(r)>> \o (CRLF \o BehindStatus(r))) = CRLF \o BehindStatus(r)
<1>1. CodeOf(r) \in DOMAIN Number /\ r.code \in DOMAIN Number
  BY ResponseFields, Digits DEF CodeOf
<1>2. Number[CodeOf(r)] \in Nat
  BY <1>1, DigitIsNat DEF IsDigit
<1>3. /\ LengthLine(r) \in Seq(Symbols) /\ HeaderLines(r) \in Seq(Symbols)
      /\ Line(<<"HTTP", r.code>>, HeaderLines(r)) \in Seq(Symbols)
  BY <1>1, LinesOfAResponse, Letters, Lines, Behind DEF Line
<1>4. HeaderLines(r) # <<>> /\ Head(HeaderLines(r)) = "c"
  BY <1>3, Letters, Lines, Behind DEF HeaderLines, ContentType, Line
<1>5. /\ BehindStatus(r) \in Seq(Symbols) /\ BehindStatus(r) # <<>>
      /\ Head(BehindStatus(r)) # "HTTP"
  <2>1. CASE r.interim
    BY <1>3, <2>1, Lines DEF BehindStatus
  <2>2. CASE ~ r.interim
    BY <1>3, <1>4, <2>2 DEF BehindStatus
  <2> QED BY <2>1, <2>2
<1>6. Response(r) = <<"HTTP", CodeOf(r)>> \o (CRLF \o BehindStatus(r))
  <2>1. CASE r.interim
    BY <2>1 DEF Response, CodeOf, BehindStatus, Line
  <2>2. CASE ~ r.interim
    BY <2>2 DEF Response, CodeOf, BehindStatus, Line
  <2> QED BY <2>1, <2>2
<1>7. PICK s : s = CRLF \o BehindStatus(r)
  OBVIOUS
<1>8. s \in Seq(Symbols)
  BY <1>5, <1>7, Lines
<1>9. PICK c : c = CodeOf(r)
  OBVIOUS
<1>10. c \in Symbols /\ "HTTP" \in Symbols
  BY <1>1, <1>9, Letters
<1>11. Response(r) = <<"HTTP", c>> \o s
  BY <1>6, <1>7, <1>9
<1>12. /\ <<"HTTP", c>> \o s # <<>> /\ Head(<<"HTTP", c>> \o s) = "HTTP"
       /\ Tail(<<"HTTP", c>> \o s) = <<c>> \o s
       /\ <<c>> \o s # <<>> /\ Head(<<c>> \o s) = c /\ Tail(<<c>> \o s) = s
  BY <1>8, <1>10, Behind
<1> QED BY <1>1, <1>2, <1>5, <1>7, <1>9, <1>11, <1>12

\* A byte of it: it is read on, cannot be read, or was the last of the line.
LEMMA StatusByteReads ==
  ASSUME http \in Fields, NEW r \in Responses, AtStatus(http, coming, r), StatusByte
  PROVE  /\ http'.iContentLength = http.iContentLength /\ http'.iState \in {2, 3, 4}
         /\ \/ UNCHANGED <<doing, ret>> /\ AtStatus(http', coming', r)
            \/ Return("status", HTTP_ERROR_INVALID_RESPONSE)
            \/ /\ Return("status", Number[r.code]) /\ http'.iState = eStatusCodeRead
               /\ coming' = HeaderLines(r)
<1>0. /\ coming # <<>> /\ coming' = Tail(coming) /\ BehindStatus(r) \in Seq(Symbols)
  BY StatusLine DEF StatusByte
<1>1. CASE http.iState = eRequestSent /\ http.iStatusCode = 0 /\ coming = Response(r)
  <2>1. Head(coming) = "HTTP" /\ Tail(coming) = <<CodeOf(r)>> \o (CRLF \o BehindStatus(r))
    BY <1>1, StatusLine
  <2>2. http' = [http EXCEPT !.iState = eReadingStatusCode] /\ UNCHANGED <<doing, ret>>
    BY <1>1, <2>1 DEF StatusByte
  <2>3. /\ http'.iState = eReadingStatusCode /\ http'.iStatusCode = 0
        /\ http'.iContentLength = http.iContentLength
    BY <1>1, <2>2, SetState
  <2> QED BY <1>0, <2>1, <2>2, <2>3 DEF AtStatus
<1>2. CASE /\ http.iState = eReadingStatusCode /\ http.iStatusCode = 0
           /\ coming = <<CodeOf(r)>> \o (CRLF \o BehindStatus(r))
  <2>1. Head(coming) = CodeOf(r) /\ Tail(coming) = CRLF \o BehindStatus(r)
    BY <1>2, StatusLine
  <2>2. IsDigit(CodeOf(r)) /\ CodeOf(r) # "LF" /\ Number[CodeOf(r)] \in Nat
    BY StatusLine, Digits DEF IsDigit
  <2>3. http' = [http EXCEPT !.iStatusCode = 10 * http.iStatusCode + Number[CodeOf(r)]]
        /\ UNCHANGED <<doing, ret>>
    BY <1>2, <2>1, <2>2 DEF StatusByte
  <2>4. http' = [http EXCEPT !.iStatusCode = Number[CodeOf(r)]]
    <3>1. 10 * http.iStatusCode + Number[CodeOf(r)] = Number[CodeOf(r)]
      BY <1>2, <2>2
    <3> QED BY <2>3, <3>1, Zenon
  <2>5. /\ http'.iState = eReadingStatusCode /\ http'.iStatusCode = Number[CodeOf(r)]
        /\ http'.iContentLength = http.iContentLength
    BY <1>2, <2>2, <2>4, SetCode
  <2> QED BY <1>0, <2>1, <2>3, <2>5 DEF AtStatus
<1>3. CASE /\ http.iState = eReadingStatusCode /\ http.iStatusCode = Number[CodeOf(r)]
           /\ coming = CRLF \o BehindStatus(r)
  <2>1. Head(coming) = "CR" /\ Tail(coming) = <<"LF">> \o BehindStatus(r)
    BY <1>0, <1>3, Lines
  <2>2. ~ IsDigit("CR")
    BY Digits DEF IsDigit
  <2>3. http' = [http EXCEPT !.iState = eStatusCodeRead] /\ UNCHANGED <<doing, ret>>
    BY <1>3, <2>1, <2>2 DEF StatusByte
  <2>4. /\ http'.iState = eStatusCodeRead /\ http'.iStatusCode = Number[CodeOf(r)]
        /\ http'.iContentLength = http.iContentLength
    BY <1>3, <2>3, SetState
  <2> QED BY <1>0, <2>1, <2>3, <2>4 DEF AtStatus
<1>4. CASE /\ http.iState = eStatusCodeRead /\ http.iStatusCode = Number[CodeOf(r)]
           /\ coming = <<"LF">> \o BehindStatus(r)
  <2>1. Head(coming) = "LF" /\ Tail(coming) = BehindStatus(r)
    BY <1>0, <1>4, Lines
  <2>2. CASE Informational(http)
    <3>1. /\ http' = [http EXCEPT !.iStatusCode = 0, !.iState = eRequestSent]
          /\ UNCHANGED <<doing, ret>>
      BY <1>4, <2>1, <2>2 DEF StatusByte
    <3>2. PICK g : g = [http EXCEPT !.iStatusCode = 0]
      OBVIOUS
    <3>3. g \in Fields /\ g.iContentLength = http.iContentLength
      BY <3>2, SetCode
    <3>4. http' = [g EXCEPT !.iState = eRequestSent]
      BY <3>1, <3>2
    <3>5. http'.iState = eRequestSent /\ http'.iContentLength = http.iContentLength
      BY <3>3, <3>4, SetState
    <3> QED BY <1>0, <2>1, <3>1, <3>5, StatusLine DEF AtStatus
  <2>3. CASE ~ Informational(http)
    <3>1. http' = http /\ Return("status", Number[CodeOf(r)])
      BY <1>4, <2>1, <2>3 DEF StatusByte
    <3>2. ~ r.interim
      BY <1>4, <2>3, Digits DEF CodeOf, Informational
    <3>3. CodeOf(r) = r.code /\ BehindStatus(r) = HeaderLines(r)
      BY <3>2 DEF CodeOf, BehindStatus
    <3> QED BY <1>0, <1>4, <2>1, <3>1, <3>3
  <2> QED BY <2>2, <2>3
<1>5. CASE http.iState = eRequestSent /\ Head(coming) # "HTTP"
  <2>1. http' = http /\ Return("status", HTTP_ERROR_INVALID_RESPONSE)
    BY <1>5 DEF StatusByte
  <2> QED BY <1>5, <2>1
<1> QED BY <1>1, <1>2, <1>3, <1>4, <1>5 DEF AtStatus

-----------------------------------------------------------------------------
(* The header lines.  k says that the request was a simple one on a client *)
(* that was reset.                                                         *)

LineStarts(h) ==
  /\ h.iState = eStatusCodeRead
  /\ h.iContentLengthPtr = 0 /\ h.iTransferEncodingChunkedPtr = 0
Lengths(h, r, k) ==
  /\ k => h.iContentLength = LengthOf(r)
  /\ r.length # "none" => h.iContentLength = LengthOf(r) /\ h.iBodyLengthConsumed = 0

\* How far they have been read: in the first, which is skipped, in the length, in the
\* coding, at their end.
AtType(h, w, r, k) ==
  /\ k => h.iContentLength = -1
  /\ \/ /\ h.iState \in {eStatusCodeRead, eSkipToEndOfHeader}
        /\ \/ w = HeaderLines(r)
           \/ w = <<"t", "x">> \o (CRLF \o LengthLine(r))
           \/ w = <<"x">> \o (CRLF \o LengthLine(r))
     \/ /\ h.iState = eSkipToEndOfHeader
        /\ w = CRLF \o LengthLine(r) \/ w = <<"LF">> \o LengthLine(r)
AtLength(h, w, r, k) ==
  /\ r.length # "none"
  /\ \/ LineStarts(h) /\ w = LengthLine(r)
     \/ /\ h.iState = eStatusCodeRead
        /\ h.iContentLengthPtr = 1 /\ h.iTransferEncodingChunkedPtr = 0
        /\ w = <<"l">> \o Line(<<r.length>>, CodingLine(r))
     \/ /\ h.iState = eReadingContentLength
        /\ h.iContentLength = 0 /\ h.iBodyLengthConsumed = 0
        /\ w = Line(<<r.length>>, CodingLine(r))
     \/ /\ Lengths(h, r, k) /\ h.iState = eReadingContentLength
        /\ w = CRLF \o CodingLine(r)
     \/ /\ Lengths(h, r, k) /\ h.iState = eSkipToEndOfHeader
        /\ w = <<"LF">> \o CodingLine(r)
AtCoding(h, w, r, k) ==
  /\ r.chunked /\ Lengths(h, r, k)
  /\ \/ LineStarts(h) /\ w = CodingLine(r)
     \/ /\ h.iState = eStatusCodeRead
        /\ h.iContentLengthPtr = 0 /\ h.iTransferEncodingChunkedPtr = 1
        /\ w = <<"e">> \o (CRLF \o EmptyLine(r))
     \/ /\ h.iState = eSkipToEndOfHeader /\ h.iIsChunked
        /\ w = CRLF \o EmptyLine(r) \/ w = <<"LF">> \o EmptyLine(r)
AtEnd(h, w, r, k) ==
  /\ Lengths(h, r, k) /\ (r.chunked => h.iIsChunked)
  /\ \/ LineStarts(h) /\ w = EmptyLine(r)
     \/ h.iState = eLineStartingCRFound /\ w = <<"LF">> \o Transfer(r)
AtHeaders(h, w, r, k) ==
  AtType(h, w, r, k) \/ AtLength(h, w, r, k) \/ AtCoding(h, w, r, k) \/ AtEnd(h, w, r, k)

\* A symbol of the first header.
LEMMA TypeReads ==
  ASSUME NEW h \in Fields, NEW c \in {"c", "t", "x"},
         h.iState \in {eStatusCodeRead, eSkipToEndOfHeader}
  PROVE  /\ ReadHeader(h, c).iState \in {eStatusCodeRead, eSkipToEndOfHeader}
         /\ c = "x" => ReadHeader(h, c).iState = eSkipToEndOfHeader
         /\ ReadHeader(h, c).iContentLength = h.iContentLength
<1>1. CASE h.iState = eSkipToEndOfHeader
  BY <1>1, LineGoesOn
<1>2. CASE h.iState = eStatusCodeRead
  <2>1. ReadHeader(h, c) = HeaderBegins(h, c)
    BY <1>2, LineBegins
  <2>2. ASSUME Matches(kContentLengthPrefix, h.iContentLengthPtr, c)
        PROVE  c = "c" /\ HeaderBegins(h, c) = [h EXCEPT !.iContentLengthPtr = 1]
    <3>1. h.iContentLengthPtr \in {0, 1}
      BY <2>2 DEF Matches, Fields
    <3>2. h.iContentLengthPtr = 0 /\ c = "c"
      BY <2>2, <3>1 DEF Matches, kContentLengthPrefix
    <3> QED BY <2>2, <3>2 DEF HeaderBegins
  <2>3. ASSUME ~ Matches(kContentLengthPrefix, h.iContentLengthPtr, c),
               Matches(kTransferEncodingChunked, h.iTransferEncodingChunkedPtr, c)
        PROVE  c = "t" /\ HeaderBegins(h, c) = [h EXCEPT !.iTransferEncodingChunkedPtr = 1]
    <3>1. h.iTransferEncodingChunkedPtr \in {0, 1}
      BY <2>3 DEF Matches, Fields
    <3>2. h.iTransferEncodingChunkedPtr = 0 /\ c = "t"
      BY <2>3, <3>1 DEF Matches, kTransferEncodingChunked
    <3> QED BY <2>3, <3>2 DEF HeaderBegins
  <2>4. ASSUME ~ Matches(kContentLengthPrefix, h.iContentLengthPtr, c),
               ~ Matches(kTransferEncodingChunked, h.iTransferEncodingChunkedPtr, c)
        PROVE  HeaderBegins(h, c) = [h EXCEPT !.iState = eSkipToEndOfHeader]
    BY <2>4 DEF HeaderBegins
  <2>5. \A g : g = [h EXCEPT !.iContentLengthPtr = 1]
               \/ g = [h EXCEPT !.iTransferEncodingChunkedPtr = 1] =>
          g.iState = h.iState /\ g.iContentLength = h.iContentLength
    BY SetLengthPtr, SetCodingPtr
  <2>6. \A g : g = [h EXCEPT !.iState = eSkipToEndOfHeader] =>
          g.iState = eSkipToEndOfHeader /\ g.iContentLength = h.iContentLength
    BY SetState
  <2> QED BY <1>2, <2>1, <2>2, <2>3, <2>4, <2>5, <2>6
<1> QED BY <1>1, <1>2

\* The prefixes, and the CR of the empty line.
LEMMA PrefixReads ==
  ASSUME NEW h \in Fields, h.iState = eStatusCodeRead
  PROVE  /\ LineStarts(h) =>
              LET g == ReadHeader(h, "c")
              IN /\ g.iState = eStatusCodeRead
                 /\ g.iContentLengthPtr = 1 /\ g.iTransferEncodingChunkedPtr = 0
         /\ LineStarts(h) =>
              LET g == ReadHeader(h, "t")
              IN /\ g.iState = eStatusCodeRead
                 /\ g.iContentLengthPtr = 0 /\ g.iTransferEncodingChunkedPtr = 1
                 /\ g.iContentLength = h.iContentLength
                 /\ g.iBodyLengthConsumed = h.iBodyLengthConsumed
         /\ LineStarts(h) =>
              LET g == ReadHeader(h, "CR")
              IN /\ g.iState = eLineStartingCRFound /\ g.iIsChunked = h.iIsChunked
                 /\ g.iContentLength = h.iContentLength
                 /\ g.iBodyLengthConsumed = h.iBodyLengthConsumed
         /\ h.iContentLengthPtr = 1 =>
              LET g == ReadHeader(h, "l")
              IN /\ g.iState = eReadingContentLength
                 /\ g.iContentLength = 0 /\ g.iBodyLengthConsumed = 0
         /\ h.iContentLengthPtr = 0 /\ h.iTransferEncodingChunkedPtr = 1 =>
              LET g == ReadHeader(h, "e")
              IN /\ g.iState = eSkipToEndOfHeader /\ g.iIsChunked
                 /\ g.iContentLength = h.iContentLength
                 /\ g.iBodyLengthConsumed = h.iBodyLengthConsumed
<1>1. \A c : c # "LF" => ReadHeader(h, c) = HeaderBegins(h, c)
  BY LineBegins
<1>2. /\ \A c : Matches(kContentLengthPrefix, 0, c) <=> c = "c"
      /\ \A c : Matches(kContentLengthPrefix, 1, c) <=> c = "l"
      /\ \A c : Matches(kTransferEncodingChunked, 0, c) <=> c = "t"
      /\ \A c : Matches(kTransferEncodingChunked, 1, c) <=> c = "e"
  BY DEF Matches, kContentLengthPrefix, kTransferEncodingChunked
<1>3. ASSUME LineStarts(h)
      PROVE  LET g == ReadHeader(h, "c")
             IN /\ g.iState = eStatusCodeRead
                /\ g.iContentLengthPtr = 1 /\ g.iTransferEncodingChunkedPtr = 0
  <2>1. ReadHeader(h, "c") = [h EXCEPT !.iContentLengthPtr = 1]
    BY <1>1, <1>2, <1>3 DEF HeaderBegins, LineStarts
  <2> QED BY <1>3, <2>1, SetLengthPtr DEF LineStarts
<1>4. ASSUME LineStarts(h)
      PROVE  LET g == ReadHeader(h, "t")
             IN /\ g.iState = eStatusCodeRead
                /\ g.iContentLengthPtr = 0 /\ g.iTransferEncodingChunkedPtr = 1
                /\ g.iContentLength = h.iContentLength
                /\ g.iBodyLengthConsumed = h.iBodyLengthConsumed
  <2>1. ReadHeader(h, "t") = [h EXCEPT !.iTransferEncodingChunkedPtr = 1]
    BY <1>1, <1>2, <1>4 DEF HeaderBegins, LineStarts
  <2> QED BY <1>4, <2>1, SetCodingPtr DEF LineStarts
<1>5. ASSUME LineStarts(h)
      PROVE  LET g == ReadHeader(h, "CR")
             IN /\ g.iState = eLineStartingCRFound /\ g.iIsChunked = h.iIsChunked
                /\ g.iContentLength = h.iContentLength
                /\ g.iBodyLengthConsumed = h.iBodyLengthConsumed
  <2>1. ReadHeader(h, "CR") = [h EXCEPT !.iState = eLineStartingCRFound]
    BY <1>1, <1>2, <1>5 DEF HeaderBegins, LineStarts
  <2> QED BY <2>1, SetState
<1>6. ASSUME h.iContentLengthPtr = 1
      PROVE  LET g == ReadHeader(h, "l")
             IN /\ g.iState = eReadingContentLength
                /\ g.iContentLength = 0 /\ g.iBodyLengthConsumed = 0
  <2>1. ReadHeader(h, "l") = [h EXCEPT !.iContentLengthPtr = 2,
                                       !.iState = eReadingContentLength,
                                       !.iContentLength = 0, !.iBodyLengthConsumed = 0]
    BY <1>1, <1>2, <1>6 DEF HeaderBegins
  <2>2. PICK g1 : g1 = [h EXCEPT !.iContentLengthPtr = 2]
    OBVIOUS
  <2>3. PICK g2 : g2 = [g1 EXCEPT !.iState = eReadingContentLength]
    OBVIOUS
  <2>4. PICK g3 : g3 = [g2 EXCEPT !.iContentLength = 0]
    OBVIOUS
  <2>5. g1 \in Fields
    BY <2>2, SetLengthPtr
  <2>6. g2 \in Fields /\ g2.iState = eReadingContentLength
    BY <2>3, <2>5, SetState
  <2>7. g3 \in Fields /\ g3.iState = eReadingContentLength /\ g3.iContentLength = 0
    BY <2>4, <2>6, SetLength
  <2>8. PICK g : g = [g3 EXCEPT !.iBodyLengthConsumed = 0]
    OBVIOUS
  <2>9. ReadHeader(h, "l") = g
    BY <2>1, <2>2, <2>3, <2>4, <2>8
  <2>10. /\ g.iState = eReadingContentLength
         /\ g.iContentLength = 0 /\ g.iBodyLengthConsumed = 0
    BY <2>7, <2>8, SetConsumed
  <2> QED BY <2>9, <2>10
<1>7. ASSUME h.iContentLengthPtr = 0, h.iTransferEncodingChunkedPtr = 1
      PROVE  LET g == ReadHeader(h, "e")
             IN /\ g.iState = eSkipToEndOfHeader /\ g.iIsChunked
                /\ g.iContentLength = h.iContentLength
                /\ g.iBodyLengthConsumed = h.iBodyLengthConsumed
  <2>1. ReadHeader(h, "e") = [h EXCEPT !.iTransferEncodingChunkedPtr = 2,
                                       !.iIsChunked = TRUE, !.iState = eSkipToEndOfHeader]
    BY <1>1, <1>2, <1>7 DEF HeaderBegins
  <2>2. PICK g1 : g1 = [h EXCEPT !.iTransferEncodingChunkedPtr = 2]
    OBVIOUS
  <2>3. PICK g2 : g2 = [g1 EXCEPT !.iIsChunked = TRUE]
    OBVIOUS
  <2>4. /\ g1 \in Fields /\ g1.iContentLength = h.iContentLength
        /\ g1.iBodyLengthConsumed = h.iBodyLengthConsumed
    BY <2>2, SetCodingPtr
  <2>5. /\ g2 \in Fields /\ g2.iIsChunked /\ g2.iContentLength = h.iContentLength
        /\ g2.iBodyLengthConsumed = h.iBodyLengthConsumed
    BY <2>3, <2>4 DEF Fields
  <2>6. ReadHeader(h, "e") = [g2 EXCEPT !.iState = eSkipToEndOfHeader]
    BY <2>1, <2>2, <2>3
  <2> QED BY <2>5, <2>6, SetState
<1> QED BY <1>3, <1>4, <1>5, <1>6, <1>7

\* The texts the positions speak of, symbol by symbol.
LEMMA HeaderTexts ==
  ASSUME NEW r \in Responses
  PROVE  /\ HeaderLines(r) = <<"c", "t", "x">> \o (CRLF \o LengthLine(r))
         /\ \A s \in Seq(Symbols), x \in Symbols :
              Head(<<x>> \o s) = x /\ Tail(<<x>> \o s) = s
         /\ \A s \in Seq(Symbols), x, y \in Symbols :
              Head(<<x, y>> \o s) = x /\ Tail(<<x, y>> \o s) = <<y>> \o s
         /\ \A s \in Seq(Symbols), x, y, z \in Symbols :
              Head(<<x, y, z>> \o s) = x /\ Tail(<<x, y, z>> \o s) = <<y, z>> \o s
         /\ \A s \in Seq(Symbols) :
              /\ CRLF \o s \in Seq(Symbols)
              /\ Head(CRLF \o s) = "CR" /\ Tail(CRLF \o s) = <<"LF">> \o s
              /\ Head(<<"LF">> \o s) = "LF" /\ Tail(<<"LF">> \o s) = s
         /\ r.length # "none" =>
              /\ r.length \in Symbols /\ r.length \in DOMAIN Number
              /\ Line(<<r.length>>, CodingLine(r)) \in Seq(Symbols)
              /\ LengthLine(r) = <<"c", "l">> \o Line(<<r.length>>, CodingLine(r))
         /\ r.length = "none" => LengthLine(r) = CodingLine(r)
         /\ r.chunked => CodingLine(r) = <<"t", "e">> \o (CRLF \o EmptyLine(r))
         /\ ~ r.chunked => CodingLine(r) = EmptyLine(r)
         /\ EmptyLine(r) = CRLF \o Transfer(r)
<1>1. HeaderLines(r) = <<"c", "t", "x">> \o (CRLF \o LengthLine(r))
  BY DEF HeaderLines, Line, ContentType
<1>2. /\ \A s \in Seq(Symbols), x \in Symbols :
           Head(<<x>> \o s) = x /\ Tail(<<x>> \o s) = s
      /\ \A s \in Seq(Symbols), x, y \in Symbols :
           Head(<<x, y>> \o s) = x /\ Tail(<<x, y>> \o s) = <<y>> \o s
      /\ \A s \in Seq(Symbols), x, y, z \in Symbols :
           Head(<<x, y, z>> \o s) = x /\ Tail(<<x, y, z>> \o s) = <<y, z>> \o s
  BY Behind
<1>3. \A s \in Seq(Symbols) :
        /\ CRLF \o s \in Seq(Symbols)
        /\ Head(CRLF \o s) = "CR" /\ Tail(CRLF \o s) = <<"LF">> \o s
        /\ Head(<<"LF">> \o s) = "LF" /\ Tail(<<"LF">> \o s) = s
  BY Lines
<1>4. CodingLine(r) \in Seq(Symbols)
  BY LinesOfAResponse
<1>5. ASSUME r.length # "none"
      PROVE  /\ r.length \in Symbols /\ r.length \in DOMAIN Number
             /\ Line(<<r.length>>, CodingLine(r)) \in Seq(Symbols)
             /\ LengthLine(r) = <<"c", "l">> \o Line(<<r.length>>, CodingLine(r))
  <2>1. r.length \in DOMAIN Number
    BY <1>5, ResponseFields
  <2>2. r.length \in Symbols
    BY <2>1, Letters
  <2>3. Line(<<r.length>>, CodingLine(r)) \in Seq(Symbols)
    BY <1>4, <2>2, Lines, Behind DEF Line
  <2> QED BY <1>5, <2>1, <2>2, <2>3 DEF LengthLine, kContentLengthPrefix
<1>6. r.length = "none" => LengthLine(r) = CodingLine(r)
  BY DEF LengthLine
<1>7. /\ r.chunked => CodingLine(r) = <<"t", "e">> \o (CRLF \o EmptyLine(r))
      /\ ~ r.chunked => CodingLine(r) = EmptyLine(r)
  BY DEF CodingLine, Line, kTransferEncodingChunked
<1>8. EmptyLine(r) = CRLF \o Transfer(r)
  BY DEF EmptyLine
<1> QED BY <1>1, <1>2, <1>3, <1>5, <1>6, <1>7, <1>8

\* Behind the empty line.
AtBody(h, w, r, k) ==
  /\ h.iState \in {eReadingBody, eReadingChunkLength} /\ Lengths(h, r, k)
  /\ w = Transfer(r)
  /\ r.chunked => h.iState = eReadingChunkLength /\ h.iChunkLength = 0
HeadersGoOn(h, w, r, k) ==
  (~ EndOfHeadersReached(h) /\ AtHeaders(h, w, r, k)) \/ AtBody(h, w, r, k)

\* At the end of a line the next begins.
LEMMA NextLine ==
  ASSUME NEW h \in Fields, h.iState = eSkipToEndOfHeader
  PROVE  LET g == ReadHeader(h, "LF")
         IN /\ LineStarts(g) /\ ~ EndOfHeadersReached(g)
            /\ g.iContentLength = h.iContentLength /\ g.iIsChunked = h.iIsChunked
            /\ g.iBodyLengthConsumed = h.iBodyLengthConsumed
<1>1. InLine(h, "LF") = h
  BY DEF InLine
<1>2. ~ EndOfHeadersReached(h)
  BY DEF EndOfHeadersReached
<1>3. ReadHeader(h, "LF") = Ended(h)
  BY <1>1, <1>2 DEF ReadHeader, Ended
<1> QED BY <1>3, EndedFields DEF EndOfHeadersReached, LineStarts

LEMMA CodingStarts ==
  ASSUME NEW g, NEW r \in Responses, NEW k, LineStarts(g), Lengths(g, r, k)
  PROVE  HeadersGoOn(g, CodingLine(r), r, k)
<1>1. ~ EndOfHeadersReached(g)
  BY DEF LineStarts, EndOfHeadersReached
<1>2. CASE r.chunked
  BY <1>1, <1>2 DEF HeadersGoOn, AtHeaders, AtCoding
<1>3. CASE ~ r.chunked
  BY <1>1, <1>3, HeaderTexts DEF HeadersGoOn, AtHeaders, AtEnd
<1> QED BY <1>2, <1>3

LEMMA TypeGoesOn ==
  ASSUME NEW h \in Fields, NEW r \in Responses, NEW k \in BOOLEAN, NEW w, AtType(h, w, r, k)
  PROVE  HeadersGoOn(ReadHeader(h, Head(w)), Tail(w), r, k)
<1> DEFINE s == CRLF \o LengthLine(r)
<1>0. LengthLine(r) \in Seq(Symbols)
  BY LinesOfAResponse
<1>1. /\ s \in Seq(Symbols)
      /\ HeaderLines(r) = <<"c", "t", "x">> \o s
      /\ Head(s) = "CR" /\ Tail(s) = <<"LF">> \o LengthLine(r)
  BY <1>0, HeaderTexts
<1> HIDE DEF s
<1>2. /\ Head(<<"c", "t", "x">> \o s) = "c" /\ Tail(<<"c", "t", "x">> \o s) = <<"t", "x">> \o s
      /\ Head(<<"t", "x">> \o s) = "t" /\ Tail(<<"t", "x">> \o s) = <<"x">> \o s
      /\ Head(<<"x">> \o s) = "x" /\ Tail(<<"x">> \o s) = s
  <2>1. "c" \in Symbols /\ "t" \in Symbols /\ "x" \in Symbols
    BY Letters
  <2>2. /\ Head(<<"c", "t", "x">> \o s) = "c"
        /\ Tail(<<"c", "t", "x">> \o s) = <<"t", "x">> \o s
    BY <1>1, <2>1, Behind
  <2>3. Head(<<"t", "x">> \o s) = "t" /\ Tail(<<"t", "x">> \o s) = <<"x">> \o s
    BY <1>1, <2>1, BehindTwo
  <2>4. Head(<<"x">> \o s) = "x" /\ Tail(<<"x">> \o s) = s
    BY <1>1, <2>1, BehindOne
  <2> QED BY <2>2, <2>3, <2>4
<1>3. CASE h.iState \in {eStatusCodeRead, eSkipToEndOfHeader} /\ w = HeaderLines(r)
  <2>1. Head(w) = "c" /\ Tail(w) = <<"t", "x">> \o s
    BY <1>1, <1>2, <1>3
  <2>2. PICK g : g = ReadHeader(h, "c")
    OBVIOUS
  <2>3. /\ g.iState \in {eStatusCodeRead, eSkipToEndOfHeader}
        /\ g.iContentLength = h.iContentLength
    BY <1>3, <2>2, TypeReads
  <2>4. ~ EndOfHeadersReached(g) /\ AtType(g, <<"t", "x">> \o s, r, k)
    BY <2>3 DEF AtType, EndOfHeadersReached, s
  <2> QED BY <2>1, <2>2, <2>4 DEF HeadersGoOn, AtHeaders
<1>4. CASE h.iState \in {eStatusCodeRead, eSkipToEndOfHeader} /\ w = <<"t", "x">> \o s
  <2>1. Head(w) = "t" /\ Tail(w) = <<"x">> \o s
    BY <1>2, <1>4
  <2>2. PICK g : g = ReadHeader(h, "t")
    OBVIOUS
  <2>3. /\ g.iState \in {eStatusCodeRead, eSkipToEndOfHeader}
        /\ g.iContentLength = h.iContentLength
    BY <1>4, <2>2, TypeReads
  <2>4. ~ EndOfHeadersReached(g) /\ AtType(g, <<"x">> \o s, r, k)
    BY <2>3 DEF AtType, EndOfHeadersReached, s
  <2> QED BY <2>1, <2>2, <2>4 DEF HeadersGoOn, AtHeaders
<1>5. CASE h.iState \in {eStatusCodeRead, eSkipToEndOfHeader} /\ w = <<"x">> \o s
  <2>1. Head(w) = "x" /\ Tail(w) = s
    BY <1>2, <1>5
  <2>2. PICK g : g = ReadHeader(h, "x")
    OBVIOUS
  <2>3. g.iState = eSkipToEndOfHeader /\ g.iContentLength = h.iContentLength
    BY <1>5, <2>2, TypeReads
  <2>4. ~ EndOfHeadersReached(g) /\ AtType(g, s, r, k)
    BY <2>3 DEF AtType, EndOfHeadersReached, s
  <2> QED BY <2>1, <2>2, <2>4 DEF HeadersGoOn, AtHeaders
<1>6. CASE h.iState = eSkipToEndOfHeader /\ w = s
  <2>1. ReadHeader(h, "CR") = h
    BY <1>6, LineGoesOn
  <2>2. ~ EndOfHeadersReached(h) /\ AtType(h, <<"LF">> \o LengthLine(r), r, k)
    BY <1>6 DEF AtType, EndOfHeadersReached
  <2> QED BY <1>1, <1>6, <2>1, <2>2 DEF HeadersGoOn, AtHeaders
<1>7. CASE h.iState = eSkipToEndOfHeader /\ w = <<"LF">> \o LengthLine(r)
  <2>1. Head(w) = "LF" /\ Tail(w) = LengthLine(r)
    BY <1>0, <1>7, HeaderTexts
  <2>2. PICK g : g = ReadHeader(h, "LF")
    OBVIOUS
  <2>3. /\ LineStarts(g) /\ ~ EndOfHeadersReached(g)
        /\ k => g.iContentLength = -1
    BY <1>7, <2>2, NextLine DEF AtType
  <2>4. CASE r.length # "none"
    BY <2>1, <2>2, <2>3, <2>4 DEF HeadersGoOn, AtHeaders, AtLength
  <2>5. CASE r.length = "none"
    <3>1. Lengths(g, r, k) /\ LengthLine(r) = CodingLine(r)
      BY <2>3, <2>5, HeaderTexts DEF Lengths, LengthOf
    <3> QED BY <2>1, <2>2, <2>3, <3>1, CodingStarts
  <2> QED BY <2>4, <2>5
<1> QED BY <1>3, <1>4, <1>5, <1>6, <1>7 DEF AtType, s

LEMMA AnnouncementGoesOn ==
  ASSUME NEW h \in Fields, NEW r \in Responses, NEW k \in BOOLEAN, NEW w, AtLength(h, w, r, k)
  PROVE  HeadersGoOn(ReadHeader(h, Head(w)), Tail(w), r, k)
<1> DEFINE s == Line(<<r.length>>, CodingLine(r))
<1>0. CodingLine(r) \in Seq(Symbols) /\ r.length # "none"
  BY LinesOfAResponse DEF AtLength
<1>1. /\ s \in Seq(Symbols) /\ LengthLine(r) = <<"c", "l">> \o s
      /\ r.length \in Symbols /\ r.length \in DOMAIN Number
      /\ s = <<r.length>> \o (CRLF \o CodingLine(r))
  BY <1>0, HeaderTexts DEF Line
<1> HIDE DEF s
<1>2. CASE LineStarts(h) /\ w = LengthLine(r)
  <2>1. "c" \in Symbols /\ "l" \in Symbols
    BY Letters
  <2>2. Head(w) = "c" /\ Tail(w) = <<"l">> \o s
    <3>1. s \in Seq(Symbols)
      BY <1>1
    <3>2. Head(<<"c", "l">> \o s) = "c" /\ Tail(<<"c", "l">> \o s) = <<"l">> \o s
      BY <2>1, <3>1, BehindTwo
    <3> QED BY <1>1, <1>2, <3>2
  <2>3. PICK g : g = ReadHeader(h, "c")
    OBVIOUS
  <2>4. /\ g.iState = eStatusCodeRead
        /\ g.iContentLengthPtr = 1 /\ g.iTransferEncodingChunkedPtr = 0
    BY <1>2, <2>3, PrefixReads DEF LineStarts
  <2>5. ~ EndOfHeadersReached(g) /\ AtLength(g, <<"l">> \o s, r, k)
    BY <1>0, <2>4 DEF AtLength, EndOfHeadersReached, s
  <2> QED BY <2>2, <2>3, <2>5 DEF HeadersGoOn, AtHeaders
<1>3. CASE /\ h.iState = eStatusCodeRead
           /\ h.iContentLengthPtr = 1 /\ h.iTransferEncodingChunkedPtr = 0
           /\ w = <<"l">> \o s
  <2>1. "l" \in Symbols
    BY Letters
  <2>2. Head(w) = "l" /\ Tail(w) = s
    BY <1>1, <1>3, <2>1, BehindOne
  <2>3. PICK g : g = ReadHeader(h, "l")
    OBVIOUS
  <2>4. /\ g.iState = eReadingContentLength
        /\ g.iContentLength = 0 /\ g.iBodyLengthConsumed = 0
    BY <1>3, <2>3, PrefixReads
  <2>5. ~ EndOfHeadersReached(g) /\ AtLength(g, s, r, k)
    BY <1>0, <2>4 DEF AtLength, EndOfHeadersReached, s
  <2> QED BY <2>2, <2>3, <2>5 DEF HeadersGoOn, AtHeaders
<1>4. CASE /\ h.iState = eReadingContentLength
           /\ h.iContentLength = 0 /\ h.iBodyLengthConsumed = 0 /\ w = s
  <2>1. CRLF \o CodingLine(r) \in Seq(Symbols)
    BY <1>0, Lines
  <2>2. Head(w) = r.length /\ Tail(w) = CRLF \o CodingLine(r)
    BY <1>1, <1>4, <2>1, BehindOne
  <2>3. r.length # "LF" /\ IsDigit(r.length) /\ Number[r.length] \in Nat
    BY <1>1, Digits, DigitIsNat DEF IsDigit
  <2>4. ReadHeader(h, r.length)
          = [h EXCEPT !.iContentLength = 10 * h.iContentLength + Number[r.length]]
    BY <1>4, <2>3, LengthGoesOn
  <2>5. 10 * h.iContentLength + Number[r.length] = Number[r.length]
    BY <1>4, <2>3
  <2>6. PICK g : g = [h EXCEPT !.iContentLength = Number[r.length]]
    OBVIOUS
  <2>7. ReadHeader(h, r.length) = g
    BY <2>4, <2>5, <2>6, Zenon
  <2>8. /\ g.iState = eReadingContentLength /\ g.iBodyLengthConsumed = 0
        /\ g.iContentLength = Number[r.length]
    BY <1>4, <2>3, <2>6, SetLength
  <2>9. Lengths(g, r, k)
    BY <1>0, <2>8 DEF Lengths, LengthOf
  <2>10. ~ EndOfHeadersReached(g) /\ AtLength(g, CRLF \o CodingLine(r), r, k)
    BY <1>0, <2>8, <2>9 DEF AtLength, EndOfHeadersReached
  <2> QED BY <2>2, <2>7, <2>10 DEF HeadersGoOn, AtHeaders
<1>5. CASE /\ Lengths(h, r, k) /\ h.iState = eReadingContentLength
           /\ w = CRLF \o CodingLine(r)
  <2>1. Head(w) = "CR" /\ Tail(w) = <<"LF">> \o CodingLine(r)
    BY <1>0, <1>5, Lines
  <2>2. ~ IsDigit("CR")
    BY Digits DEF IsDigit
  <2>3. PICK g : g = [h EXCEPT !.iState = eSkipToEndOfHeader]
    OBVIOUS
  <2>4. ReadHeader(h, "CR") = g
    BY <1>5, <2>2, <2>3, LengthGoesOn
  <2>5. /\ g.iState = eSkipToEndOfHeader /\ g.iContentLength = h.iContentLength
        /\ g.iBodyLengthConsumed = h.iBodyLengthConsumed
    BY <2>3, SetState
  <2>6. Lengths(g, r, k)
    BY <1>5, <2>5 DEF Lengths
  <2>7. ~ EndOfHeadersReached(g) /\ AtLength(g, <<"LF">> \o CodingLine(r), r, k)
    BY <1>0, <2>5, <2>6 DEF AtLength, EndOfHeadersReached
  <2> QED BY <2>1, <2>4, <2>7 DEF HeadersGoOn, AtHeaders
<1>6. CASE /\ Lengths(h, r, k) /\ h.iState = eSkipToEndOfHeader
           /\ w = <<"LF">> \o CodingLine(r)
  <2>1. Head(w) = "LF" /\ Tail(w) = CodingLine(r)
    BY <1>0, <1>6, Lines
  <2>2. PICK g : g = ReadHeader(h, "LF")
    OBVIOUS
  <2>3. /\ LineStarts(g) /\ g.iContentLength = h.iContentLength
        /\ g.iBodyLengthConsumed = h.iBodyLengthConsumed
    BY <1>6, <2>2, NextLine
  <2>4. Lengths(g, r, k)
    BY <1>6, <2>3 DEF Lengths
  <2> QED BY <2>1, <2>2, <2>3, <2>4, CodingStarts
<1> QED BY <1>2, <1>3, <1>4, <1>5, <1>6 DEF AtLength, s

LEMMA CodingGoesOn ==
  ASSUME NEW h \in Fields, NEW r \in Responses, NEW k \in BOOLEAN, NEW w, AtCoding(h, w, r, k)
  PROVE  HeadersGoOn(ReadHeader(h, Head(w)), Tail(w), r, k)
<1> DEFINE s == CRLF \o EmptyLine(r)
<1>0. EmptyLine(r) \in Seq(Symbols) /\ r.chunked /\ Lengths(h, r, k)
  BY LinesOfAResponse DEF AtCoding
<1>1. s \in Seq(Symbols) /\ CodingLine(r) = <<"t", "e">> \o s
  BY <1>0, HeaderTexts
<1>2. Head(s) = "CR" /\ Tail(s) = <<"LF">> \o EmptyLine(r)
  BY <1>0, Lines
<1> HIDE DEF s
<1>3. CASE LineStarts(h) /\ w = CodingLine(r)
  <2>1. "t" \in Symbols /\ "e" \in Symbols
    BY Letters
  <2>2. Head(w) = "t" /\ Tail(w) = <<"e">> \o s
    BY <1>1, <1>3, <2>1, BehindTwo
  <2>3. PICK g : g = ReadHeader(h, "t")
    OBVIOUS
  <2>4. /\ g.iState = eStatusCodeRead
        /\ g.iContentLengthPtr = 0 /\ g.iTransferEncodingChunkedPtr = 1
        /\ g.iContentLength = h.iContentLength
        /\ g.iBodyLengthConsumed = h.iBodyLengthConsumed
    BY <1>3, <2>3, PrefixReads DEF LineStarts
  <2>5. Lengths(g, r, k)
    BY <1>0, <2>4 DEF Lengths
  <2>6. ~ EndOfHeadersReached(g) /\ AtCoding(g, <<"e">> \o s, r, k)
    BY <1>0, <2>4, <2>5 DEF AtCoding, EndOfHeadersReached, s
  <2> QED BY <2>2, <2>3, <2>6 DEF HeadersGoOn, AtHeaders
<1>4. CASE /\ h.iState = eStatusCodeRead
           /\ h.iContentLengthPtr = 0 /\ h.iTransferEncodingChunkedPtr = 1
           /\ w = <<"e">> \o s
  <2>1. "e" \in Symbols
    BY Letters
  <2>2. Head(w) = "e" /\ Tail(w) = s
    BY <1>1, <1>4, <2>1, BehindOne
  <2>3. PICK g : g = ReadHeader(h, "e")
    OBVIOUS
  <2>4. /\ g.iState = eSkipToEndOfHeader /\ g.iIsChunked
        /\ g.iContentLength = h.iContentLength
        /\ g.iBodyLengthConsumed = h.iBodyLengthConsumed
    BY <1>4, <2>3, PrefixReads
  <2>5. Lengths(g, r, k)
    BY <1>0, <2>4 DEF Lengths
  <2>6. ~ EndOfHeadersReached(g) /\ AtCoding(g, s, r, k)
    BY <1>0, <2>4, <2>5 DEF AtCoding, EndOfHeadersReached, s
  <2> QED BY <2>2, <2>3, <2>6 DEF HeadersGoOn, AtHeaders
<1>5. CASE h.iState = eSkipToEndOfHeader /\ h.iIsChunked /\ w = s
  <2>1. ReadHeader(h, "CR") = h
    BY <1>5, LineGoesOn
  <2>2. ~ EndOfHeadersReached(h) /\ AtCoding(h, <<"LF">> \o EmptyLine(r), r, k)
    BY <1>0, <1>5 DEF AtCoding, EndOfHeadersReached
  <2> QED BY <1>2, <1>5, <2>1, <2>2 DEF HeadersGoOn, AtHeaders
<1>6. CASE h.iState = eSkipToEndOfHeader /\ h.iIsChunked /\ w = <<"LF">> \o EmptyLine(r)
  <2>1. Head(w) = "LF" /\ Tail(w) = EmptyLine(r)
    BY <1>0, <1>6, Lines
  <2>2. PICK g : g = ReadHeader(h, "LF")
    OBVIOUS
  <2>3. /\ LineStarts(g) /\ ~ EndOfHeadersReached(g) /\ g.iIsChunked = h.iIsChunked
        /\ g.iContentLength = h.iContentLength
        /\ g.iBodyLengthConsumed = h.iBodyLengthConsumed
    BY <1>6, <2>2, NextLine
  <2>4. Lengths(g, r, k) /\ g.iIsChunked
    BY <1>0, <1>6, <2>3 DEF Lengths
  <2>5. AtEnd(g, EmptyLine(r), r, k)
    BY <2>3, <2>4 DEF AtEnd
  <2> QED BY <2>1, <2>2, <2>3, <2>5 DEF HeadersGoOn, AtHeaders
<1> QED BY <1>3, <1>4, <1>5, <1>6 DEF AtCoding, s

LEMMA EndGoesOn ==
  ASSUME NEW h \in Fields, NEW r \in Responses, NEW k \in BOOLEAN, NEW w, AtEnd(h, w, r, k)
  PROVE  HeadersGoOn(ReadHeader(h, Head(w)), Tail(w), r, k)
<1>0. /\ Transfer(r) \in Seq(Symbols) /\ EmptyLine(r) = CRLF \o Transfer(r)
      /\ Lengths(h, r, k) /\ (r.chunked => h.iIsChunked)
  BY LinesOfAResponse, HeaderTexts DEF AtEnd
<1>1. CASE LineStarts(h) /\ w = EmptyLine(r)
  <2>1. Head(w) = "CR" /\ Tail(w) = <<"LF">> \o Transfer(r)
    BY <1>0, <1>1, Lines
  <2>2. PICK g : g = ReadHeader(h, "CR")
    OBVIOUS
  <2>3. /\ g.iState = eLineStartingCRFound /\ g.iIsChunked = h.iIsChunked
        /\ g.iContentLength = h.iContentLength
        /\ g.iBodyLengthConsumed = h.iBodyLengthConsumed
    BY <1>1, <2>2, PrefixReads DEF LineStarts
  <2>4. Lengths(g, r, k) /\ (r.chunked => g.iIsChunked)
    BY <1>0, <2>3 DEF Lengths
  <2>5. ~ EndOfHeadersReached(g) /\ AtEnd(g, <<"LF">> \o Transfer(r), r, k)
    BY <2>3, <2>4 DEF AtEnd, EndOfHeadersReached
  <2> QED BY <2>1, <2>2, <2>5 DEF HeadersGoOn, AtHeaders
<1>2. CASE h.iState = eLineStartingCRFound /\ w = <<"LF">> \o Transfer(r)
  <2>1. Head(w) = "LF" /\ Tail(w) = Transfer(r)
    BY <1>0, <1>2, Lines
  <2>2. /\ h.iIsChunked => ReadHeader(h, "LF")
                             = [h EXCEPT !.iState = eReadingChunkLength, !.iChunkLength = 0]
        /\ ~ h.iIsChunked => ReadHeader(h, "LF") = [h EXCEPT !.iState = eReadingBody]
    <3>1. ~ EndOfHeadersReached(h)
      BY <1>2 DEF EndOfHeadersReached
    <3> QED BY <1>2, <3>1, LineEnds, Zenon
  <2>3. CASE h.iIsChunked
    <3>1. PICK g1 : g1 = [h EXCEPT !.iState = eReadingChunkLength]
      OBVIOUS
    <3>2. PICK g : g = [g1 EXCEPT !.iChunkLength = 0]
      OBVIOUS
    <3>3. ReadHeader(h, "LF") = g
      BY <2>2, <2>3, <3>1, <3>2, Zenon
    <3>4. /\ g1 \in Fields /\ g1.iState = eReadingChunkLength
          /\ g1.iContentLength = h.iContentLength
          /\ g1.iBodyLengthConsumed = h.iBodyLengthConsumed
      BY <3>1, SetState
    <3>5. /\ g.iState = eReadingChunkLength /\ g.iChunkLength = 0
          /\ g.iContentLength = h.iContentLength
          /\ g.iBodyLengthConsumed = h.iBodyLengthConsumed
      BY <3>2, <3>4, SetChunk
    <3>6. Lengths(g, r, k)
      BY <1>0, <3>5 DEF Lengths
    <3> QED BY <2>1, <3>3, <3>5, <3>6 DEF HeadersGoOn, AtBody
  <2>4. CASE ~ h.iIsChunked
    <3>1. PICK g : g = [h EXCEPT !.iState = eReadingBody]
      OBVIOUS
    <3>2. /\ g.iState = eReadingBody /\ g.iContentLength = h.iContentLength
          /\ g.iBodyLengthConsumed = h.iBodyLengthConsumed
      BY <3>1, SetState
    <3>3. Lengths(g, r, k) /\ ~ r.chunked
      BY <1>0, <2>4, <3>2 DEF Lengths
    <3> QED BY <2>1, <2>2, <2>4, <3>1, <3>2, <3>3 DEF HeadersGoOn, AtBody
  <2> QED BY <2>3, <2>4
<1> QED BY <1>1, <1>2 DEF AtEnd

\* A symbol of the headers leads on in them or to the body.
LEMMA HeaderReads ==
  ASSUME NEW h \in Fields, NEW r \in Responses, NEW k \in BOOLEAN, NEW w, AtHeaders(h, w, r, k)
  PROVE  HeadersGoOn(ReadHeader(h, Head(w)), Tail(w), r, k)
BY TypeGoesOn, AnnouncementGoesOn, CodingGoesOn, EndGoesOn DEF AtHeaders

-----------------------------------------------------------------------------
(* The body.                                                               *)

Chunk(r) == r.body \o (CRLF \o Line(<<"0">>, CRLF))

\* What is left of a body b behind its first k symbols comes first, if anything comes.
Ahead(k, w, b) ==
  w # <<>> => /\ Len(w) >= Len(b) - k
              /\ \A i \in 1 .. Len(b) - k : w[i] = b[k + i]
SizeLine(h, w, r) ==
  \/ w = <<>>
  \/ h.iChunkLength = 0 /\ w = Transfer(r)
  \/ h.iChunkLength = Len(r.body) /\ (w = CRLF \o Chunk(r) \/ w = <<"LF">> \o Chunk(r))

\* How far it has been read.  A body that is not chunked is read as chunks when the
\* last response was (beginRequest() leaves iIsChunked): then some of it is taken for
\* lengths, and the announced length is not reached.
Plain(h, w, r) ==
  /\ ~ r.chunked /\ h.iState = eReadingBody
  /\ Ahead(h.iBodyLengthConsumed, w, r.body)
InChunk(h, w, r) ==
  /\ r.chunked /\ h.iState = eReadingBodyChunk
  /\ h.iBodyLengthConsumed < Len(r.body)
  /\ h.iChunkLength = Len(r.body) - h.iBodyLengthConsumed
  /\ Ahead(h.iBodyLengthConsumed, w, r.body)
InSize(h, w, r) ==
  /\ r.chunked /\ h.iState = eReadingChunkLength
  /\ h.iBodyLengthConsumed = 0 /\ SizeLine(h, w, r)
BehindChunk(h, w, r) ==
  r.chunked /\ h.iState = eReadingChunkLength /\ h.iBodyLengthConsumed = Len(r.body)
Mistaken(h, w, r) ==
  /\ ~ r.chunked /\ h.iState \in {eReadingChunkLength, eReadingBodyChunk}
  /\ h.iBodyLengthConsumed + Len(w) <= Len(r.body)
  /\ h.iState = eReadingBodyChunk \/ h.iBodyLengthConsumed > 0
       => h.iBodyLengthConsumed + Len(w) < Len(r.body)
InBody(h, w, r) ==
  /\ h.iContentLength = Len(r.body) /\ h.iBodyLengthConsumed <= Len(r.body)
  /\ \/ Plain(h, w, r) \/ InChunk(h, w, r) \/ InSize(h, w, r) \/ BehindChunk(h, w, r)
     \/ Mistaken(h, w, r)

\* What a call has of it: as many symbols as have been counted, or fewer, and those.
Collected(h, r, length, text) ==
  /\ length = Len(r.body) /\ Len(text) <= h.iBodyLengthConsumed
  /\ h.iState = eReadingBody \/ r.chunked =>
       \A i \in 1 .. Len(text) : text[i] = r.body[h.iBodyLengthConsumed - Len(text) + i]

LEMMA ChunkStarts ==
  ASSUME NEW r \in Responses, r.chunked, Len(r.body) > 0
  PROVE  /\ Chunk(r) \in Seq(Symbols) /\ Len(Chunk(r)) >= Len(r.body)
         /\ \A i \in 1 .. Len(r.body) : Chunk(r)[i] = r.body[i]
         /\ \E size \in DOMAIN Number :
              Number[size] = Len(r.body) /\ Transfer(r) = <<size>> \o (CRLF \o Chunk(r))
<1>1. r.body \in Seq(Symbols) /\ Len(r.body) \in {1, 2} /\ r.body # <<>>
  <2>1. r.body \in Seq(Symbols) /\ Len(r.body) \in Nat /\ Len(r.body) <= 2
    BY ResponseFields, Zenon
  <2>2. r.body # <<>>
    BY Len(<<>>) = 0
  <2>3. Len(r.body) \in {1, 2}
    <3>1. PICK k : k = Len(r.body)
      OBVIOUS
    <3>2. k \in Nat /\ k <= 2 /\ k > 0
      BY <2>1, <3>1
    <3>3. k = 1 \/ k = 2
      BY ONLY <3>2
    <3> QED BY <3>1, <3>3, Zenon
  <2> QED BY <2>1, <2>2, <2>3
<1>2. PICK last : last = Line(<<"0">>, CRLF)
  OBVIOUS
<1>3. last \in Seq(Symbols)
  <2>1. "0" \in Symbols /\ "CR" \in Symbols /\ "LF" \in Symbols
    BY Letters, Digits
  <2>2. CRLF \in Seq(Symbols)
    BY <2>1 DEF CRLF
  <2> QED BY <1>2, <2>1, <2>2, Lines, Behind DEF Line
<1>4. PICK e : e = CRLF \o last
  OBVIOUS
<1>5. e \in Seq(Symbols) /\ Chunk(r) = r.body \o e
  BY <1>2, <1>3, <1>4, Lines DEF Chunk
<1>6. /\ Chunk(r) \in Seq(Symbols) /\ Len(Chunk(r)) >= Len(r.body)
      /\ \A i \in 1 .. Len(r.body) : Chunk(r)[i] = r.body[i]
  <2>1. Len(e) \in Nat
    BY <1>5
  <2> QED BY <1>1, <1>5, <2>1, ConcatProperties
<1>7. PICK size \in {"1", "2"} : size = IF Len(r.body) = 2 THEN "2" ELSE "1"
  OBVIOUS
<1>8. size \in DOMAIN Number /\ Number[size] = Len(r.body)
  <2>1. CASE Len(r.body) = 2
    BY <1>7, <2>1, Digits
  <2>2. CASE Len(r.body) = 1
    BY <1>7, <2>2, Digits
  <2> QED BY <1>1, <2>1, <2>2
<1>9. Transfer(r) = <<size>> \o (CRLF \o Chunk(r))
  BY <1>1, <1>2, <1>4, <1>5, <1>7 DEF Transfer, Line
<1> QED BY <1>6, <1>8, <1>9

LEMMA BodyStarts ==
  ASSUME NEW h \in Fields, NEW r \in Responses, r.length # "none", NEW k, NEW w,
         AtBody(h, w, r, k)
  PROVE  InBody(h, w, r)
<1>1. Number[r.length] = Len(r.body) /\ Len(r.body) \in Nat /\ r.body \in Seq(Symbols)
  BY ResponseFields
<1>2. h.iContentLength = Len(r.body) /\ h.iBodyLengthConsumed = 0
  BY <1>1 DEF AtBody, Lengths, LengthOf
<1>3. CASE r.chunked
  BY <1>1, <1>2, <1>3 DEF AtBody, InBody, InSize, SizeLine
<1>4. CASE ~ r.chunked
  <2>1. w = r.body
    BY <1>4 DEF AtBody, Transfer
  <2>2. CASE h.iState = eReadingBody
    <3>1. Ahead(0, r.body, r.body)
      BY <1>1 DEF Ahead
    <3> QED BY <1>1, <1>2, <1>4, <2>1, <2>2, <3>1 DEF InBody, Plain
  <2>3. CASE h.iState = eReadingChunkLength
    BY <1>1, <1>2, <1>4, <2>1, <2>3 DEF InBody, Mistaken
  <2> QED BY <2>2, <2>3 DEF AtBody
<1> QED BY <1>3, <1>4

\* What is still to come is lost.
LEMMA BodyIsCut ==
  ASSUME NEW h \in Fields, NEW r \in Responses, NEW w \in Seq(Symbols), InBody(h, w, r)
  PROVE  InBody(h, <<>>, r)
<1>1. Len(w) \in Nat /\ Len(r.body) \in Nat /\ h.iBodyLengthConsumed \in Nat
  BY ResponseFields DEF Fields
<1>2. /\ Plain(h, w, r) => Plain(h, <<>>, r)
      /\ InChunk(h, w, r) => InChunk(h, <<>>, r)
      /\ InSize(h, w, r) => InSize(h, <<>>, r)
      /\ BehindChunk(h, w, r) => BehindChunk(h, <<>>, r)
  BY DEF Plain, InChunk, InSize, BehindChunk, Ahead, SizeLine
<1>3. Mistaken(h, w, r) => Mistaken(h, <<>>, r)
  <2>1. Len(<<>>) = 0
    OBVIOUS
  <2> QED BY <1>1, <2>1 DEF Mistaken
<1> QED BY <1>2, <1>3 DEF InBody

\* One symbol less is left.
LEMMA AheadGoesOn ==
  ASSUME NEW b \in Seq(Symbols), NEW k \in Nat, k < Len(b), NEW w \in Seq(Symbols),
         w # <<>>, Ahead(k, w, b)
  PROVE  Ahead(k + 1, Tail(w), b) /\ Head(w) = b[k + 1]
<1>1. /\ Len(w) \in Nat /\ Len(b) \in Nat
      /\ Len(Tail(w)) = Len(w) - 1 /\ Tail(w) \in Seq(Symbols)
      /\ \A i \in 1 .. Len(Tail(w)) : Tail(w)[i] = w[i + 1]
  BY HeadTailProperties
<1>2. Head(w) = w[1]
  BY HeadIsFirst
<1>3. Len(w) >= Len(b) - k /\ \A i \in 1 .. Len(b) - k : w[i] = b[k + i]
  BY DEF Ahead
<1>4. ASSUME NEW i \in 1 .. Len(b) - (k + 1)
      PROVE  Tail(w)[i] = b[k + 1 + i]
  <2>1. i \in 1 .. Len(Tail(w)) /\ i + 1 \in 1 .. Len(b) - k /\ k + (i + 1) = k + 1 + i
    BY <1>1, <1>3, <1>4
  <2> QED BY <1>1, <1>3, <2>1
<1>5. Len(Tail(w)) >= Len(b) - (k + 1)
  BY <1>1, <1>3
<1>6. 1 \in 1 .. Len(b) - k
  BY <1>1
<1> QED BY <1>2, <1>3, <1>4, <1>5, <1>6 DEF Ahead

\* A symbol of the line with a chunk's length, or one that is taken for it.
LEMMA SizeReads ==
  ASSUME NEW h \in Fields, NEW r \in Responses, NEW w \in Seq(Symbols), w # <<>>,
         InBody(h, w, r), h.iBodyLengthConsumed # Len(r.body), h.iState = eReadingChunkLength
  PROVE  LET g == ChunkLength(h, Head(w))
         IN /\ InBody(g, Tail(w), r) /\ g.iBodyLengthConsumed = h.iBodyLengthConsumed
            /\ g.iState \in {eReadingChunkLength, eReadingBodyChunk}
<1>1. /\ Len(w) \in Nat /\ Len(Tail(w)) = Len(w) - 1 /\ Len(r.body) \in Nat
      /\ h.iBodyLengthConsumed \in Nat /\ r.chunked \in BOOLEAN
  BY HeadTailProperties, ResponseFields DEF Fields
<1>2. PICK g : g = ChunkLength(h, Head(w))
  OBVIOUS
<1>3. /\ g \in Fields /\ g.iContentLength = h.iContentLength
      /\ g.iBodyLengthConsumed = h.iBodyLengthConsumed
      /\ Head(w) = "LF" => g.iChunkLength = h.iChunkLength
      /\ Head(w) = "LF" => g.iState = IF h.iChunkLength = 0 THEN eReadingChunkLength
                                      ELSE eReadingBodyChunk
      /\ Head(w) # "LF" => g.iState = eReadingChunkLength
      /\ Head(w) # "LF" /\ IsDigit(Head(w)) =>
           g.iChunkLength = 16 * h.iChunkLength + Number[Head(w)]
      /\ Head(w) # "LF" /\ ~ IsDigit(Head(w)) => g.iChunkLength = h.iChunkLength
  BY <1>2, ChunkLengthFields
<1>4. g.iState \in {eReadingChunkLength, eReadingBodyChunk}
  BY <1>3
<1>5. h.iContentLength = Len(r.body) /\ h.iBodyLengthConsumed < Len(r.body)
  BY <1>1 DEF InBody
<1>6. ASSUME InSize(h, w, r)
      PROVE  InBody(g, Tail(w), r)
  <2>1. r.chunked /\ h.iBodyLengthConsumed = 0 /\ Len(r.body) > 0
    BY <1>5, <1>6 DEF InSize
  <2>2. PICK c : c = Chunk(r)
    OBVIOUS
  <2>3. /\ c \in Seq(Symbols) /\ Len(c) >= Len(r.body)
        /\ \A i \in 1 .. Len(r.body) : c[i] = r.body[i]
    BY <2>1, <2>2, ChunkStarts
  <2>4. PICK size \in DOMAIN Number :
          Number[size] = Len(r.body) /\ Transfer(r) = <<size>> \o (CRLF \o c)
    BY <2>1, <2>2, ChunkStarts
  <2>5. /\ CRLF \o c \in Seq(Symbols)
        /\ Head(CRLF \o c) = "CR" /\ Tail(CRLF \o c) = <<"LF">> \o c
        /\ Head(<<"LF">> \o c) = "LF" /\ Tail(<<"LF">> \o c) = c
    BY <2>3, Lines
  <2>6. CASE h.iChunkLength = 0 /\ w = Transfer(r)
    <3>1. size \in Symbols /\ IsDigit(size) /\ size # "LF"
      BY Letters, Digits DEF IsDigit
    <3>2. Head(w) = size /\ Tail(w) = CRLF \o c
      BY <2>4, <2>5, <2>6, <3>1, BehindOne
    <3>3. g.iState = eReadingChunkLength /\ g.iChunkLength = Len(r.body)
      BY <1>1, <1>3, <2>4, <2>6, <3>1, <3>2
    <3>4. InSize(g, Tail(w), r)
      BY <1>3, <2>1, <2>2, <3>2, <3>3 DEF InSize, SizeLine
    <3> QED BY <1>3, <1>5, <3>4 DEF InBody
  <2>7. CASE h.iChunkLength = Len(r.body) /\ w = CRLF \o c
    <3>1. ~ IsDigit("CR")
      BY Digits DEF IsDigit
    <3>2. g.iState = eReadingChunkLength /\ g.iChunkLength = Len(r.body)
      BY <1>3, <2>5, <2>7, <3>1
    <3>3. InSize(g, Tail(w), r)
      BY <1>3, <2>1, <2>2, <2>5, <2>7, <3>2 DEF InSize, SizeLine
    <3> QED BY <1>3, <1>5, <3>3 DEF InBody
  <2>8. CASE h.iChunkLength = Len(r.body) /\ w = <<"LF">> \o c
    <3>1. g.iState = eReadingBodyChunk /\ g.iChunkLength = Len(r.body)
      BY <1>3, <2>1, <2>5, <2>8
    <3>2. Ahead(0, c, r.body)
      BY <1>1, <2>3 DEF Ahead
    <3>3. g.iBodyLengthConsumed = 0 /\ Tail(w) = c
      BY <1>3, <2>1, <2>5, <2>8
    <3>4. Len(r.body) - 0 = Len(r.body)
      BY <1>1
    <3>5. InChunk(g, Tail(w), r)
      BY <2>1, <3>1, <3>2, <3>3, <3>4 DEF InChunk
    <3> QED BY <1>3, <1>5, <3>5 DEF InBody
  <2> QED BY <1>6, <2>2, <2>6, <2>7, <2>8 DEF InSize, SizeLine
<1>7. ASSUME Mistaken(h, w, r)
      PROVE  InBody(g, Tail(w), r)
  <2>1. Mistaken(g, Tail(w), r)
    BY <1>1, <1>3, <1>4, <1>7 DEF Mistaken
  <2> QED BY <1>3, <1>5, <2>1 DEF InBody
<1>8. InSize(h, w, r) \/ Mistaken(h, w, r)
  BY DEF InBody, Plain, InChunk, BehindChunk
<1> QED BY <1>2, <1>3, <1>4, <1>6, <1>7, <1>8

\* A symbol of the body.
LEMMA BodyReads ==
  ASSUME NEW h \in Fields, NEW r \in Responses, NEW w \in Seq(Symbols), w # <<>>,
         InBody(h, w, r), h.iBodyLengthConsumed # Len(r.body),
         h.iState \in {eReadingBody, eReadingBodyChunk}
  PROVE  LET g == Counted(h)
         IN /\ InBody(g, Tail(w), r)
            /\ g.iBodyLengthConsumed = h.iBodyLengthConsumed + 1
            /\ g.iState = eReadingBody => h.iState = eReadingBody
            /\ g.iState \in {eReadingBody, eReadingChunkLength, eReadingBodyChunk}
            /\ h.iState = eReadingBody \/ r.chunked =>
                 Head(w) = r.body[h.iBodyLengthConsumed + 1]
<1>1. /\ Len(w) \in Nat /\ Len(Tail(w)) = Len(w) - 1 /\ Tail(w) \in Seq(Symbols)
      /\ Len(r.body) \in Nat /\ r.body \in Seq(Symbols)
      /\ h.iBodyLengthConsumed \in Nat /\ r.chunked \in BOOLEAN
  BY HeadTailProperties, ResponseFields DEF Fields
<1>2. h.iContentLength = Len(r.body) /\ h.iBodyLengthConsumed < Len(r.body)
  BY <1>1 DEF InBody
<1>3. PICK g : g = Counted(h)
  OBVIOUS
<1>4. EndOfHeadersReached(h) /\ h.iContentLength > 0
  BY <1>1, <1>2 DEF EndOfHeadersReached
<1>5. /\ g.iContentLength = h.iContentLength
      /\ g.iBodyLengthConsumed = h.iBodyLengthConsumed + 1
      /\ h.iState = eReadingBody => g.iState = eReadingBody
      /\ h.iState = eReadingBodyChunk =>
           /\ g.iState = IF h.iChunkLength = 1 THEN eReadingChunkLength ELSE eReadingBodyChunk
           /\ g.iChunkLength = h.iChunkLength - 1
  BY <1>3, <1>4, CountedFields
<1>6. g.iContentLength = Len(r.body) /\ g.iBodyLengthConsumed <= Len(r.body)
  BY <1>1, <1>2, <1>5
<1>7. ASSUME Plain(h, w, r)
      PROVE  InBody(g, Tail(w), r) /\ Head(w) = r.body[h.iBodyLengthConsumed + 1]
  <2>1. /\ Ahead(h.iBodyLengthConsumed + 1, Tail(w), r.body)
        /\ Head(w) = r.body[h.iBodyLengthConsumed + 1]
    BY <1>1, <1>2, <1>7, AheadGoesOn DEF Plain
  <2>2. Plain(g, Tail(w), r)
    BY <1>5, <1>7, <2>1 DEF Plain
  <2> QED BY <1>6, <2>1, <2>2 DEF InBody
<1>8. ASSUME InChunk(h, w, r)
      PROVE  InBody(g, Tail(w), r) /\ Head(w) = r.body[h.iBodyLengthConsumed + 1]
  <2>1. /\ Ahead(h.iBodyLengthConsumed + 1, Tail(w), r.body)
        /\ Head(w) = r.body[h.iBodyLengthConsumed + 1]
    BY <1>1, <1>2, <1>8, AheadGoesOn DEF InChunk
  <2>2. CASE h.iChunkLength = 1
    <3>1. BehindChunk(g, Tail(w), r)
      BY <1>1, <1>2, <1>5, <1>8, <2>2 DEF InChunk, BehindChunk
    <3> QED BY <1>6, <2>1, <3>1 DEF InBody
  <2>3. CASE h.iChunkLength # 1
    <3>1. InChunk(g, Tail(w), r)
      BY <1>1, <1>2, <1>5, <1>8, <2>1, <2>3 DEF InChunk
    <3> QED BY <1>6, <2>1, <3>1 DEF InBody
  <2> QED BY <2>2, <2>3
<1>9. ASSUME Mistaken(h, w, r), h.iState = eReadingBodyChunk
      PROVE  InBody(g, Tail(w), r)
  <2>1. Mistaken(g, Tail(w), r)
    BY <1>1, <1>5, <1>9 DEF Mistaken
  <2> QED BY <1>6, <2>1 DEF InBody
<1>10. /\ h.iState = eReadingBody => Plain(h, w, r)
       /\ h.iState = eReadingBodyChunk => InChunk(h, w, r) \/ Mistaken(h, w, r)
       /\ Mistaken(h, w, r) => ~ r.chunked
  BY DEF InBody, Plain, InChunk, InSize, BehindChunk, Mistaken
<1> QED BY <1>3, <1>5, <1>7, <1>8, <1>9, <1>10

\* What is collected grows by it.
LEMMA CollectedGrows ==
  ASSUME NEW h, NEW g, NEW r, NEW length, NEW text \in Seq(Symbols), NEW x \in Symbols,
         h.iBodyLengthConsumed \in Nat, Collected(h, r, length, text),
         g.iBodyLengthConsumed = h.iBodyLengthConsumed + 1,
         g.iState = eReadingBody => h.iState = eReadingBody,
         h.iState = eReadingBody \/ r.chunked => x = r.body[h.iBodyLengthConsumed + 1]
  PROVE  Collected(g, r, length, Append(text, x))
<1>1. PICK t : t = Append(text, x)
  OBVIOUS
<1>2. /\ Len(text) \in Nat /\ t \in Seq(Symbols) /\ Len(t) = Len(text) + 1
      /\ \A i \in 1 .. Len(text) : t[i] = text[i]
      /\ t[Len(text) + 1] = x
  BY <1>1, AppendProperties
<1>3. length = Len(r.body) /\ Len(t) <= g.iBodyLengthConsumed
  BY <1>2 DEF Collected
<1>4. ASSUME g.iState = eReadingBody \/ r.chunked, NEW i \in 1 .. Len(t)
      PROVE  t[i] = r.body[g.iBodyLengthConsumed - Len(t) + i]
  <2>1. h.iState = eReadingBody \/ r.chunked
    BY <1>4
  <2>2. g.iBodyLengthConsumed - Len(t) + i = h.iBodyLengthConsumed - Len(text) + i
    BY <1>2
  <2>3. CASE i \in 1 .. Len(text)
    <3>1. text[i] = r.body[h.iBodyLengthConsumed - Len(text) + i]
      BY <2>1, <2>3 DEF Collected
    <3> QED BY <1>2, <2>2, <2>3, <3>1
  <2>4. CASE i = Len(text) + 1
    <3>1. h.iBodyLengthConsumed - Len(text) + i = h.iBodyLengthConsumed + 1
      BY <1>2, <2>4
    <3> QED BY <1>2, <2>1, <2>2, <2>4, <3>1
  <2> QED BY <1>2, <1>4, <2>3, <2>4
<1> QED BY <1>1, <1>3, <1>4 DEF Collected

\* A call that has the announced length has the body.
LEMMA CollectedIsBody ==
  ASSUME NEW h \in Fields, NEW r \in Responses, NEW w \in Seq(Symbols), InBody(h, w, r),
         NEW length, NEW text \in Seq(Symbols), Collected(h, r, length, text),
         length > 0 => length = Len(text)
  PROVE  text = r.body
<1>1. /\ Len(w) \in Nat /\ Len(r.body) \in Nat /\ r.body \in Seq(Symbols)
      /\ Len(text) \in Nat /\ h.iBodyLengthConsumed \in Nat
  BY ResponseFields DEF Fields
<1>2. Len(text) = Len(r.body) /\ h.iBodyLengthConsumed <= Len(r.body)
  BY <1>1 DEF InBody, Collected
<1>3. h.iBodyLengthConsumed - Len(text) = 0
  BY <1>1, <1>2 DEF Collected
<1>4. CASE h.iState = eReadingBody \/ r.chunked
  <2>1. \A i \in 1 .. Len(text) : text[i] = r.body[i]
    BY <1>3, <1>4 DEF Collected
  <2> QED BY <1>1, <1>2, <2>1, SeqEqual
<1>5. CASE ~ (h.iState = eReadingBody \/ r.chunked)
  <2>1. Mistaken(h, w, r)
    BY <1>5 DEF InBody, Plain, InChunk, InSize, BehindChunk
  <2>2. Len(r.body) = 0
    BY <1>1, <1>2, <1>3, <2>1 DEF Mistaken
  <2> QED BY <1>1, <1>2, <2>2, SeqEqual
<1> QED BY <1>4, <1>5

-----------------------------------------------------------------------------
(* The response, on a connection of its own.                               *)

Simple == ~ own.begun /\ slips = {}
Heard == "nothing" \notin slips
InHeaders ==
  \/ doing.op \in {"headers", "line"}
  \/ /\ doing.op = "none"
     /\ ret.op \in {"headers", "line"} \/ (ret.op = "status" /\ ret.value > 0)

\* Nothing is to come but what is left of the response to this request.
AskInv ==
  /\ app = "headers" => coming = <<>>
  /\ app \in {"body", "written"} =>
       coming = <<>> \/ (coming = Response(own.of) /\ own.begun)
AwaitInv ==
  app = "sent" /\ doing.op = "none" /\ ret.op = "start" =>
    /\ ~ EndOfHeadersReached(http)
    /\ coming = <<>> \/ /\ coming = Response(own.of)
                        /\ Simple => http.iContentLength = -1
StatusInv ==
  app = "sent" =>
    /\ doing.op = "status" =>
         /\ ~ EndOfHeadersReached(http)
         /\ coming = <<>> \/ /\ AtStatus(http, coming, own.of)
                             /\ Simple => http.iContentLength = -1
    /\ doing.op = "none" /\ ret.op = "status" => ~ EndOfHeadersReached(http)
    /\ ret.op = "status" /\ ret.value > 0 => ret.value = Number[own.of.code]
HeadersInv ==
  app = "sent" /\ Heard =>
    /\ InHeaders /\ ~ EndOfHeadersReached(http) =>
         coming = <<>> \/ AtHeaders(http, coming, own.of, Simple)
    /\ doing.op \in {"headers", "line"} => ~ EndOfHeadersReached(http)
BodyInv ==
  app = "sent" /\ Heard /\ EndOfHeadersReached(http) =>
    /\ Simple => http.iContentLength = LengthOf(own.of)
    /\ own.of.length # "none" =>
         /\ InBody(http, coming, own.of)
         /\ doing.op = "body" => Collected(http, own.of, doing.length, doing.text)
Followed == AskInv /\ AwaitInv /\ StatusInv /\ HeadersInv /\ BodyInv /\ BodyIsWhole
ResponseInv == ~ alive /\ ~ Unstarted => Followed

LEMMA FollowedIsOwn ==
  HttpTypes /\ ResponseInv => ResponseIsOwn /\ BodyIsWhole
<1> SUFFICES ASSUME HttpTypes, ResponseInv PROVE ResponseIsOwn /\ BodyIsWhole
  OBVIOUS
<1>1. CASE alive \/ Unstarted
  BY <1>1 DEF ResponseIsOwn, StatusIsOwn, LengthIsOwn, BodyIsWhole, Unstarted
<1>2. CASE ~ alive /\ ~ Unstarted
  <2>1. StatusInv /\ BodyInv /\ BodyIsWhole
    BY <1>2 DEF ResponseInv, Followed
  <2>2. ret.op = "status" /\ ret.value >= 200 => ret.value > 0
    BY DEF HttpTypes
  <2>3. StatusIsOwn
    BY <2>1, <2>2 DEF StatusIsOwn, StatusInv
  <2>4. ASSUME app = "sent", EndOfHeadersReached(http), slips = {},
               own.begun => own.of.length # "none"
        PROVE  http.iContentLength = LengthOf(own.of)
    <3>1. CASE ~ own.begun
      BY <2>1, <2>4, <3>1 DEF BodyInv, Simple, Heard
    <3>2. CASE own.of.length # "none"
      <4>1. http.iContentLength = Len(own.of.body)
        BY <2>1, <2>4, <3>2 DEF BodyInv, Heard, InBody
      <4>2. own.of \in Responses
        BY DEF HttpTypes
      <4> QED BY <3>2, <4>1, <4>2, HttpAssumption DEF LengthOf
    <3> QED BY <2>4, <3>1, <3>2
  <2>5. LengthIsOwn
    BY <2>4 DEF LengthIsOwn
  <2> QED BY <2>1, <2>3, <2>5 DEF ResponseIsOwn
<1> QED BY <1>1, <1>2

\* Before the request is sent, and behind it.
LEMMA FollowedAsking ==
  ASSUME app' # "sent", AskInv'
  PROVE  Followed'
BY DEF Followed, AwaitInv, StatusInv, HeadersInv, BodyInv, BodyIsWhole

LEMMA FollowedSent ==
  ASSUME app' = "sent", doing'.op = "none", ret'.op = "start", http'.iState \in {1, 2},
         coming' = <<>> \/ (coming' = Response(own'.of) /\ (Simple' => http'.iContentLength = -1))
  PROVE  Followed'
<1>1. http'.iState \notin {8, 9, 10}
  OBVIOUS
<1>2. AskInv' /\ AwaitInv' /\ StatusInv'
  BY <1>1 DEF AskInv, AwaitInv, StatusInv, EndOfHeadersReached
<1>3. HeadersInv' /\ BodyInv' /\ BodyIsWhole'
  BY <1>1 DEF HeadersInv, InHeaders, BodyInv, BodyIsWhole, EndOfHeadersReached
<1> QED BY <1>2, <1>3 DEF Followed

\* The call for the status ends without one.
LEMMA FollowedWithout ==
  ASSUME app' = "sent", http'.iState \notin {8, 9, 10}, NEW value \in Int, value <= 0,
         Return("status", value)
  PROVE  Followed'
<1>1. doing'.op = "none" /\ ret'.op = "status" /\ ~ ret'.value > 0
  BY DEF Return, NoCall
<1>2. AskInv' /\ AwaitInv' /\ StatusInv'
  BY <1>1 DEF AskInv, AwaitInv, StatusInv, EndOfHeadersReached
<1>3. HeadersInv' /\ BodyInv' /\ BodyIsWhole'
  BY <1>1 DEF HeadersInv, InHeaders, BodyInv, BodyIsWhole, EndOfHeadersReached
<1> QED BY <1>2, <1>3 DEF Followed

\* It goes on.
LEMMA FollowedStatus ==
  ASSUME app = "sent", app' = "sent", Followed, UNCHANGED <<ret, own, slips>>,
         doing'.op = "status", http'.iState \notin {8, 9, 10},
         coming' = <<>> \/ /\ AtStatus(http', coming', own.of)
                           /\ Simple => http'.iContentLength = -1
  PROVE  Followed'
<1>1. StatusInv'
  <2>1. ret.op = "status" /\ ret.value > 0 => ret.value = Number[own.of.code]
    BY DEF Followed, StatusInv
  <2> QED BY <2>1 DEF StatusInv, EndOfHeadersReached, Simple
<1>2. AskInv' /\ AwaitInv'
  BY DEF AskInv, AwaitInv
<1>3. HeadersInv' /\ BodyInv' /\ BodyIsWhole'
  BY DEF HeadersInv, InHeaders, BodyInv, BodyIsWhole, EndOfHeadersReached
<1> QED BY <1>1, <1>2, <1>3 DEF Followed

\* A request that is started, over a connection that is not kept.
LEMMA FollowedStart ==
  ASSUME HttpTypes, CallInv, ~ alive, NEW begun \in BOOLEAN, NEW body \in BOOLEAN,
         StartRequest(begun, body), ~ Unstarted'
  PROVE  Followed'
<1>0. /\ http \in Fields /\ coming \in Seq(Symbols) /\ ~ Kept /\ StartState \in Fields
      /\ own.of \in Responses
  BY StartFields DEF HttpTypes, Kept
<1>1. ASSUME app' \in {"free", "headers"}, coming' = <<>> \/ app' = "free"
      PROVE  Followed'
  BY <1>1, FollowedAsking DEF AskInv
<1>2. ASSUME NEW rest \in Seq(Symbols), StartRefused(rest)
      PROVE  Followed'
  BY <1>1, <1>2 DEF StartRefused
<1>3. ASSUME NEW rest \in Seq(Symbols), StartFails(begun, rest)
      PROVE  Followed'
  <2>1. app' = "headers" => coming' = <<>>
    BY <1>3 DEF StartFails, Unstarted
  <2> QED BY <1>1, <1>3, <2>1 DEF StartFails
<1>4. ASSUME NEW rest \in Seq(Symbols), StartSucceeds(begun, body, Ends(begun, body), rest)
      PROVE  Followed'
  <2> DEFINE ends == Ends(begun, body)
             left == IF Kept THEN rest ELSE <<>>
  <2>1. /\ MayStart(StartState) /\ link' = (Kept => link)
        /\ http' = [StartState EXCEPT !.iState = IF ends THEN eRequestSent ELSE eRequestStarted]
        /\ app' = IF begun /\ ~ body THEN "headers" ELSE "sent"
        /\ Return("start", HTTP_SUCCESS)
        /\ slips' = IF Kept THEN slips ELSE slips \ {"unstarted"}
    BY <1>4, Zenon DEF StartSucceeds
  <2>2. IF ends THEN Answers(link', begun, left) ELSE coming' = left /\ UNCHANGED own
    BY <1>4, Zenon DEF StartSucceeds
  <2>3. left = <<>> /\ link'
    BY <1>0, <2>1
  <2>4. ends \in BOOLEAN /\ (begun /\ ~ body => ~ ends)
    BY DEF Ends
  <2> HIDE DEF ends, left
  <2>5. doing'.op = "none" /\ ret'.op = "start"
    BY <2>1 DEF Return, NoCall
  <2>6. http'.iState \in {1, 2} /\ http'.iContentLength = StartState.iContentLength
    <3>1. PICK n \in {1, 2} : n = IF ends THEN eRequestSent ELSE eRequestStarted
      BY <2>4
    <3>2. http' = [StartState EXCEPT !.iState = n]
      BY <2>1, <3>1
    <3> QED BY <1>0, <3>1, <3>2, SetState
  <2>7. CASE ~ ends
    <3>1. coming' = <<>>
      BY <2>2, <2>3, <2>7
    <3> QED BY <1>1, <2>1, <2>5, <2>6, <3>1, FollowedSent
  <2>8. CASE ends
    <3>1. app' = "sent"
      BY <2>1, <2>4, <2>8
    <3>2. PICK r \in Responses : own' = [of |-> r, begun |-> begun]
                                 /\ coming' = left \o Response(r)
      BY <2>2, <2>3, <2>8 DEF Answers
    <3>3. coming' = Response(own'.of) /\ own'.begun = begun
      <4>1. Response(r) \in Seq(Symbols)
        BY LinesOfAResponse
      <4>2. <<>> \o Response(r) = Response(r)
        BY <4>1
      <4> QED BY <2>3, <3>2, <4>2
    <3>4. ASSUME Simple' PROVE http'.iContentLength = -1
      <4>1. ~ begun /\ ~ Abandoned
        BY <2>1, <3>3, <3>4 DEF Simple, Abandoned
      <4>2. StartState = ResetState
        BY <2>1, <4>1, MayStartIs
      <4> QED BY <2>6, <4>2, ResetFields
    <3> QED BY <2>5, <2>6, <3>1, <3>3, <3>4, FollowedSent
  <2> QED BY <2>4, <2>7, <2>8
<1> QED BY <1>0, <1>2, <1>3, <1>4, StartCases

\* The end of its headers.
LEMMA FollowedFinish ==
  ASSUME HttpTypes, CallInv, Followed, NEW tokens, Finish(tokens),
         app \in {"headers", "body", "written"}, app' \in {"body", "written", "sent"}
  PROVE  Followed'
<1>0. /\ http \in Fields /\ coming \in Seq(Symbols) /\ doing.op = "none" /\ ret.op = "start"
  BY DEF HttpTypes, CallInv
<1>1. /\ app = "headers" => http.iState = 1
      /\ app # "headers" => http.iState = 2
  BY DEF CallInv
<1>2. /\ http'.iState = 2 /\ doing'.op = "none" /\ ret'.op = "start"
  BY <1>0, <1>1, FinishIs DEF Finishes
<1>3. coming' = <<>> \/ (coming' = Response(own'.of) /\ own'.begun)
  <2>0. IF Finishes THEN Answers(link, TRUE, coming) ELSE UNCHANGED <<coming, own>>
    BY DEF Finish
  <2>1. CASE app = "headers"
    <3>0. Finishes
      BY <1>1, <2>1 DEF Finishes
    <3>1. Answers(link, TRUE, coming) /\ coming = <<>>
      BY <2>0, <2>1, <3>0 DEF Followed, AskInv
    <3>2. CASE link
      <4>1. PICK r \in Responses : own' = [of |-> r, begun |-> TRUE]
                                   /\ coming' = coming \o Response(r)
        BY <3>1, <3>2 DEF Answers
      <4>2. Response(r) \in Seq(Symbols)
        BY LinesOfAResponse
      <4>3. <<>> \o Response(r) = Response(r)
        BY <4>2
      <4> QED BY <3>1, <4>1, <4>3
    <3>3. CASE ~ link
      BY <3>1, <3>3 DEF Answers
    <3> QED BY <3>2, <3>3
  <2>2. CASE app # "headers"
    <3>0. ~ Finishes
      BY <1>1, <2>2 DEF Finishes
    <3>1. coming' = coming /\ own' = own
      BY <2>0, <3>0
    <3> QED BY <2>2, <3>1 DEF Followed, AskInv
  <2> QED BY <2>1, <2>2
<1>4. CASE app' = "sent"
  BY <1>2, <1>3, <1>4, FollowedSent DEF Simple
<1>5. CASE app' # "sent"
  BY <1>3, <1>5, FollowedAsking DEF AskInv
<1> QED BY <1>4, <1>5

\* The calls for the status.
LEMMA FollowedStatusBegins ==
  ASSUME HttpTypes, Followed, StatusBegins
  PROVE  Followed'
<1>0. /\ http \in Fields /\ app = "sent" /\ doing.op = "none" /\ ret.op = "start" /\ Mine
      /\ coming' = coming
  BY DEF HttpTypes, StatusBegins, NoCall
<1>1. /\ app' = "sent" /\ own' = own /\ slips' = slips
      /\ http.iState \notin {8, 9, 10}
      /\ coming = <<>> \/ /\ coming = Response(own.of)
                          /\ Simple => http.iContentLength = -1
  BY <1>0 DEF Mine, Followed, AwaitInv, EndOfHeadersReached
<1>2. CASE http.iState < eRequestSent
  <2>1. Return("status", HTTP_ERROR_API) /\ http' = http
    BY <1>2 DEF StatusBegins
  <2> QED BY <1>1, <2>1, FollowedWithout
<1>3. CASE ~ http.iState < eRequestSent
  <2>1. /\ Waits("status")
        /\ http' = [http EXCEPT !.iStatusCode = 0, !.iState = eRequestSent]
    BY <1>3 DEF StatusBegins
  <2>2. PICK g : g = [http EXCEPT !.iStatusCode = 0]
    OBVIOUS
  <2>3. g \in Fields /\ g.iContentLength = http.iContentLength /\ g.iStatusCode = 0
    BY <1>0, <2>2, SetCode
  <2>4. http' = [g EXCEPT !.iState = eRequestSent]
    BY <2>1, <2>2
  <2>5. /\ http'.iState = 2 /\ http'.iStatusCode = 0
        /\ http'.iContentLength = http.iContentLength
    BY <2>3, <2>4, SetState
  <2>6. doing'.op = "status" /\ ret' = ret
    BY <2>1 DEF Waits, NoCall
  <2>7. coming' = <<>> \/ /\ AtStatus(http', coming', own.of)
                          /\ Simple => http'.iContentLength = -1
    BY <1>0, <1>1, <2>5 DEF AtStatus
  <2> QED BY <1>0, <1>1, <2>5, <2>6, <2>7, FollowedStatus
<1> QED BY <1>2, <1>3

LEMMA FollowedStatusByte ==
  ASSUME HttpTypes, CallInv, Followed, StatusByte
  PROVE  Followed'
<1>0. /\ http \in Fields /\ own.of \in Responses /\ doing.op = "status" /\ app = "sent"
      /\ coming # <<>> /\ Mine
  BY DEF HttpTypes, CallInv, StatusByte
<1>1. /\ app' = "sent" /\ own' = own /\ slips' = slips
      /\ AtStatus(http, coming, own.of) /\ (Simple => http.iContentLength = -1)
  BY <1>0 DEF Mine, Followed, StatusInv
<1>2. PICK r \in Responses : r = own.of
  BY <1>0
<1>3. /\ http'.iContentLength = http.iContentLength /\ http'.iState \in {2, 3, 4}
      /\ \/ UNCHANGED <<doing, ret>> /\ AtStatus(http', coming', r)
         \/ Return("status", HTTP_ERROR_INVALID_RESPONSE)
         \/ /\ Return("status", Number[r.code]) /\ http'.iState = eStatusCodeRead
            /\ coming' = HeaderLines(r)
  BY <1>0, <1>1, <1>2, StatusByteReads
<1>4. http'.iState \notin {8, 9, 10}
  BY <1>3
<1>5. CASE UNCHANGED <<doing, ret>> /\ AtStatus(http', coming', r)
  BY <1>0, <1>1, <1>2, <1>3, <1>4, <1>5, FollowedStatus
<1>6. CASE Return("status", HTTP_ERROR_INVALID_RESPONSE)
  BY <1>1, <1>4, <1>6, FollowedWithout
<1>7. CASE /\ Return("status", Number[r.code]) /\ http'.iState = eStatusCodeRead
           /\ coming' = HeaderLines(r)
  <2>1. doing'.op = "none" /\ ret'.op = "status" /\ ret'.value = Number[r.code]
    BY <1>7 DEF Return, NoCall
  <2>2. AskInv' /\ AwaitInv' /\ StatusInv'
    BY <1>1, <1>2, <1>4, <2>1 DEF AskInv, AwaitInv, StatusInv, EndOfHeadersReached
  <2>3. BodyInv' /\ BodyIsWhole'
    BY <1>4, <2>1 DEF BodyInv, BodyIsWhole, EndOfHeadersReached
  <2>4. \A h, w, k : /\ h.iState = eStatusCodeRead /\ w = HeaderLines(r)
                     /\ k => h.iContentLength = -1
                     => AtHeaders(h, w, r, k)
    BY DEF AtHeaders, AtType
  <2>5. Simple' => http'.iContentLength = -1
    BY <1>1, <1>3 DEF Simple
  <2>6. AtHeaders(http', coming', r, Simple')
    BY <1>7, <2>4, <2>5
  <2>7. HeadersInv'
    BY <1>1, <1>2, <2>1, <2>6 DEF HeadersInv
  <2> QED BY <2>2, <2>3, <2>7 DEF Followed
<1> QED BY <1>3, <1>5, <1>6, <1>7

LEMMA FollowedStatusTimesOut ==
  ASSUME HttpTypes, CallInv, Followed, StatusTimesOut
  PROVE  Followed'
<1>0. /\ http \in Fields /\ own.of \in Responses /\ doing.op = "status" /\ app = "sent"
      /\ Mine /\ coming' = coming
  BY DEF HttpTypes, CallInv, StatusTimesOut
<1>1. /\ app' = "sent" /\ own' = own /\ slips' = slips
      /\ http.iState \notin {8, 9, 10}
      /\ coming = <<>> \/ /\ AtStatus(http, coming, own.of)
                          /\ Simple => http.iContentLength = -1
  BY <1>0 DEF Mine, Followed, StatusInv, EndOfHeadersReached
<1>2. CASE http.iState = eStatusCodeRead /\ Informational(http)
  <2>1. /\ http' = [http EXCEPT !.iStatusCode = 0, !.iState = eRequestSent]
        /\ UNCHANGED <<doing, ret>>
    BY <1>2 DEF StatusTimesOut
  <2>2. PICK g : g = [http EXCEPT !.iStatusCode = 0]
    OBVIOUS
  <2>3. g \in Fields /\ g.iContentLength = http.iContentLength
    BY <1>0, <2>2, SetCode
  <2>4. http' = [g EXCEPT !.iState = eRequestSent]
    BY <2>1, <2>2
  <2>5. http'.iState = 2 /\ http'.iContentLength = http.iContentLength
    BY <2>3, <2>4, SetState
  <2>6. coming # <<>> => Head(coming) # "HTTP"
    <3>1. PICK r \in Responses : r = own.of
      BY <1>0
    <3>2. coming = <<>> \/ coming = <<"LF">> \o BehindStatus(r)
      BY <1>1, <1>2, <3>1 DEF AtStatus
    <3>3. Head(<<"LF">> \o BehindStatus(r)) = "LF"
      BY StatusLine, Lines
    <3> QED BY <3>2, <3>3
  <2>7. coming' = <<>> \/ /\ AtStatus(http', coming', own.of)
                          /\ Simple => http'.iContentLength = -1
    BY <1>0, <1>1, <2>5, <2>6 DEF AtStatus
  <2> QED BY <1>0, <1>1, <2>1, <2>5, <2>7, FollowedStatus
<1>3. CASE ~ (http.iState = eStatusCodeRead /\ Informational(http))
  <2>1. Return("status", HTTP_ERROR_TIMED_OUT) /\ http' = http
    BY <1>3 DEF StatusTimesOut
  <2> QED BY <1>1, <2>1, FollowedWithout
<1> QED BY <1>2, <1>3

\* Those for the headers.
LEMMA FollowedHeadersBegin ==
  ASSUME Followed, NEW op \in {"headers", "line"}, HeadersBegin(op)
  PROVE  Followed'
<1>1. /\ app = "sent" /\ doing.op = "none" /\ ~ EndOfHeadersReached(http)
      /\ ret.op \in {"headers", "line"} \/ (ret.op = "status" /\ ret.value > 0)
      /\ UNCHANGED <<app, own, slips, http, coming, ret>> /\ doing'.op = op
  BY DEF HeadersBegin, Mine, Waits, NoCall
<1>2. InHeaders
  BY <1>1 DEF InHeaders
<1>3. ~ EndOfHeadersReached(http)'
  BY <1>1 DEF EndOfHeadersReached
<1>4. AskInv' /\ AwaitInv' /\ StatusInv'
  BY <1>1 DEF AskInv, AwaitInv, StatusInv, Followed
<1>5. HeadersInv'
  BY <1>1, <1>2, <1>3 DEF HeadersInv, Followed, Heard, Simple
<1>6. BodyInv' /\ BodyIsWhole'
  BY <1>3 DEF BodyInv, BodyIsWhole
<1> QED BY <1>4, <1>5, <1>6 DEF Followed

LEMMA FollowedHeaderByte ==
  ASSUME HttpTypes, CallInv, Followed, HeaderByte
  PROVE  Followed'
<1>0. /\ http \in Fields /\ own.of \in Responses /\ own.begun \in BOOLEAN
      /\ doing.op \in {"headers", "line"} /\ app = "sent" /\ coming # <<>>
      /\ UNCHANGED <<app, own, slips>> /\ coming' = Tail(coming)
  BY DEF HttpTypes, CallInv, HeaderByte, Mine
<1>1. PICK g : g = ReadHeader(http, Head(coming))
  OBVIOUS
<1>2. /\ http' = g
      /\ \/ Return(doing.op, HTTP_SUCCESS)
         \/ /\ ~ EndOfHeadersReached(g) /\ ret' = ret
            /\ doing' = [doing EXCEPT !.line = @ \/ Head(coming) \notin {"CR", "LF"}]
  BY <1>1, Zenon DEF HeaderByte
<1>3. /\ \/ doing'.op = "none" /\ ret'.op = doing.op
         \/ doing'.op = doing.op /\ ret' = ret /\ ~ EndOfHeadersReached(g)
      /\ InHeaders'
  <2>1. doing \in Calls
    BY DEF HttpTypes
  <2>2. [doing EXCEPT !.line = @ \/ Head(coming) \notin {"CR", "LF"}].op = doing.op
    BY <2>1 DEF Calls
  <2>3. /\ \/ doing'.op = "none" /\ ret'.op = doing.op
           \/ doing'.op = doing.op /\ ret' = ret /\ ~ EndOfHeadersReached(g)
    <3>1. Return(doing.op, HTTP_SUCCESS) => doing'.op = "none" /\ ret'.op = doing.op
      BY DEF Return, NoCall
    <3> QED BY <1>2, <2>2, <3>1, Zenon
  <2>4. InHeaders'
    <3>1. CASE doing'.op = "none" /\ ret'.op = doing.op
      BY <1>0, <3>1, Zenon DEF InHeaders
    <3>2. CASE doing'.op = doing.op
      BY <1>0, <3>2, Zenon DEF InHeaders
    <3> QED BY <2>3, <3>1, <3>2
  <2> QED BY <2>3, <2>4
<1>4. EndOfHeadersReached(http)' <=> EndOfHeadersReached(g)
  BY <1>2 DEF EndOfHeadersReached
<1>5. AskInv' /\ AwaitInv'
  BY <1>0, <1>3 DEF AskInv, AwaitInv
<1>6. StatusInv'
  BY <1>0, <1>3 DEF Followed, StatusInv
<1>7. CASE ~ Heard
  BY <1>0, <1>5, <1>6, <1>7 DEF Followed, HeadersInv, BodyInv, BodyIsWhole, Heard
<1>8. CASE Heard
  <2>1. PICK r \in Responses : r = own.of
    BY <1>0
  <2>2. PICK k \in BOOLEAN : k = Simple
    BY <1>0 DEF Simple
  <2>3. AtHeaders(http, coming, r, k)
    BY <1>0, <1>8, <2>1, <2>2 DEF Followed, HeadersInv, InHeaders
  <2>4. HeadersGoOn(g, coming', r, k)
    BY <1>0, <1>1, <2>3, HeaderReads
  <2>5. k = Simple'
    BY <1>0, <2>2 DEF Simple
  <2>6. CASE ~ EndOfHeadersReached(g) /\ AtHeaders(g, coming', r, k)
    <3>1. AtHeaders(http', coming', own'.of, Simple')
      BY <1>0, <1>2, <2>1, <2>5, <2>6
    <3>2. HeadersInv'
      BY <1>4, <2>6, <3>1 DEF HeadersInv
    <3>3. BodyInv' /\ BodyIsWhole'
      BY <1>4, <2>6 DEF BodyInv, BodyIsWhole
    <3> QED BY <1>5, <1>6, <3>2, <3>3 DEF Followed
  <2>7. CASE AtBody(g, coming', r, k)
    <3>1. EndOfHeadersReached(g)
      BY <2>7 DEF AtBody, EndOfHeadersReached
    <3>2. doing'.op = "none" /\ ret'.op = doing.op
      BY <1>3, <3>1
    <3>3. HeadersInv' /\ BodyIsWhole'
      BY <1>0, <1>4, <3>1, <3>2 DEF HeadersInv, BodyIsWhole
    <3>4. k => g.iContentLength = LengthOf(r)
      BY <2>7 DEF AtBody, Lengths
    <3>5. r.length # "none" => InBody(g, coming', r)
      <4>1. g \in Fields
        BY <1>0, <1>1, ReadHeaderFields
      <4> QED BY <2>7, <4>1, BodyStarts
    <3>6. BodyInv'
      BY <1>0, <1>2, <2>1, <2>5, <3>2, <3>4, <3>5 DEF BodyInv
    <3> QED BY <1>5, <1>6, <3>3, <3>6 DEF Followed
  <2> QED BY <2>4, <2>6, <2>7 DEF HeadersGoOn
<1> QED BY <1>7, <1>8

LEMMA FollowedHeaderNothing ==
  ASSUME HttpTypes, CallInv, Followed, HeaderNothing
  PROVE  Followed'
<1>1. /\ doing.op = "line" /\ app = "sent" /\ UNCHANGED <<app, own, ret>> /\ ~ Heard'
      /\ doing' = [doing EXCEPT !.line = TRUE]
  BY DEF CallInv, HeaderNothing, connVars, Heard
<1>2. doing'.op = "line"
  BY <1>1 DEF HttpTypes, Calls
<1>3. AskInv' /\ AwaitInv' /\ StatusInv'
  BY <1>1, <1>2 DEF AskInv, AwaitInv, StatusInv, Followed
<1>4. HeadersInv' /\ BodyInv' /\ BodyIsWhole'
  BY <1>1 DEF HeadersInv, BodyInv, BodyIsWhole, Heard
<1> QED BY <1>3, <1>4 DEF Followed

LEMMA FollowedHeadersTimeOut ==
  ASSUME CallInv, Followed, HeadersTimeOut
  PROVE  Followed'
<1>1. /\ doing.op = "headers" /\ app = "sent" /\ UNCHANGED <<app, own, slips, http, coming>>
      /\ doing'.op = "none" /\ ret'.op = "headers"
  BY DEF CallInv, HeadersTimeOut, Mine, Return, NoCall
<1>2. InHeaders /\ (Heard => ~ EndOfHeadersReached(http))
  BY <1>1 DEF InHeaders, Followed, HeadersInv
<1>3. Heard' => ~ EndOfHeadersReached(http)'
  BY <1>1, <1>2 DEF Heard, EndOfHeadersReached
<1>4. AskInv' /\ AwaitInv' /\ StatusInv'
  BY <1>1 DEF AskInv, AwaitInv, StatusInv
<1>5. HeadersInv'
  BY <1>1, <1>2 DEF HeadersInv, Followed, Heard, Simple
<1>6. BodyInv' /\ BodyIsWhole'
  BY <1>1, <1>3 DEF BodyInv, BodyIsWhole, Heard
<1> QED BY <1>4, <1>5, <1>6 DEF Followed

\* That for the body.
LEMMA FollowedBodyBegins ==
  ASSUME HttpTypes, Followed, BodyBegins
  PROVE  Followed'
<1>1. /\ app = "sent" /\ doing.op = "none" /\ UNCHANGED <<app, own, slips, http, coming, ret>>
      /\ doing' = [NoCall EXCEPT !.op = "body", !.length = http.iContentLength]
  BY DEF BodyBegins, Mine, NoCall
<1>2. doing'.op = "body" /\ doing'.length = http.iContentLength /\ doing'.text = <<>>
  BY <1>1 DEF NoCall
<1>3. AskInv' /\ AwaitInv' /\ HeadersInv'
  BY <1>1, <1>2 DEF AskInv, AwaitInv, HeadersInv, InHeaders
<1>4. StatusInv' /\ BodyIsWhole'
  <2>1. ret.op = "status" /\ ret.value > 0 => ret.value = Number[own.of.code]
    BY <1>1 DEF Followed, StatusInv
  <2>2. StatusInv'
    BY <1>1, <1>2, <2>1 DEF StatusInv
  <2>3. BodyIsWhole
    BY DEF Followed
  <2>4. BodyIsWhole'
    BY <1>1, <2>3, Zenon DEF BodyIsWhole, EndOfHeadersReached, BodyBegins, Mine
  <2> QED BY <2>2, <2>4
<1>5. ASSUME NEW r \in Responses, InBody(http, coming, r)
      PROVE  Collected(http, r, http.iContentLength, <<>>)
  <2>1. http.iBodyLengthConsumed \in Nat /\ http.iContentLength = Len(r.body)
    BY <1>5 DEF HttpTypes, Fields, InBody
  <2>2. Len(<<>>) = 0 /\ 1 .. 0 = {}
    OBVIOUS
  <2> QED BY <2>1, <2>2 DEF Collected
<1>6. BodyInv'
  <2>1. own.of \in Responses
    BY DEF HttpTypes
  <2> QED BY <1>1, <1>2, <1>5, <2>1
          DEF Followed, BodyInv, Heard, Simple, EndOfHeadersReached
<1> QED BY <1>3, <1>4, <1>6 DEF Followed

LEMMA FollowedBodyByte ==
  ASSUME HttpTypes, CallInv, Followed, BodyByte
  PROVE  Followed'
<1>0. /\ http \in Fields /\ coming \in Seq(Symbols) /\ own.of \in Responses
      /\ doing.op = "body" /\ app = "sent" /\ coming # <<>>
      /\ http.iBodyLengthConsumed # doing.length
      /\ UNCHANGED <<app, own, slips, ret>> /\ coming' = Tail(coming)
      /\ doing \in Calls /\ doing.text \in Seq(Symbols)
  BY DEF HttpTypes, CallInv, BodyByte, Mine, Calls
<1>1. \/ /\ http.iState = eReadingChunkLength
         /\ http' = ChunkLength(http, Head(coming)) /\ doing' = doing
      \/ /\ http.iState # eReadingChunkLength
         /\ http' = Counted(http)
         /\ doing' = [doing EXCEPT !.text = Append(doing.text, Head(coming))]
  BY DEF BodyByte
<1>2. Head(coming) \in Symbols
  BY <1>0, TailIsText
<1>3. /\ doing'.op = "body" /\ doing'.length = doing.length
      /\ http.iState # eReadingChunkLength => doing'.text = Append(doing.text, Head(coming))
  BY <1>0, <1>1 DEF Calls
<1>4. /\ EndOfHeadersReached(http)' => EndOfHeadersReached(http)
      /\ http'.iContentLength = http.iContentLength
  BY <1>0, <1>1, ChunkLengthFields, CountedFields DEF EndOfHeadersReached
<1>5. AskInv' /\ AwaitInv' /\ HeadersInv'
  BY <1>0, <1>3 DEF AskInv, AwaitInv, HeadersInv, InHeaders
<1>6. StatusInv' /\ BodyIsWhole'
  <2>1. ret.op = "status" /\ ret.value > 0 => ret.value = Number[own.of.code]
    BY <1>0 DEF Followed, StatusInv
  <2>2. StatusInv'
    BY <1>0, <1>3, <2>1 DEF StatusInv
  <2>3. BodyIsWhole /\ alive' = alive
    BY DEF Followed, BodyByte, Mine
  <2>4. BodyIsWhole'
    BY <1>0, <1>4, <2>3, Zenon DEF BodyIsWhole
  <2> QED BY <2>2, <2>4
<1>7. ASSUME Heard, EndOfHeadersReached(http), own.of.length # "none"
      PROVE  InBody(http', coming', own.of)
             /\ Collected(http', own.of, doing'.length, doing'.text)
  <2>1. PICK r \in Responses : r = own.of
    BY <1>0
  <2>2. InBody(http, coming, r) /\ Collected(http, r, doing.length, doing.text)
    BY <1>0, <1>7, <2>1 DEF Followed, BodyInv
  <2>3. http.iBodyLengthConsumed # Len(r.body)
    BY <1>0, <2>2 DEF Collected
  <2>4. CASE http.iState = eReadingChunkLength
    <3>1. PICK g : g = ChunkLength(http, Head(coming))
      OBVIOUS
    <3>2. /\ InBody(g, coming', r) /\ g.iBodyLengthConsumed = http.iBodyLengthConsumed
          /\ g.iState \in {eReadingChunkLength, eReadingBodyChunk}
      BY <1>0, <2>2, <2>3, <2>4, <3>1, SizeReads
    <3>3. Collected(g, r, doing.length, doing.text)
      BY <2>2, <2>4, <3>2 DEF Collected
    <3>4. http' = g /\ doing' = doing
      BY <1>1, <2>4, <3>1
    <3> QED BY <2>1, <3>2, <3>3, <3>4
  <2>5. CASE http.iState # eReadingChunkLength
    <3>1. PICK g : g = Counted(http)
      OBVIOUS
    <3>2. /\ InBody(g, coming', r)
          /\ g.iBodyLengthConsumed = http.iBodyLengthConsumed + 1
          /\ g.iState = eReadingBody => http.iState = eReadingBody
          /\ http.iState = eReadingBody \/ r.chunked =>
               Head(coming) = r.body[http.iBodyLengthConsumed + 1]
      <4>1. http.iState \in {eReadingBody, eReadingBodyChunk}
        BY <1>7, <2>5 DEF EndOfHeadersReached
      <4> QED BY <1>0, <2>2, <2>3, <3>1, <4>1, BodyReads
    <3>3. http.iBodyLengthConsumed \in Nat
      BY <1>0 DEF Fields
    <3>4. Collected(g, r, doing.length, Append(doing.text, Head(coming)))
      BY <1>0, <1>2, <2>2, <3>2, <3>3, CollectedGrows
    <3>5. http' = g
      BY <1>1, <2>5, <3>1
    <3> QED BY <1>3, <2>1, <2>5, <3>2, <3>4, <3>5
  <2> QED BY <2>4, <2>5
<1>8. BodyInv'
  <2>1. ASSUME Heard', EndOfHeadersReached(http)'
        PROVE  Heard /\ EndOfHeadersReached(http)
    BY <1>0, <1>4, <2>1 DEF Heard
  <2>2. Heard /\ EndOfHeadersReached(http) /\ Simple =>
          http.iContentLength = LengthOf(own.of)
    BY <1>0 DEF Followed, BodyInv
  <2>3. Simple' <=> Simple
    BY <1>0 DEF Simple
  <2> QED BY <1>0, <1>4, <1>7, <2>1, <2>2, <2>3 DEF BodyInv
<1> QED BY <1>5, <1>6, <1>8 DEF Followed

LEMMA FollowedBodyReturns ==
  ASSUME HttpTypes, CallInv, Followed, BodyReturns
  PROVE  Followed'
<1>0. /\ http \in Fields /\ coming \in Seq(Symbols) /\ own.of \in Responses
      /\ doing.op = "body" /\ app = "sent"
      /\ UNCHANGED <<app, own, slips, http, coming>>
      /\ doing.text \in Seq(Symbols) /\ doing.length \in Int
      /\ doing'.op = "none" /\ ret'.op = "body"
      /\ ret'.value = IF Body = "null" THEN <<"null">> ELSE doing.text
  BY DEF HttpTypes, CallInv, BodyReturns, Mine, Calls, NoCall
<1>1. AskInv' /\ AwaitInv' /\ HeadersInv' /\ StatusInv'
  BY <1>0 DEF AskInv, AwaitInv, HeadersInv, InHeaders, StatusInv
<1>2. BodyInv'
  BY <1>0 DEF Followed, BodyInv, Heard, Simple, EndOfHeadersReached
<1>3. ASSUME Heard, EndOfHeadersReached(http), own.of.length # "none", Body # "null"
      PROVE  doing.text = own.of.body
  <2>1. PICK r \in Responses : r = own.of
    BY <1>0
  <2>2. InBody(http, coming, r) /\ Collected(http, r, doing.length, doing.text)
    BY <1>0, <1>3, <2>1 DEF Followed, BodyInv
  <2>3. doing.length > 0 => doing.length = Len(doing.text)
    BY <1>3 DEF Body
  <2> QED BY <1>0, <2>1, <2>2, <2>3, CollectedIsBody
<1>4. BodyIsWhole'
  BY <1>0, <1>3 DEF BodyIsWhole, Heard, EndOfHeadersReached
<1> QED BY <1>1, <1>2, <1>4 DEF Followed

\* The connection ends.
LEMMA FollowedClosed ==
  ASSUME HttpTypes, Followed, coming' \in {coming, <<>>},
         UNCHANGED <<http, app, doing, ret, own, slips, alive>>
  PROVE  Followed'
<1>1. AskInv' /\ AwaitInv' /\ StatusInv'
  BY DEF Followed, AskInv, AwaitInv, StatusInv, EndOfHeadersReached, Simple
<1>2. HeadersInv' /\ BodyIsWhole'
  BY DEF Followed, HeadersInv, BodyIsWhole, EndOfHeadersReached, Simple, Heard, InHeaders
<1>3. BodyInv'
  <2>1. http \in Fields /\ coming \in Seq(Symbols) /\ own.of \in Responses
    BY DEF HttpTypes
  <2>2. InBody(http, coming, own.of) => InBody(http, <<>>, own.of)
    BY <2>1, BodyIsCut
  <2> QED BY <2>2 DEF Followed, BodyInv, EndOfHeadersReached, Simple, Heard
<1> QED BY <1>1, <1>2, <1>3 DEF Followed

LEMMA ResponseKept ==
  ASSUME HttpTypes, CallInv, ResponseInv, [HttpNext]_httpVars
  PROVE  ResponseInv'
<1>0. alive' = alive
  BY StartCases DEF HttpTypes, HttpNext, httpVars, connVars, BeginRequest, Request, SendHeader,
     BeginBody, Write, EndRequest, Finish, Stop, StatusBegins, StatusByte, StatusTimesOut,
     HeadersBegin, HeaderByte, HeaderNothing, HeadersTimeOut, BodyBegins, BodyByte,
     BodyReturns, Done, ServerCloses, Mine
<1> SUFFICES ASSUME ~ alive, ~ Unstarted' PROVE Followed'
  BY <1>0 DEF ResponseInv
<1>1. ~ Unstarted => Followed
  BY DEF ResponseInv
<1>2. CASE BeginRequest \/ Stop \/ Done
  <2>1. app' \in {"begun", "free"}
    BY <1>2 DEF BeginRequest, Stop, Done
  <2> QED BY <2>1, FollowedAsking DEF AskInv
<1>3. CASE Request
  BY <1>3, FollowedStart DEF Request
<1>4. CASE SendHeader
  <2>1. app = "headers" /\ app' = "headers" /\ coming' = coming
    BY <1>4 DEF SendHeader, connVars
  <2>2. ~ Unstarted
    BY <1>4 DEF SendHeader, Unstarted
  <2> QED BY <1>1, <2>1, <2>2, FollowedAsking DEF Followed, AskInv
<1>5. CASE BeginBody \/ Write \/ EndRequest
  <2>1. ~ Unstarted
    BY <1>5, FinishIs DEF BeginBody, Write, EndRequest, Unstarted
  <2> QED BY <1>1, <1>5, <2>1, FollowedFinish DEF BeginBody, Write, EndRequest
<1>6. CASE StatusBegins
  BY <1>1, <1>6, FollowedStatusBegins DEF StatusBegins, Mine, Unstarted
<1>7. CASE StatusByte
  BY <1>1, <1>7, FollowedStatusByte DEF StatusByte, Mine, Unstarted
<1>8. CASE StatusTimesOut
  BY <1>1, <1>8, FollowedStatusTimesOut DEF StatusTimesOut, Mine, Unstarted
<1>9. CASE HeadersBegin("headers") \/ HeadersBegin("line")
  BY <1>1, <1>9, FollowedHeadersBegin DEF HeadersBegin, Mine, Unstarted
<1>10. CASE HeaderByte
  BY <1>1, <1>10, FollowedHeaderByte DEF HeaderByte, Mine, Unstarted
<1>11. CASE HeaderNothing
  BY <1>1, <1>11, FollowedHeaderNothing DEF HeaderNothing, Unstarted
<1>12. CASE HeadersTimeOut
  BY <1>1, <1>12, FollowedHeadersTimeOut DEF HeadersTimeOut, Mine, Unstarted
<1>13. CASE BodyBegins
  BY <1>1, <1>13, FollowedBodyBegins DEF BodyBegins, Mine, Unstarted
<1>14. CASE BodyByte
  BY <1>1, <1>14, FollowedBodyByte DEF BodyByte, Mine, Unstarted
<1>15. CASE BodyReturns
  BY <1>1, <1>15, FollowedBodyReturns DEF BodyReturns, Mine, Unstarted
<1>16. CASE ServerCloses
  BY <1>1, <1>16, FollowedClosed DEF ServerCloses, Unstarted
<1>17. CASE UNCHANGED httpVars
  BY <1>1, <1>17, FollowedClosed DEF httpVars, connVars, Unstarted
<1> QED BY <1>2, <1>3, <1>4, <1>5, <1>6, <1>7, <1>8, <1>9, <1>10, <1>11, <1>12, <1>13, <1>14,
           <1>15, <1>16, <1>17 DEF HttpNext

LEMMA ResponseInvariant ==
  HttpSpec => [](HttpTypes /\ CallInv /\ ResponseInv)
<1> DEFINE Inv == HttpTypes /\ CallInv /\ ResponseInv
<1>1. HttpInit => Inv
  <2>1. HttpInit => ResponseInv
    BY DEF HttpInit, ResponseInv, Unstarted, Followed, AskInv, AwaitInv, StatusInv,
           HeadersInv, BodyInv, BodyIsWhole
  <2> QED BY <2>1, HttpTypeInit, CallInit
<1>2. Inv /\ [HttpNext]_httpVars => Inv'
  BY HttpTypeStep, CallStep, ResponseKept
<1> QED BY <1>1, <1>2, PTL DEF HttpSpec

\* On a connection of its own a request that was started gets the status of its own
\* response, and contentLength() is the announced length, whatever was left of the responses
\* before and wherever the connection ends; without an announced one a simple request is told
\* that there is none.
THEOREM ResponsesAreOwn ==
  HttpSpec => []ResponseIsOwn
BY ResponseInvariant, FollowedIsOwn, PTL

\* responseBody() returns the body whose length was announced, whole, or nothing.
THEOREM BodiesAreWhole ==
  HttpSpec => []BodyIsWhole
BY ResponseInvariant, FollowedIsOwn, PTL

=============================================================================
