----------------------------- MODULE JsonReading -----------------------------
(***************************************************************************)
(* A program that reads what it receives: after each character it calls    *)
(* deserializeJson() or deserializeMsgPack() on the text it has so far     *)
(* (deserialization/deserialize.hpp).  The properties relate one reading   *)
(* to another: of a longer text, under a filter, in place, and of what the *)
(* serializers write.                                                      *)
(***************************************************************************)
EXTENDS JsonMsgPack

CONSTANTS
  Pieces,     \* for each format, the pieces a text is put together from
  Filters,    \* for each format, filters
  Trailers,   \* what may come after the end of a value
  MaxText,    \* for each format, the characters received
  Capacity    \* of the document that is read into

ASSUME ReadingAssumption ==
  /\ DOMAIN Pieces = DOMAIN Filters /\ DOMAIN Pieces = DOMAIN MaxText
  /\ DOMAIN Pieces \subseteq {"json", "number", "msgpack"}
  /\ MaxText \in [DOMAIN Pieces -> Nat] /\ Capacity \in Nat

VARIABLES
  format,   \* of the text; "number" is a text of one number
  text,
  rest,   \* the rest of the piece that is being received
  parsed,   \* the parser after the text
  extra     \* something has come after a final verdict
readingVars == <<format, text, rest, parsed, extra>>

Deserialize(kind, s, cap, f, inPlace) ==
  IF kind = "msgpack" THEN DeserializeMsgPack(s, cap, f, inPlace)
  ELSE DeserializeJson(s, cap, f, inPlace)

\* A verdict that more text cannot change: of a value that has an end, or an error
\* other than a missing end.  A sign is no number yet.
Ended(p) ==
  IF p.err = "Ok" THEN format = "msgpack" \/ TypeAt(p.m, Root) \in {"array", "object", "string"}
  ELSE p.err \notin {"EmptyInput", "IncompleteInput"} /\ text[Len(text)] \notin {Plus, Minus}

ReadingInit ==
  /\ format \in DOMAIN Pieces
  /\ text = <<>> /\ rest = <<>> /\ extra = FALSE
  /\ parsed = Deserialize(format, text, Capacity, AllowAll, FALSE)

Receive ==
  /\ Len(text) < MaxText[format] /\ (extra => rest # <<>>)
  /\ \E piece \in IF rest # <<>> THEN {rest}
                  ELSE IF text # <<>> /\ Ended(parsed) THEN Trailers ELSE Pieces[format] :
       text' = Append(text, Head(piece)) /\ rest' = Tail(piece)
  /\ parsed' = Deserialize(format, text', Capacity, AllowAll, FALSE)
  /\ extra' = (extra \/ (text # <<>> /\ Ended(parsed)))
  /\ UNCHANGED format

ReadingSpec == ReadingInit /\ [][Receive]_readingVars

(***************************************************************************)
(* Properties.                                                             *)
(***************************************************************************)
\* The parser decides on the characters it has read: what follows the end of an
\* array, an object, a string or a MessagePack value, or the place of an error, changes
\* neither the verdict nor the value.
VerdictIsFinal ==
  [][extra' => parsed'.err = parsed.err /\ Value(parsed'.m, Root) = Value(parsed.m, Root)]_readingVars

\* The part of a value that a filter lets through.
RECURSIVE Project(_, _)
Project(t, f) ==
  LET Item(x, g) == [x EXCEPT !.value = Project(@, g)]
      Kept(x) == Allow(MemberFilter(f, x.key))
  IN CASE t.kind = "array" ->
            IF ~ AllowArray(f) THEN NullTree
            ELSE IF ~ Allow(ElementFilter(f)) THEN [t EXCEPT !.items = <<>>]
            ELSE [t EXCEPT !.items = [k \in DOMAIN @ |-> Item(@[k], ElementFilter(f))]]
       [] t.kind = "object" ->
            IF ~ AllowObject(f) THEN NullTree
            ELSE [t EXCEPT !.items = LET kept == SelectSeq(@, Kept)
                                     IN [k \in DOMAIN kept |->
                                           Item(kept[k], MemberFilter(f, kept[k].key))]]
       [] OTHER -> IF IsTrue(f) THEN t ELSE NullTree

Yields(p, t) == p.err = "Ok" /\ Value(p.m, Root) = t

\* Reading under a filter yields what reading the whole and keeping a part of it would,
\* though what is skipped goes through other functions than what is read.
FilterIsProjection ==
  parsed.err = "Ok" /\ ~ parsed.again =>
    \A f \in Filters[format] :
      Yields(Deserialize(format, text, Capacity, f, FALSE), Project(Value(parsed.m, Root), f))

RECURSIVE NumbersOf(_)
NumbersOf(t) == (IF t.kind = "number" THEN {t.num} ELSE {})
                \union UNION {NumbersOf(t.items[k].value) : k \in DOMAIN t.items}
Finite(t) == \A n \in NumbersOf(t) : n[2] # 2 * ExponentMax

Room == 20 * Capacity
SameAgain(p) == Yields(p, Value(parsed.m, Root)) /\ Equal(parsed.m, Root, p.m, Root)
Written ==
  {<<"json", WriteJson(parsed.m, Root)>>, <<"json", WritePretty(parsed.m, Root, 0)>>,
   <<"msgpack", WriteMsgPack(parsed.m, Root)>>}
SameInPlace(p) ==
  p.err = parsed.err /\ (p.err = "Ok" => Value(p.m, Root) = Value(parsed.m, Root))

\* The strings moved within the text are those that are copied, and what any of the
\* three serializers writes is read as the document it was written from: no string,
\* size or separator of one side is another's on the other side.
SameWhicheverWay ==
  /\ parsed.err # "NoMemory" => SameInPlace(Deserialize(format, text, Capacity, AllowAll, TRUE))
  /\ parsed.err = "Ok" /\ format # "number" /\ Finite(Value(parsed.m, Root)) /\ ~ parsed.again =>
       \A w \in Written : SameAgain(Deserialize(w[1], w[2], Room, AllowAll, FALSE))

\* A literal by the rules of arithmetic: all its digits, those behind the point, and
\* its exponent.
DigitsIn(s) ==
  FoldLeft(LAMBDA n, c : IF isdigit(c) THEN 10 * n + c - 48 ELSE n, 0, s)
PlaceOf(s, Is(_)) == CHOOSE i \in 1..(Len(s) + 1) :
                       /\ i = Len(s) + 1 \/ Is(s[i])
                       /\ \A j \in 1..(i - 1) : ~ Is(s[j])
Before(s, i) == SubSeq(s, 1, i - 1)
After(s, i) == SubSeq(s, i + 1, Len(s))
Literal(s) ==
  LET e == PlaceOf(s, IsExponent)
      mantissa == Before(s, e)
      point == PlaceOf(mantissa, LAMBDA c : c = Dot)
      x == DigitsIn(After(s, e))
  IN [negative |-> s[1] = Minus, digits |-> DigitsIn(mantissa), written |-> x,
      e |-> (IF CharAt(s, e + 1) = Minus THEN -x ELSE x) - Len(After(mantissa, point))]

\* The two cases in which the reader is wrong: a prefix of maxUint \div 10 followed by
\* a digit that is too large is multiplied twice; and an exponent near the limit is judged
\* before the digits that were dropped are counted.  (A third one, that digits behind the
\* point take the places of dropped ones before it, needs a UInt smaller than the mantissa.)
Lapsed(s) == \E i \in 0..(Len(s) - 1) : /\ DigitsIn(Before(s, i + 1)) = maxUint \div 10
                                        /\ isdigit(s[i + 1]) /\ s[i + 1] - 48 > maxUint % 10
                                        /\ \A j \in 1..i : s[j] # Dot /\ ~ IsExponent(s[j])
Extreme(s) == Literal(s).written > ExponentMax - Len(s)

IsCutOf(n, l) ==
  \E k \in 0..Len(text) :
    LET cut == l.digits \div 10^k
    IN /\ k = 0 \/ cut >= MantissaMax \div 10 \/ cut >= maxUint \div 10
       /\ Decimal(n.kind, IF l.negative THEN -cut ELSE cut, l.e + k) = n

\* The number that is read is the one that is written, cut to the digits that a UInt or
\* a Float holds and never one digit earlier; as an integer it is that number without its
\* fraction wherever that is in range; and what is written of it is read as a number that
\* stays the same however often it is written and read again.
NumbersAreExact ==
  format = "number" /\ parsed.err = "Ok" /\ ~ Lapsed(text) /\ ~ Extreme(text) =>
    LET n == parsed.m.vars[Root].num
        l == Literal(text)
        again(x) == ParseNumber(WriteNumber(x)).num
        whole == Truncated(Decimal("int", IF l.negative THEN -l.digits ELSE l.digits, l.e))
        exact == IF n.kind = "float" /\ MantissaMax < sintMax THEN MantissaMax ELSE sintMax
        near == l.e + DigitsOf(l.digits) < DigitsOf(exact)
    IN /\ IsCutOf(n, l)
       /\ near => AsIntegral(parsed.m, Root, -sintMax, sintMax - 1) = whole
       /\ again(again(n)) = again(n)
=============================================================================
