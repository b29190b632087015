------------------------------ MODULE JsonText ------------------------------
(***************************************************************************)
(* JSON text: reading it into a document (Json/JsonDeserializer.hpp, with  *)
(* its latch, escape sequences, UTF-16 and UTF-8, the filter and the       *)
(* nesting limit) and writing a document (Json/JsonSerializer.hpp,         *)
(* Json/PrettyJsonSerializer.hpp, Json/TextFormatter.hpp).  The functions  *)
(* of the parser take its state and return the next one; after an error    *)
(* the state is passed on as it is.  Comments are compiled out.            *)
(***************************************************************************)
EXTENDS JsonMemory

CONSTANTS
  NestingLimit,   \* ARDUINOJSON_DEFAULT_NESTING_LIMIT (10)
  WordSize        \* characters of a word that are kept (63)
ASSUME TextAssumption == NestingLimit \in Nat /\ WordSize \in Nat \ {0}

Quote == 34
Apostrophe == 39
Comma == 44
Colon == 58
OpenArray == 91
Backslash == 92
CloseArray == 93
OpenObject == 123
CloseObject == 125
Spaces == {32, 9, 13, 10}

(***************************************************************************)
(* The filter: a document, of which only the value matters.                *)
(***************************************************************************)
AllowAll == Tree("bool", <<1, 0>>, <<>>, <<>>)
IsTrue(f) == f.kind \in {"bool", "number"} /\ f.num = <<1, 0>>
Allow(f) == IF f.kind \in {"bool", "number"} THEN f.num # <<0, 0>> ELSE f.kind # "null"
AllowArray(f) == IsTrue(f) \/ f.kind = "array"
AllowObject(f) == IsTrue(f) \/ f.kind = "object"

MemberOf(t, chars) ==
  LET same == SelectSeq(t.items, LAMBDA x : x.key = chars)
  IN IF t.kind = "object" /\ same # <<>> THEN same[1].value ELSE NullTree
Star == <<42>>
OrStar(f, member) == IF member.kind = "null" THEN MemberOf(f, Star) ELSE member
MemberFilter(f, chars) == IF IsTrue(f) THEN f ELSE OrStar(f, MemberOf(f, chars))
ElementFilter(f) ==
  IF IsTrue(f) THEN f
  ELSE OrStar(f, IF f.kind = "array" /\ f.items # <<>> THEN f.items[1].value ELSE NullTree)

(***************************************************************************)
(* The state of a parser: the memory, whose "outside" is the text, the     *)
(* place of the next character, the error, whether something was found,    *)
(* the string being built and, when strings are moved within the text      *)
(* (inPlace), where it begins and where the next character goes.  A ghost  *)
(* tells that a key came again.                                            *)
(***************************************************************************)
Parser(text, cap, inPlace) ==
  [m |-> [NewMemory(cap) EXCEPT !.outside = text], pos |-> 1, err |-> "Ok", found |-> FALSE,
   build |-> <<>>, capacity |-> 0, inPlace |-> inPlace, from |-> 1, to |-> 1, again |-> FALSE]

Fail(p, e) == [p EXCEPT !.err = e]
Do(p, Op(_)) == IF p.err = "Ok" THEN Op(p) ELSE p
Current(p) == CharAt(p.m.outside, p.pos)
Move(p) == [p EXCEPT !.pos = @ + 1]

\* StringCopier and StringMover.
StartString(p) ==
  IF p.inPlace THEN [p EXCEPT !.from = p.to]
  ELSE [p EXCEPT !.build = <<>>, !.capacity = Free(p.m), !.m.over = @ \/ Free(p.m) = 0]
AppendChar(p, c) ==
  IF p.inPlace THEN [p EXCEPT !.m.outside[p.to] = c, !.to = @ + 1]
  ELSE IF Len(p.build) + 1 < p.capacity THEN [p EXCEPT !.build = Append(@, c)]
  ELSE [p EXCEPT !.m.over = TRUE]
StringIsValid(p) == p.inPlace \/ ~ p.m.over
StringText(p) == IF p.inPlace THEN SubSeq(p.m.outside, p.from, p.to - 1) ELSE p.build
Terminated(p) == IF p.inPlace THEN [p EXCEPT !.m.outside[p.to] = 0] ELSE p
SaveBuilt(p) ==
  IF p.inPlace THEN [Terminated(p) EXCEPT !.to = @ + 1]
  ELSE [p EXCEPT !.m.strings = @ \union {p.build}]
SavedString(p) == IF p.inPlace THEN InBuffer(p.from, p.to - p.from) ELSE Copied(p.build)

RECURSIVE SkipSpaces(_)
SkipSpaces(p) ==
  IF Current(p) = 0 THEN Fail(p, IF p.found THEN "IncompleteInput" ELSE "EmptyInput")
  ELSE IF Current(p) \in Spaces THEN SkipSpaces(Move(p))
  ELSE [p EXCEPT !.found = TRUE]

(***************************************************************************)
(* Strings.                                                                *)
(***************************************************************************)
Escapes == <<<<47, 47>>, <<34, 34>>, <<92, 92>>, <<98, 8>>, <<102, 12>>, <<110, 10>>, <<114, 13>>,
             <<116, 9>>>>
unescapeChar(c) ==
  LET same == SelectSeq(Escapes, LAMBDA x : x[1] = c) IN IF same = <<>> THEN 0 ELSE same[1][2]
escapeChar(c) ==
  LET same == SelectSeq(Tail(Escapes), LAMBDA x : x[2] = c)
  IN IF same = <<>> THEN 0 ELSE same[1][1]

\* In a byte; the characters after "9", and those around "A", count as digits too.
decodeHex(c) ==
  LET upper == IF (c \div 32) % 2 = 1 THEN c - 32 ELSE c
  IN IF c < 65 THEN (c - 48) % 256 ELSE (upper - 55) % 256

\* (Bug: the end of the text is one more wrong digit.)
RECURSIVE Hex4NoEnd(_, _, _)
Hex4NoEnd(p, i, unit) ==
  IF i = 4 THEN [p |-> p, unit |-> unit]
  ELSE IF decodeHex(Current(p)) > 15 THEN [p |-> Fail(p, "InvalidInput"), unit |-> unit]
  ELSE Hex4NoEnd(Move(p), i + 1, unit * 16 + decodeHex(Current(p)))
RECURSIVE Hex4(_, _, _)
Hex4(p, i, unit) ==
  IF i = 4 THEN [p |-> p, unit |-> unit]
  ELSE IF Current(p) = 0 THEN [p |-> Fail(p, "IncompleteInput"), unit |-> unit]
  ELSE IF decodeHex(Current(p)) > 15 THEN [p |-> Fail(p, "InvalidInput"), unit |-> unit]
  ELSE Hex4(Move(p), i + 1, unit * 16 + decodeHex(Current(p)))

IsHighSurrogate(unit) == unit \in 55296..56319
IsLowSurrogate(unit) == unit \in 56320..57343
\* A low surrogate joins the last high one of the string, or zero.
Codepoint(high, unit) == IF IsLowSurrogate(unit) THEN 65536 + high * 1024 + (unit % 1024) ELSE unit

EncodeCodepoint(c) ==
  LET c16 == (c \div 64) % 65536
      low == 128 + (c % 64)
      middle == 128 + (c16 % 64)
  IN IF c < 128 THEN <<c>>
     ELSE IF c16 < 32 THEN <<192 + c16, low>>
     ELSE IF c16 \div 64 < 16 THEN <<224 + (c16 \div 64), middle, low>>
     ELSE <<240 + (c16 \div 4096), 128 + ((c16 \div 64) % 64), middle, low>>
AppendAll(p, chars) == FoldLeft(AppendChar, p, chars)

RECURSIVE Quoted(_, _, _)
Quoted(p, stop, high) ==
  LET c == Current(p)
      q == Move(p)
      e == Current(q)
      h == Hex4(Move(q), 0, 0)
  IN IF c = stop THEN IF StringIsValid(q) THEN q ELSE Fail(q, "NoMemory")
     ELSE IF c = 0 THEN Fail(q, "IncompleteInput")
     ELSE IF c # Backslash THEN Quoted(AppendChar(q, c), stop, high)
     ELSE IF e = 0 THEN Fail(q, "IncompleteInput")
     ELSE IF e = 117
          THEN IF h.p.err # "Ok" THEN h.p
               ELSE IF IsHighSurrogate(h.unit) THEN Quoted(h.p, stop, h.unit % 1024)
               ELSE Quoted(AppendAll(h.p, EncodeCodepoint(Codepoint(high, h.unit))), stop, high)
     ELSE IF unescapeChar(e) = 0 THEN Fail(q, "InvalidInput")
     ELSE Quoted(AppendChar(Move(q), unescapeChar(e)), stop, high)

QuotedString(p) == Quoted(Move(p), Current(p), 0)

InWord(c) == c \in (48..57) \union (95..122) \union (65..90) \union {Plus, Minus, Dot}
RECURSIVE Unquoted(_)
Unquoted(p) ==
  IF InWord(Current(p)) THEN Unquoted(AppendChar(Move(p), Current(p)))
  ELSE IF StringIsValid(p) THEN p ELSE Fail(p, "NoMemory")

ParseKey(p) ==
  IF Current(p) \in {Quote, Apostrophe} THEN QuotedString(StartString(p))
  ELSE IF InWord(Current(p)) THEN Unquoted(StartString(p))
  ELSE Fail(StartString(p), "InvalidInput")

ParseStringValue(p, v) ==
  LET Store(q) == [SaveBuilt(q) EXCEPT !.m = SetString(@, v, SavedString(q))]
  IN Do(QuotedString(StartString(p)), Store)

\* (Bug: a quote after a backslash ends the string.)
RECURSIVE SkipToQuote(_, _)
SkipToQuote(p, stop) ==
  IF Current(p) = stop THEN Move(p)
  ELSE IF Current(p) = 0 THEN Fail(Move(p), "IncompleteInput")
  ELSE SkipToQuote(Move(p), stop)
RECURSIVE SkipQuoted(_, _)
SkipQuoted(p, stop) ==
  IF Current(p) = stop THEN Move(p)
  ELSE IF Current(p) = 0 THEN Fail(Move(p), "IncompleteInput")
  ELSE SkipQuoted(IF Current(p) = Backslash /\ Current(Move(p)) # 0 THEN Move(Move(p)) ELSE Move(p),
                  stop)

(***************************************************************************)
(* Words: the literals and the numbers.  Only the first letter and the     *)
(* length of true, false and null are looked at, and null leaves the       *)
(* variant as it is.                                                       *)
(***************************************************************************)
RECURSIVE WordFrom(_, _, _)
WordFrom(text, i, n) ==
  IF n > 0 /\ InWord(CharAt(text, i)) THEN <<text[i]>> \o WordFrom(text, i + 1, n - 1) ELSE <<>>

ParseNumericValue(p, v) ==
  LET word == WordFrom(p.m.outside, p.pos, WordSize)
      q == [p EXCEPT !.pos = @ + Len(word)]
      number == ParseNumber(word)
      Sized(r, n) == IF Len(word) = n THEN r ELSE Fail(r, "IncompleteInput")
  IN CASE CharAt(word, 1) = 116 -> Sized([q EXCEPT !.m = SetBoolean(@, v, TRUE)], 4)
       [] CharAt(word, 1) = 102 -> Sized([q EXCEPT !.m = SetBoolean(@, v, FALSE)], 5)
       [] CharAt(word, 1) = 110 -> Sized(q, 4)
       [] OTHER -> IF number.ok THEN [q EXCEPT !.m = SetNumber(@, v, number.num)]
                   ELSE Fail(q, "InvalidInput")

RECURSIVE SkipNumericValue(_)
SkipNumericValue(p) == IF InWord(Current(p)) THEN SkipNumericValue(Move(p)) ELSE p

(***************************************************************************)
(* Arrays and objects.                                                     *)
(***************************************************************************)
\* After a value: the end of the collection, or a comma and more of it.
AfterValue(p, close, More(_)) ==
  LET Next(q) == IF Current(q) = close THEN Move(q)
                 ELSE IF Current(q) = Comma THEN More(Move(q))
                 ELSE Fail(q, "InvalidInput")
  IN Do(Do(p, SkipSpaces), Next)

Enter(p, n, close, More(_)) ==
  LET Next(q) == IF Current(q) = close THEN Move(q) ELSE More(q)
  IN IF n = 0 THEN Fail(p, "TooDeep") ELSE Do(SkipSpaces(Move(p)), Next)

RECURSIVE SkipVariant(_, _), SkipElements(_, _), SkipMembers(_, _)
SkipArray(p, n) == IF n = 0 THEN Fail(p, "TooDeep") ELSE SkipElements(Move(p), n - 1)
SkipObject(p, n) == Enter(p, n, CloseObject, LAMBDA q : SkipMembers(q, n - 1))

\* What is skipped is read less closely: "[,]" and keys that are arrays pass.
SkipKnown(p, n) ==
  CASE Current(p) = OpenArray -> SkipArray(p, n)
    [] Current(p) = OpenObject -> SkipObject(p, n)
    [] Current(p) \in {Quote, Apostrophe} -> SkipQuoted(Move(p), Current(p))
    [] OTHER -> SkipNumericValue(p)
SkipVariant(p, n) == Do(SkipSpaces(p), LAMBDA q : SkipKnown(q, n))
SkipElements(p, n) == AfterValue(SkipVariant(p, n), CloseArray, LAMBDA q : SkipElements(q, n))
SkipMembers(p, n) ==
  LET AfterKey(q) == IF Current(q) = Colon THEN SkipVariant(Move(q), n) ELSE Fail(q, "InvalidInput")
  IN AfterValue(Do(Do(SkipVariant(p, n), SkipSpaces), AfterKey), CloseObject,
                LAMBDA q : SkipMembers(q, n))

RECURSIVE ParseVariant(_, _, _, _), ParseElements(_, _, _, _), ParseMembers(_, _, _, _)
ParseArray(p, a, f, n) ==
  Enter(p, n, CloseArray, LAMBDA q : ParseElements(q, a, ElementFilter(f), n - 1))
ParseObject(p, o, f, n) == Enter(p, n, CloseObject, LAMBDA q : ParseMembers(q, o, f, n - 1))

ParseKnown(p, v, f, n) ==
  LET c == Current(p)
  IN IF c = OpenArray
     THEN IF AllowArray(f) THEN ParseArray([p EXCEPT !.m = ToArray(@, v)], v, f, n)
          ELSE SkipArray(p, n)
     ELSE IF c = OpenObject
     THEN IF AllowObject(f) THEN ParseObject([p EXCEPT !.m = ToObject(@, v)], v, f, n)
          ELSE SkipObject(p, n)
     ELSE IF c \in {Quote, Apostrophe}
     THEN IF IsTrue(f) THEN ParseStringValue(p, v) ELSE SkipQuoted(Move(p), c)
     ELSE IF IsTrue(f) THEN ParseNumericValue(p, v) ELSE SkipNumericValue(p)
ParseVariant(p, v, f, n) == Do(SkipSpaces(p), LAMBDA q : ParseKnown(q, v, f, n))

ParseElements(p, a, f, n) ==
  LET s == AddSlot(p.m, a)
      q == [p EXCEPT !.m = s.m]
      value == IF ~ Allow(f) THEN SkipVariant(p, n)
               ELSE IF s.id = Null THEN Fail(q, "NoMemory") ELSE ParseVariant(q, s.id, f, n)
  IN AfterValue(value, CloseArray, LAMBDA r : ParseElements(r, a, f, n))

\* The value of a key: of the member that has the key already, or of a new one, for
\* which the key is stored before the slot.
ParseMember(p, o, f, n) ==
  LET key == StringText(p)
      old == MemberSlot(p.m, o, key)
      named == SaveBuilt(p)
      Keyed(s) == IF s.id = Null THEN s
                  ELSE [s EXCEPT !.m.vars[s.id].key = SavedString(p)]
      Into(q, s) == IF s.id = Null THEN Fail([q EXCEPT !.m = s.m], "NoMemory")
                    ELSE ParseVariant([q EXCEPT !.m = s.m], s.id, f, n)
  IN Into(IF old # Null THEN [p EXCEPT !.again = TRUE] ELSE named,
          IF old # Null THEN [m |-> p.m, id |-> old] ELSE Keyed(AddSlot(named.m, o)))

ParseMembers(p, o, f, n) ==
  LET Valued(q) ==
        LET g == MemberFilter(f, StringText(q))
        IN IF Current(q) # Colon THEN Fail(q, "InvalidInput")
           ELSE IF Allow(g) THEN ParseMember(Terminated(Move(q)), o, g, n)
           ELSE SkipVariant(Terminated(Move(q)), n)
  IN AfterValue(Do(Do(ParseKey(p), SkipSpaces), Valued), CloseObject,
                LAMBDA r : Do(SkipSpaces(r), LAMBDA t : ParseMembers(t, o, f, n)))

\* Only after a number is the rest of the text looked at.
ParseJson(p, f) ==
  LET Ends(q) == IF Current(q) # 0 /\ TypeAt(q.m, Root) = "number"
                 THEN Fail(q, "InvalidInput") ELSE q
  IN Do(ParseVariant(p, Root, f, NestingLimit), Ends)

\* deserializeJson(), with a filter or with one that allows all, of a text that is read
\* only or of one that is also where the strings are kept.
DeserializeJson(text, cap, f, inPlace) == ParseJson(Parser(text, cap, inPlace), f)

(***************************************************************************)
(* Writing.                                                                *)
(***************************************************************************)
\* (Bug: a quote is written as it is.)
WritePlainChar(c) == <<c>>
WriteChar(c) ==
  IF escapeChar(c) # 0 THEN <<Backslash, escapeChar(c)>>
  ELSE IF c = 0 THEN <<Backslash, 117, 48, 48, 48, 48>> ELSE <<c>>
WriteString(chars) ==
  <<Quote>> \o FoldLeft(LAMBDA acc, c : acc \o WriteChar(c), <<>>, chars) \o <<Quote>>
TrueWord == <<116, 114, 117, 101>>
FalseWord == <<102, 97, 108, 115, 101>>

WriteScalar(m, i) ==
  LET v == m.vars[i]
  IN CASE v.type = "null" -> NullWord
       [] v.type = "bool" -> IF v.num.m = 1 THEN TrueWord ELSE FalseWord
       [] v.type = "number" -> WriteNumber(v.num)
       [] v.type = "string" -> WriteString(TextOf(m, v.str))
       [] v.type = "raw" -> v.str.chars

Joined(parts, between) ==
  FoldLeft(LAMBDA acc, x : IF acc = <<>> THEN x ELSE acc \o between \o x, <<>>, parts)

RECURSIVE WriteJson(_, _)
WriteJson(m, i) ==
  LET slots == SlotsOf(m, i)
      Member(j) == WriteString(KeyOf(m, j)) \o <<Colon>> \o WriteJson(m, j)
  IN CASE TypeAt(m, i) = "array" ->
            <<OpenArray>> \o Joined([k \in DOMAIN slots |-> WriteJson(m, slots[k])], <<Comma>>)
            \o <<CloseArray>>
       [] TypeAt(m, i) = "object" ->
            <<OpenObject>> \o Joined([k \in DOMAIN slots |-> Member(slots[k])], <<Comma>>)
            \o <<CloseObject>>
       [] OTHER -> WriteScalar(m, i)

NewLine == <<13, 10>>
Indent(n) == [k \in 1..(2 * n) |-> 32]
RECURSIVE WritePretty(_, _, _)
WritePretty(m, i, nesting) ==
  LET slots == SlotsOf(m, i)
      object == TypeAt(m, i) = "object"
      Line(j) == Indent(nesting + 1)
                 \o (IF object THEN WriteString(KeyOf(m, j)) \o <<Colon, 32>> ELSE <<>>)
                 \o WritePretty(m, j, nesting + 1)
      inside == IF slots = <<>> THEN <<>>
                ELSE NewLine \o Joined([k \in DOMAIN slots |-> Line(slots[k])], <<Comma>> \o NewLine)
                     \o NewLine \o Indent(nesting)
  IN IF object THEN <<OpenObject>> \o inside \o <<CloseObject>>
     ELSE IF TypeAt(m, i) = "array" THEN <<OpenArray>> \o inside \o <<CloseArray>>
     ELSE WriteScalar(m, i)
=============================================================================
