----------------------------- MODULE JsonMsgPack -----------------------------
(***************************************************************************)
(* MessagePack: reading it into a document (MsgPack/MsgPackDeserializer)   *)
(* and writing a document (MsgPack/MsgPackSerializer).  The parser is that *)
(* of JsonText; what it reads are bytes.  Integers of eight bytes are read *)
(* and written, as ARDUINOJSON_USE_LONG_LONG, which the sketch defines,    *)
(* makes them.  The bits of a float are left out: its four or eight bytes  *)
(* carry the sign, the exponent and the mantissa of the decimal value.     *)
(***************************************************************************)
EXTENDS JsonText

(***************************************************************************)
(* Bytes.                                                                  *)
(***************************************************************************)
\* A size above MaxSize is as good as any other: no input is that long.
MaxSize == 2^20
BigEndian(bytes) ==
  FoldLeft(LAMBDA n, b : IF n >= MaxSize THEN n ELSE n * 256 + b, 0, bytes)
BytesOf(n, width) == [k \in 1..width |-> (n \div 256^(width - k)) % 256]

UnsignedOf(bytes) ==
  LET kept == IF Len(bytes) < IntBits \div 8 THEN Len(bytes) ELSE IntBits \div 8
  IN BigEndian(SubSeq(bytes, Len(bytes) - kept + 1, Len(bytes)))
SignedOf(bytes) ==
  LET n == UnsignedOf(bytes)
      bits == IF 8 * Len(bytes) < IntBits THEN 8 * Len(bytes) ELSE IntBits
  IN IF n >= 2^(bits - 1) THEN n - 2^bits ELSE n

FloatBytes(n, width) ==
  <<(IF n.m < 0 THEN 128 ELSE 0) + n.e + 32>> \o BytesOf(AbsInt(n.m), 3)
  \o [k \in 1..(width - 4) |-> 0]
FloatOf(bytes) ==
  LET m == BigEndian(SubSeq(bytes, 2, 4))
      e == (bytes[1] % 128) - 32
      n == [kind |-> "float", m |-> IF bytes[1] >= 128 THEN -m ELSE m, e |-> e]
  IN IF e = 2 * ExponentMax THEN n ELSE Decimal("float", n.m, e)

(***************************************************************************)
(* Reading.                                                                *)
(***************************************************************************)
Incomplete(p) == Fail(p, "IncompleteInput")
Has(p, n) == p.pos + n - 1 <= Len(p.m.outside)
ReadBytes(p, n, Use(_, _)) ==
  IF Has(p, n) THEN Use([p EXCEPT !.pos = @ + n], SubSeq(p.m.outside, p.pos, p.pos + n - 1))
  ELSE Incomplete(p)
SkipBytes(p, n) == IF Has(p, n) THEN [p EXCEPT !.pos = @ + n] ELSE Incomplete(p)

\* A size of so many bytes, and what follows it.
Sized(p, width, Use(_, _)) == ReadBytes(p, width, LAMBDA q, bytes : Use(q, BigEndian(bytes)))

ReadChars(p, n) ==
  LET Build(q, bytes) == IF StringIsValid(AppendAll(StartString(q), bytes))
                         THEN AppendAll(StartString(q), bytes) ELSE Fail(q, "NoMemory")
  IN ReadBytes(p, n, Build)
ReadString(p, v, n) ==
  Do(ReadChars(p, n), LAMBDA q : [SaveBuilt(q) EXCEPT !.m = SetString(@, v, SavedString(q))])
ReadInteger(p, v, width, signed) ==
  LET Of(bytes) == IF signed THEN Decimal("int", SignedOf(bytes), 0)
                   ELSE Decimal("uint", UnsignedOf(bytes), 0)
  IN ReadBytes(p, width, LAMBDA q, bytes : [q EXCEPT !.m = SetNumber(@, v, Of(bytes))])
ReadFloat(p, v, width) ==
  ReadBytes(p, width, LAMBDA q, bytes : [q EXCEPT !.m = SetNumber(@, v, FloatOf(bytes))])

ReadKeyCode(p, c) ==
  IF c \in 160..191 THEN ReadChars(p, c - 160)
  ELSE IF c \in 217..219 THEN Sized(p, 2^(c - 217), ReadChars)
  ELSE Fail(p, "InvalidInput")
ReadKey(p) == ReadBytes(p, 1, LAMBDA q, bytes : ReadKeyCode(q, bytes[1]))

RECURSIVE ReadVariant(_, _, _, _), ReadElements(_, _, _, _, _), ReadMembers(_, _, _, _, _)
ReadArray(p, v, k, f, n) ==
  IF n = 0 THEN Fail(p, "TooDeep")
  ELSE ReadElements(IF AllowArray(f) THEN [p EXCEPT !.m = ToArray(@, v)] ELSE p,
                    v, k, ElementFilter(f), n - 1)
ReadElements(p, a, k, f, n) ==
  LET Into(s) == IF Allow(f) /\ s.id = Null THEN Fail([p EXCEPT !.m = s.m], "NoMemory")
                 ELSE ReadVariant([p EXCEPT !.m = s.m], s.id, f, n)
      value == Into(IF Allow(f) THEN AddSlot(p.m, a) ELSE Nothing(p.m))
  IN IF k = 0 THEN p ELSE Do(value, LAMBDA r : ReadElements(r, a, k - 1, f, n))

ReadObject(p, v, k, f, n) ==
  IF n = 0 THEN Fail(p, "TooDeep")
  ELSE ReadMembers(IF AllowObject(f) THEN [p EXCEPT !.m = ToObject(@, v)] ELSE p, v, k, f, n - 1)

\* A key that comes again makes a second member.
ReadMember(p, o, f, n) ==
  LET named == SaveBuilt(p)
      s == AddSlot(named.m, o)
      q == [named EXCEPT !.m = s.m, !.again = @ \/ MemberSlot(p.m, o, StringText(p)) # Null]
  IN IF s.id = Null THEN Fail(q, "NoMemory")
     ELSE ReadVariant([q EXCEPT !.m.vars[s.id].key = SavedString(p)], s.id, f, n)
ReadMembers(p, o, k, f, n) ==
  LET Valued(q) ==
        LET g == MemberFilter(f, StringText(q))
        IN IF Allow(g) THEN ReadMember(Terminated(q), o, g, n)
           ELSE ReadVariant(Terminated(q), Null, g, n)
  IN IF k = 0 THEN p
     ELSE Do(Do(ReadKey(p), Valued), LAMBDA r : ReadMembers(r, o, k - 1, f, n))

\* What is not supported is skipped, and leaves null.
ReadCode(p, v, f, n, c) ==
  LET value == IsTrue(f)
  IN CASE c = 192 -> p
       [] c = 193 -> Fail(p, "InvalidInput")
       [] c \in 194..195 -> IF value THEN [p EXCEPT !.m = SetBoolean(@, v, c = 195)] ELSE p
       [] c \in 196..198 -> Sized(p, 2^(c - 196), SkipBytes)
       [] c \in 199..201 -> Sized(p, 2^(c - 199), LAMBDA q, k : SkipBytes(q, k + 1))
       [] c \in 202..203 -> IF value THEN ReadFloat(p, v, 2^(c - 200)) ELSE SkipBytes(p, 2^(c - 200))
       [] c \in 204..207 -> IF value THEN ReadInteger(p, v, 2^(c - 204), FALSE)
                            ELSE SkipBytes(p, 2^(c - 204))
       [] c \in 208..211 -> IF value THEN ReadInteger(p, v, 2^(c - 208), TRUE)
                            ELSE SkipBytes(p, 2^(c - 208))
       [] c \in 212..216 -> SkipBytes(p, 2^(c - 212) + 1)
       [] c \in 217..219 -> Sized(p, 2^(c - 217), LAMBDA q, k : IF value THEN ReadString(q, v, k)
                                                               ELSE SkipBytes(q, k))
       [] c \in 160..191 -> IF value THEN ReadString(p, v, c - 160) ELSE SkipBytes(p, c - 160)
       [] c \in 220..221 -> Sized(p, 2^(c - 219), LAMBDA q, k : ReadArray(q, v, k, f, n))
       [] c \in 144..159 -> ReadArray(p, v, c - 144, f, n)
       [] c \in 222..223 -> Sized(p, 2^(c - 221), LAMBDA q, k : ReadObject(q, v, k, f, n))
       [] c \in 128..143 -> ReadObject(p, v, c - 128, f, n)
       [] OTHER -> IF value THEN [p EXCEPT !.m = SetNumber(@, v, Decimal("int", SignedOf(<<c>>), 0))]
                   ELSE p
ReadVariant(p, v, f, n) ==
  ReadBytes(p, 1, LAMBDA q, bytes : ReadCode([q EXCEPT !.found = TRUE], v, f, n, bytes[1]))

ParseMsgPack(p, f) ==
  LET Found(q) == IF q.found THEN q ELSE Fail(q, "EmptyInput")
  IN Found(ReadVariant(p, Root, f, NestingLimit))

\* deserializeMsgPack(), as deserializeJson().
DeserializeMsgPack(bytes, cap, f, inPlace) == ParseMsgPack(Parser(bytes, cap, inPlace), f)

(***************************************************************************)
(* Writing.                                                                *)
(***************************************************************************)
\* The shortest of the headers for a size: in the code, or in two or four bytes.
PackSize(n, fix, fixMax, two) ==
  IF n <= fixMax THEN <<fix + n>>
  ELSE IF n < 65536 THEN <<two>> \o BytesOf(n, 2) ELSE <<two + 1>> \o BytesOf(n, 4)
PackString(chars) ==
  LET n == Len(chars)
  IN (IF n \in 32..255 THEN <<217, n>> ELSE PackSize(n, 160, 31, 218)) \o chars

PackUnsigned(n) ==
  IF n < 128 THEN <<n>> ELSE IF n < 256 THEN <<204, n>>
  ELSE IF n < 65536 THEN <<205>> \o BytesOf(n, 2)
  ELSE IF IntBits <= 32 \/ n < 2^32 THEN <<206>> \o BytesOf(n, 4) ELSE <<207>> \o BytesOf(n, 8)
PackSigned(n) ==
  IF n > 0 THEN PackUnsigned(n)
  ELSE IF n >= -32 THEN <<n % 256>>
  ELSE IF n >= -128 THEN <<208, n % 256>>
  ELSE IF n >= -32768 THEN <<209>> \o BytesOf(n % 65536, 2)
  ELSE IF IntBits <= 32 \/ n >= -(2^31) THEN <<210>> \o BytesOf(n, 4)
  ELSE <<211>> \o BytesOf(n, 8)

\* A float of 32 bits holds what is a multiple of a power of two.
FitsFloat32(n) == n.e >= 0 \/ AbsInt(n.m) % 5^(-n.e) = 0
IsWhole(n) == n.e >= 0 /\ n # NotANumber /\ ~ IsInfinite(n)
PackFloat(n) ==
  IF IsWhole(n) /\ canConvertNumber(n, -sintMax, sintMax - 1) THEN PackSigned(IntegerOf(n))
  ELSE IF FitsFloat32(n) THEN <<202>> \o FloatBytes(n, 4) ELSE <<203>> \o FloatBytes(n, 8)
PackNumber(n) ==
  IF n.kind = "float" THEN PackFloat(n)
  ELSE IF n.kind = "int" THEN PackSigned(IntegerOf(n)) ELSE PackUnsigned(IntegerOf(n))

RECURSIVE WriteMsgPack(_, _)
WriteMsgPack(m, i) ==
  LET v == m.vars[i]
      slots == SlotsOf(m, i)
      Member(j) == (IF v.type = "object" THEN PackString(KeyOf(m, j)) ELSE <<>>)
                   \o WriteMsgPack(m, j)
      members == FoldLeft(LAMBDA acc, j : acc \o Member(j), <<>>, slots)
  IN CASE v.type = "array" -> PackSize(Len(slots), 144, 15, 220) \o members
       [] v.type = "object" -> PackSize(Len(slots), 128, 15, 222) \o members
       [] v.type = "string" -> PackString(TextOf(m, v.str))
       [] v.type = "raw" -> v.str.chars
       [] v.type = "number" -> PackNumber(v.num)
       [] v.type = "bool" -> <<194 + v.num.m>>
       [] v.type = "null" -> <<192>>
=============================================================================
