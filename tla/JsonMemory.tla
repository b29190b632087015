----------------------------- MODULE JsonMemory -----------------------------
(***************************************************************************)
(* The memory of an ArduinoJson document (Memory/MemoryPool.hpp) and the   *)
(* variants and collections in it (Variant/, Collection/).  Strings fill   *)
(* the pool from the left and are stored once; slots fill it from the      *)
(* right; nothing is given back before clear().  A memory is a record:     *)
(*   vars     the root variant and the slots, in the order of allocation   *)
(*   strings  the strings of the pool                                      *)
(*   cap      capacity, over: an allocation has failed                     *)
(*   outside  the buffer that linked strings point into (in-place parsing) *)
(* A pointer to a variant is its index in vars, and 0 is the null pointer. *)
(***************************************************************************)
EXTENDS JsonNumbers, FiniteSets, SequencesExt

CONSTANT SlotSize   \* of a VariantSlot, in characters
ASSUME SlotAssumption == SlotSize \in Nat \ {0}

Null == 0
Root == 1

\* A string: copied into the pool or linked, and then perhaps within the buffer.
Copied(chars) == [own |-> TRUE, chars |-> chars, at |-> 0, size |-> Len(chars)]
Linked(chars) == [Copied(chars) EXCEPT !.own = FALSE]
InBuffer(at, size) == [own |-> FALSE, chars |-> <<>>, at |-> at, size |-> size]
NoString == Linked(<<>>)
TextOf(m, s) == IF s.at = 0 THEN s.chars ELSE SubSeq(m.outside, s.at, s.at + s.size - 1)

Zero == Decimal("uint", 0, 0)
FreshVariant == [type |-> "null", num |-> Zero, str |-> NoString, head |-> Null, tail |-> Null,
                 key |-> NoString, next |-> Null]

NewMemory(cap) ==
  [vars |-> <<FreshVariant>>, strings |-> {}, cap |-> cap, over |-> FALSE, outside |-> <<>>]

(***************************************************************************)
(* The pool.                                                               *)
(***************************************************************************)
Used(m) == SlotSize * (Len(m.vars) - 1) + FoldSet(LAMBDA s, n : n + Len(s) + 1, 0, m.strings)
Free(m) == m.cap - Used(m)
Overflow(m) == [m EXCEPT !.over = TRUE]

SaveString(m, chars) ==
  IF chars \in m.strings THEN [m |-> m, ok |-> TRUE]
  ELSE IF Free(m) < Len(chars) + 1 THEN [m |-> Overflow(m), ok |-> FALSE]
  ELSE [m |-> [m EXCEPT !.strings = @ \union {chars}], ok |-> TRUE]

(***************************************************************************)
(* Variants.                                                               *)
(***************************************************************************)
TypeAt(m, i) == IF i = Null THEN "null" ELSE m.vars[i].type

SetContent(m, i, type, num, str) ==
  [m EXCEPT !.vars[i].type = type, !.vars[i].num = num, !.vars[i].str = str,
            !.vars[i].head = Null, !.vars[i].tail = Null]
SetNull(m, i) == SetContent(m, i, "null", Zero, NoString)
SetNumber(m, i, n) == SetContent(m, i, "number", n, NoString)
SetBoolean(m, i, b) == SetContent(m, i, "bool", Decimal("uint", IF b THEN 1 ELSE 0, 0), NoString)
SetString(m, i, s) == SetContent(m, i, "string", Zero, s)
ToArray(m, i) == SetContent(m, i, "array", Zero, NoString)
ToObject(m, i) == SetContent(m, i, "object", Zero, NoString)

\* A string, or JSON text to be written as it is: linked, or copied; without room
\* for the copy the variant is null.
StoreText(m, i, type, s) ==
  LET r == SaveString(m, s.chars)
  IN IF ~ s.own THEN [m |-> SetContent(m, i, type, Zero, s), ok |-> TRUE]
     ELSE [m |-> IF r.ok THEN SetContent(r.m, i, type, Zero, s) ELSE SetNull(r.m, i), ok |-> r.ok]

(***************************************************************************)
(* Collections.  Where one of these returns a variant, r.id is it.         *)
(***************************************************************************)
RECURSIVE ChainFrom(_, _)
ChainFrom(m, i) == IF i = Null THEN <<>> ELSE <<i>> \o ChainFrom(m, m.vars[i].next)
SlotsOf(m, c) == ChainFrom(m, m.vars[c].head)
KeyOf(m, i) == TextOf(m, m.vars[i].key)

AddSlot(m, c) ==
  LET new == Len(m.vars) + 1
      tail == m.vars[c].tail
      grown == [m EXCEPT !.vars = Append(@, FreshVariant)]
  IN IF Free(m) < SlotSize THEN [m |-> Overflow(m), id |-> Null]
     ELSE [m |-> IF tail = Null THEN [grown EXCEPT !.vars[c].head = new, !.vars[c].tail = new]
                 ELSE [grown EXCEPT !.vars[tail].next = new, !.vars[c].tail = new],
           id |-> new]

PreviousSlot(m, c, i) ==
  LET before == SelectSeq(SlotsOf(m, c), LAMBDA j : m.vars[j].next = i)
  IN IF before = <<>> THEN Null ELSE before[1]

\* (Bug: the last slot removed stays the tail.)
RemoveSlotKeepsTail(m, c, i) ==
  IF i = Null THEN m
  ELSE LET prev == PreviousSlot(m, c, i)
       IN IF prev # Null THEN [m EXCEPT !.vars[prev].next = m.vars[i].next]
          ELSE [m EXCEPT !.vars[c].head = m.vars[i].next]
RemoveSlot(m, c, i) ==
  IF i = Null THEN m
  ELSE LET prev == PreviousSlot(m, c, i)
           next == m.vars[i].next
           cut == IF prev # Null THEN [m EXCEPT !.vars[prev].next = next]
                  ELSE [m EXCEPT !.vars[c].head = next]
       IN IF next = Null THEN [cut EXCEPT !.vars[c].tail = prev] ELSE cut

\* Without room for the key the slot is taken out again, but stays allocated.
AddMember(m, c, key) ==
  LET SetKey(i, k) == IF k.ok THEN [m |-> [k.m EXCEPT !.vars[i].key = key], id |-> i]
                      ELSE [m |-> RemoveSlot(k.m, c, i), id |-> Null]
      Keyed(s) == IF s.id = Null THEN s
                  ELSE SetKey(s.id, IF key.own THEN SaveString(s.m, key.chars)
                                    ELSE [m |-> s.m, ok |-> TRUE])
  IN Keyed(AddSlot(m, c))

MemberSlot(m, c, chars) ==
  LET same == SelectSeq(SlotsOf(m, c), LAMBDA j : KeyOf(m, j) = chars)
  IN IF same = <<>> THEN Null ELSE same[1]
ElementSlot(m, c, index) ==
  LET slots == SlotsOf(m, c) IN IF index < Len(slots) THEN slots[index + 1] ELSE Null

GetMember(m, i, chars) == IF TypeAt(m, i) = "object" THEN MemberSlot(m, i, chars) ELSE Null
GetElement(m, i, index) == IF TypeAt(m, i) = "array" THEN ElementSlot(m, i, index) ELSE Null

Nothing(m) == [m |-> m, id |-> Null]

\* A null variant becomes the collection that is asked for.
AsCollection(m, i, type) ==
  IF TypeAt(m, i) = "null" /\ i # Null THEN SetContent(m, i, type, Zero, NoString) ELSE m

GetOrAddMember(m, i, key) ==
  LET c == AsCollection(m, i, "object")
      found == GetMember(c, i, TextOf(c, key))
  IN IF TypeAt(c, i) # "object" THEN Nothing(m)
     ELSE IF found # Null THEN [m |-> c, id |-> found] ELSE AddMember(c, i, key)

RECURSIVE AddSlots(_, _, _)
AddSlots(r, c, n) == IF n = 0 THEN r ELSE AddSlots(AddSlot(r.m, c), c, n - 1)

AddElement(m, i) ==
  LET c == AsCollection(m, i, "array")
  IN IF TypeAt(c, i) # "array" THEN Nothing(m) ELSE AddSlot(c, i)

\* An array too short is filled with nulls.
GetOrAddElement(m, i, index) ==
  LET c == AsCollection(m, i, "array")
      size == Len(SlotsOf(c, i))
  IN IF TypeAt(c, i) # "array" THEN Nothing(m)
     ELSE IF index < size THEN [m |-> c, id |-> ElementSlot(c, i, index)]
     ELSE AddSlots(Nothing(c), i, index + 1 - size)

RemoveMember(m, i, chars) ==
  IF TypeAt(m, i) = "object" THEN RemoveSlot(m, i, MemberSlot(m, i, chars)) ELSE m
RemoveElement(m, i, index) ==
  IF TypeAt(m, i) = "array" THEN RemoveSlot(m, i, ElementSlot(m, i, index)) ELSE m

\* A deep copy of the variant src of the memory n, which stops at the first failure.
RECURSIVE CopyFrom(_, _, _, _), CopySlots(_, _, _, _, _)
CopySlots(m, dst, n, src, slots) ==
  IF slots = <<>> THEN [m |-> m, ok |-> TRUE]
  ELSE LET s == Head(slots)
           added == IF n.vars[src].type = "object" THEN AddMember(m, dst, n.vars[s].key)
                    ELSE AddSlot(m, dst)
           copied == CopyFrom(added.m, added.id, n, s)
       IN IF copied.ok THEN CopySlots(copied.m, dst, n, src, Tail(slots)) ELSE copied
CopyFrom(m, dst, n, src) ==
  IF dst = Null THEN [m |-> m, ok |-> FALSE]
  ELSE IF src = Null THEN [m |-> SetNull(m, dst), ok |-> TRUE]
  ELSE LET v == n.vars[src]
       IN CASE v.type \in {"array", "object"} ->
                 CopySlots(SetContent(m, dst, v.type, Zero, NoString), dst, n, src,
                           SlotsOf(n, src))
            [] v.type \in {"string", "raw"} -> StoreText(m, dst, v.type, v.str)
            [] OTHER -> [m |-> SetContent(m, dst, v.type, v.num, NoString), ok |-> TRUE]

(***************************************************************************)
(* Reading.                                                                *)
(***************************************************************************)
\* What a variant holds, whatever the memory it is in.
Tree(kind, num, chars, items) == [kind |-> kind, num |-> num, chars |-> chars, items |-> items]
NullTree == Tree("null", <<0, 0>>, <<>>, <<>>)
RECURSIVE Value(_, _)
Value(m, i) ==
  IF i = Null THEN NullTree
  ELSE LET v == m.vars[i]
           slots == SlotsOf(m, i)
       IN Tree(v.type, <<v.num.m, v.num.e>>, TextOf(m, v.str),
               [k \in DOMAIN slots |-> [key |-> KeyOf(m, slots[k]), value |-> Value(m, slots[k])]])

\* as<T>() for an integer type: a string is read as a literal.
AsIntegral(m, i, low, high) ==
  LET v == m.vars[i]
  IN CASE v.type \in {"number", "bool"} -> convertNumber(v.num, low, high)
       [] v.type = "string" -> convertNumber(ParseNumber(TextOf(m, v.str)).num, low, high)
       [] OTHER -> 0

(***************************************************************************)
(* Comparing, as operator== and operator< do.                              *)
(***************************************************************************)
RECURSIVE CompareChars(_, _)
CompareChars(a, b) ==
  IF a = <<>> \/ b = <<>>
  THEN IF a = b THEN "EQUAL" ELSE IF a = <<>> THEN "LESS" ELSE "GREATER"
  ELSE IF a[1] = b[1] THEN CompareChars(Tail(a), Tail(b))
  ELSE IF a[1] < b[1] THEN "LESS" ELSE "GREATER"

\* Of two raw values only the common length is compared.
CompareRaw(a, b) ==
  LET n == IF Len(a) < Len(b) THEN Len(a) ELSE Len(b)
  IN CompareChars(SubSeq(a, 1, n), SubSeq(b, 1, n))

\* An object that lacks a member equals one in which it is null.
RECURSIVE Compare(_, _, _, _)
EqualsObject(m, a, n, b) ==
  LET slots == SlotsOf(m, a)
  IN /\ \A k \in DOMAIN slots :
          Compare(m, slots[k], n, MemberSlot(n, b, KeyOf(m, slots[k]))) = "EQUAL"
     /\ Len(slots) = Len(SlotsOf(n, b))
EqualsArray(m, a, n, b) ==
  LET s == SlotsOf(m, a) t == SlotsOf(n, b)
  IN Len(s) = Len(t) /\ \A k \in DOMAIN s : Compare(m, s[k], n, t[k]) = "EQUAL"
Compare(m, a, n, b) ==
  LET s == TypeAt(m, a) t == TypeAt(n, b)
      Result(same) == IF same THEN "EQUAL" ELSE "DIFFER"
  IN CASE s = "null" /\ t = "null" -> "EQUAL"
       [] {s, t} \subseteq {"number", "bool"} -> arithmeticCompare(m.vars[a].num, n.vars[b].num)
       [] s = "string" /\ t = "string" ->
            CompareChars(TextOf(m, m.vars[a].str), TextOf(n, n.vars[b].str))
       [] s = "raw" /\ t = "raw" -> CompareRaw(m.vars[a].str.chars, n.vars[b].str.chars)
       [] s = "array" /\ t = "array" -> Result(EqualsArray(n, b, m, a))
       [] s = "object" /\ t = "object" -> Result(EqualsObject(n, b, m, a))
       [] OTHER -> "DIFFER"
Equal(m, a, n, b) == Compare(m, a, n, b) = "EQUAL"
=============================================================================
