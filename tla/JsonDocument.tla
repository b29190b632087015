---------------------------- MODULE JsonDocument ----------------------------
(***************************************************************************)
(* A program that works on one document (Document/JsonDocument.hpp and     *)
(* BasicJsonDocument.hpp) through the proxies that operator[] returns      *)
(* (Array/ElementProxy.hpp, Object/MemberProxy.hpp).  A proxy is its path  *)
(* from the root; a history says what the last call should have made of    *)
(* the document and what it returned.                                      *)
(***************************************************************************)
EXTENDS JsonMemory

CONSTANTS
  Paths,       \* sequences of steps
  Scalars,     \* what is stored: [type |-> "number", num |-> ...] or [type |-> "string", str |-> ...]
  DocCapacity, \* of the document
  MaxCalls     \* calls of the program

VARIABLES
  doc,       \* the memory of the document
  expected,  \* the tree the last call should have made
  place,     \* the path it wrote to
  said,      \* what it returned
  calls
documentVars == <<doc, expected, place, said, calls>>

MemberStep(key) == [of |-> "object", key |-> key, index |-> 0]
ElementStep(index) == [of |-> "array", key |-> NoString, index |-> index]
ASSUME DocumentAssumption ==
  /\ DocCapacity \in Nat /\ MaxCalls \in Nat
  /\ \A path \in Paths : \A k \in DOMAIN path : path[k].of \in {"object", "array"}

(***************************************************************************)
(* The proxies.                                                            *)
(***************************************************************************)
GetStep(m, i, step) ==
  IF step.of = "object" THEN GetMember(m, i, step.key.chars) ELSE GetElement(m, i, step.index)
GetOrAddStep(r, step) ==
  IF r.id = Null THEN r
  ELSE IF step.of = "object" THEN GetOrAddMember(r.m, r.id, step.key)
  ELSE GetOrAddElement(r.m, r.id, step.index)

GetOrAdd(m, path) == FoldLeft(GetOrAddStep, [m |-> m, id |-> Root], path)

\* The element of an element is looked for in one that is added if need be.
RECURSIVE Get(_, _)
Get(m, path) ==
  LET step == Last(path)
      above == Front(path)
      adds == step.of = "array" /\ above # <<>> /\ Last(above).of = "array"
      Below(r) == [r EXCEPT !.id = IF @ = Null THEN Null ELSE GetStep(r.m, @, step)]
  IN IF path = <<>> THEN [m |-> m, id |-> Root]
     ELSE Below(IF adds THEN GetOrAdd(m, above) ELSE Get(m, above))

(***************************************************************************)
(* The same on trees: what a path leads to, and a tree after a call.       *)
(***************************************************************************)
IndexOf(t, step) ==
  IF step.of = "array" THEN step.index + 1
  ELSE LET same == {k \in DOMAIN t.items : t.items[k].key = step.key.chars}
       IN IF same = {} THEN Len(t.items) + 1 ELSE CHOOSE k \in same : TRUE
Leads(t, step) == t.kind = step.of /\ IndexOf(t, step) <= Len(t.items)

RECURSIVE Exists(_, _)
Exists(t, path) ==
  path = <<>> \/ (Leads(t, Head(path)) /\ Exists(t.items[IndexOf(t, Head(path))].value, Tail(path)))
RECURSIVE SubTree(_, _)
SubTree(t, path) ==
  IF path = <<>> THEN t
  ELSE IF ~ Leads(t, Head(path)) THEN NullTree
  ELSE SubTree(t.items[IndexOf(t, Head(path))].value, Tail(path))

EmptyTree(kind) == [NullTree EXCEPT !.kind = kind]
ItemOf(chars, value) == [key |-> chars, value |-> value]

\* The tree in which "path" leads to v, and null where it only passes; none if it meets
\* a value of another kind.
RECURSIVE Put(_, _, _)
Put(t, path, v) ==
  LET step == Head(path)
      c == IF t.kind = "null" THEN EmptyTree(step.of) ELSE t
      k == IndexOf(c, step)
      size == Len(c.items)
      longer == c.items \o [j \in 1..(k - size) |->
                              ItemOf(IF step.of = "object" THEN step.key.chars ELSE <<>>, NullTree)]
  IN IF path = <<>> THEN v
     ELSE IF c.kind # step.of THEN t
     ELSE [c EXCEPT !.items = [longer EXCEPT ![k].value = Put(@, Tail(path), v)]]
RECURSIVE Writable(_, _)
Writable(t, path) ==
  IF path = <<>> THEN TRUE
  ELSE /\ t.kind \in {"null", Head(path).of}
       /\ Writable(SubTree(t, <<Head(path)>>), Tail(path))
Reach(t, path) == IF Exists(t, path) THEN t ELSE Put(t, path, NullTree)

\* What reading leaves behind: the elements whose elements were looked for.
Passed(path) ==
  LET pairs == {k \in 2..Len(path) : path[k].of = "array" /\ path[k - 1].of = "array"}
  IN IF pairs = {} THEN <<>> ELSE SubSeq(path, 1, FoldSet(LAMBDA k, n : IF k > n THEN k ELSE n, 0, pairs) - 1)
AfterReading(t, path) == IF Writable(t, Passed(path)) THEN Reach(t, Passed(path)) ELSE t

TreeWithout(t, step) ==
  IF Leads(t, step) THEN [t EXCEPT !.items = RemoveAt(@, IndexOf(t, step))] ELSE t
ScalarTree(x) ==
  IF x.type = "number" THEN Tree("number", <<x.num.m, x.num.e>>, <<>>, <<>>)
  ELSE Tree("string", <<0, 0>>, x.str.chars, <<>>)

(***************************************************************************)
(* The calls.                                                              *)
(***************************************************************************)
Value0 == Value(doc, Root)
DocumentInit ==
  /\ doc = NewMemory(DocCapacity) /\ expected = NullTree
  /\ place = <<>> /\ said = TRUE /\ calls = 0
Call(path) == calls < MaxCalls /\ calls' = calls + 1 /\ place' = path

\* set() tells whether anything has ever overflowed, and not whether there was a
\* variant to store in.
Store(r, x) ==
  IF r.id = Null THEN r.m
  ELSE IF x.type = "number" THEN SetNumber(r.m, r.id, x.num) ELSE StoreText(r.m, r.id, x.type, x.str).m
DocSet(path, x) ==
  LET base == IF path = <<>> THEN NewMemory(DocCapacity) ELSE doc
  IN /\ Call(path)
     /\ doc' = Store(GetOrAdd(base, path), x)
     /\ said' = ~ doc'.over
     /\ expected' = IF Writable(Value0, path) THEN Put(Value0, path, ScalarTree(x)) ELSE Value0

DocAdd(path, x) ==
  LET r == GetOrAdd(doc, path)
      added == IF r.id = Null THEN r ELSE AddElement(r.m, r.id)
      old == SubTree(Value0, path)
      step == ElementStep(Len(old.items))
  IN /\ Call(Append(path, step))
     /\ doc' = Store(added, x)
     /\ said' = ~ doc'.over
     /\ expected' = IF Writable(Value0, Append(path, step))
                    THEN Put(Value0, Append(path, step), ScalarTree(x)) ELSE Value0

\* doc[path] = doc[from]; neither of them within the other.
DocAssign(path, from) ==
  LET r == GetOrAdd(doc, path)
      s == Get(r.m, from)
      t == Put(Value0, path, NullTree)
  IN /\ path # <<>> /\ ~ IsPrefix(path, from) /\ ~ IsPrefix(from, path)
     /\ Writable(Value0, path) /\ Call(path)
     /\ doc' = CopyFrom(s.m, r.id, s.m, s.id).m
     /\ said' = ~ doc'.over
     /\ expected' = Put(AfterReading(Reach(Value0, path), from), path, SubTree(t, from))

\* createNestedArray(), createNestedObject() and to<>(), of which the document's own
\* clears the pool.
DocTo(path, type) ==
  LET base == IF path = <<>> THEN NewMemory(DocCapacity) ELSE doc
      r == GetOrAdd(base, path)
  IN /\ Call(path)
     /\ doc' = IF r.id = Null THEN r.m ELSE SetContent(r.m, r.id, type, Zero, NoString)
     /\ said' = (r.id # Null)
     /\ expected' = IF Writable(Value0, path) THEN Put(Value0, path, EmptyTree(type)) ELSE Value0

DocRemove(path) ==
  LET r == Get(doc, Front(path))
      step == Last(path)
      t == AfterReading(Value0, Front(path))
  IN /\ path # <<>> /\ Call(Passed(path))
     /\ doc' = IF r.id = Null THEN r.m
               ELSE IF step.of = "object" THEN RemoveMember(r.m, r.id, step.key.chars)
               ELSE RemoveElement(r.m, r.id, step.index)
     /\ said' = ~ doc'.over
     /\ expected' = IF Exists(t, Front(path))
                    THEN Put(t, Front(path), TreeWithout(SubTree(t, Front(path)), step)) ELSE t

DocClear(path) ==
  LET r == Get(doc, path)
      t == AfterReading(Value0, path)
  IN /\ Call(path)
     /\ doc' = IF path = <<>> THEN NewMemory(DocCapacity)
               ELSE IF r.id = Null THEN r.m ELSE SetNull(r.m, r.id)
     /\ said' = ~ doc'.over
     /\ expected' = IF Exists(t, path) THEN Put(t, path, NullTree) ELSE t

\* The document becomes a copy of itself, in a pool that may not be had.
GarbageCollect ==
  /\ Call(<<>>) /\ expected' = Value0
  /\ \/ doc' = CopyFrom(NewMemory(DocCapacity), Root, doc, Root).m /\ said' = TRUE
     \/ said' = FALSE /\ UNCHANGED doc

DocumentNext ==
  \/ \E path \in Paths :
       \/ \E x \in Scalars : DocSet(path, x) \/ DocAdd(path, x)
       \/ \E from \in Paths : DocAssign(path, from)
       \/ \E type \in {"array", "object"} : DocTo(path, type)
       \/ DocRemove(path) \/ DocClear(path)
  \/ GarbageCollect

DocumentSpec == DocumentInit /\ [][DocumentNext]_documentVars

(***************************************************************************)
(* Properties.                                                             *)
(***************************************************************************)
\* The beginning of a tree: its last part is null or cut itself.
RECURSIVE IsCut(_, _)
IsCut(v, t) ==
  LET n == Len(v.items)
  IN \/ v = t \/ v = NullTree
     \/ /\ v.kind = t.kind /\ v.kind \in {"array", "object"} /\ n <= Len(t.items)
        /\ \A k \in 1..n : v.items[k].key = t.items[k].key
        /\ \A k \in 1..(n - 1) : v.items[k] = t.items[k]
        /\ n > 0 => IsCut(v.items[n].value, t.items[n].value)
\* A tree that is cut where "path" leads, and nowhere else.
RECURSIVE IsCutAt(_, _, _)
IsCutAt(v, t, path) ==
  LET k == IndexOf(t, Head(path))
  IN IF path = <<>> THEN IsCut(v, t)
     ELSE \/ v = t
          \/ /\ v.kind = t.kind /\ v.kind = Head(path).of
             /\ Len(v.items) = Len(t.items) \/ (Len(v.items) < k /\ k = Len(t.items))
             /\ \A j \in DOMAIN v.items :
                  /\ v.items[j].key = t.items[j].key
                  /\ v.items[j] = t.items[j] \/ (j = k /\ IsCutAt(v.items[j].value, t.items[j].value, Tail(path)))

\* A call that reports success has done to the document what it does to a tree,
\* whatever was removed and added before and wherever strings are shared; one that runs
\* out of memory leaves everything outside the place it writes to as it was, and there the
\* beginning of what was to be written.
DocumentHolds ==
  /\ said => Value(doc, Root) = expected
  /\ ~ said => IsCutAt(Value(doc, Root), expected, place)
=============================================================================
