-------------------------------- MODULE Value --------------------------------
(***************************************************************************)
(* adapter::Value (src/common/Value.h, Value.cpp): a tagged union that     *)
(* owns a std::string or an array. Objects are built, assigned, copied and *)
(* destroyed in any order; m_data keeps bytes of what an object held       *)
(* before, and the heap keeps what nobody deleted.                         *)
(*                                                                         *)
(* The types stand for their kinds: Null, narrow numbers without and with  *)
(* a sign, a wide one with a sign, the string, and two types of arrays.    *)
(* The union has two digits: a narrow number is lo, a wide one lo and hi,  *)
(* a pointer has a block in lo and Heap in hi, and NULL is zero in both.   *)
(*                                                                         *)
(* A definition whose name has an underscore is a slip the code could      *)
(* have; no action uses it. The properties tell it from the next one.      *)
(***************************************************************************)
EXTENDS Integers, Sequences

CONSTANTS
  Object,     \* Values of the program
  Block,      \* blocks of the heap
  Literals,   \* what the program assigns
  Half,       \* half the values of a digit: with these a number is negative
  Heap,       \* the second digit of every pointer that is not null
  Temporary,  \* the memory of a temporary object
  Nil         \* a null char pointer, or the string of Value(TypeId::String)

ASSUME HalfAssumption == Half \in Nat \ {0}

Base == 2 * Half
Digits == 0 .. Base - 1

\* A number written over a pointer, or over a part of it, does not make the
\* address of another block.
ASSUME PointerAssumption ==
  /\ Heap \notin Int /\ Temporary \notin Block
  /\ \A b \in Block : b \notin Int

VARIABLES
  m_data,     \* the three members of each object's Data
  heap,       \* what each block holds: a string, an array, or nothing
  assigned,   \* history: the literal each object was last given
  kept,       \* history: the type it was first assigned since it was built
  mixed,      \* history: some object was assigned two types
  broken      \* memory was used or freed that is not what the code takes it for

historyVars == <<assigned, kept, mixed>>
vars == <<m_data, heap, historyVars, broken>>

Arrays == {"UInt8Array", "UInt16Array"}
Narrow == {"UInt8", "Int16"}
Numeric == Narrow \cup {"Int64"}
TypeId == {"Null", "String"} \cup Numeric \cup Arrays

\* The order of the enumerators.
Order == [Null |-> 0, UInt8 |-> 2, Int16 |-> 3, Int64 |-> 7, String |-> 10,
          UInt8Array |-> 12, UInt16Array |-> 14]

Free == [type |-> "Null", content |-> <<>>]
NoItem == [lo |-> 0, hi |-> 0]
Pointer(b) == [lo |-> b, hi |-> Heap]
IsPointer(item) == item.hi = Heap /\ item.lo \in Block

\* Literals: a number is two digits, in two's complement if it is negative, a
\* string a text or Nil, an array its elements.
Literal(t, c) == [type |-> t, content |-> c]
NullLiteral == Literal("Null", <<>>)

\* What the constructors of Value take: bool and the integers, strings and
\* vectors. A narrow number leaves the second digit zero.
ASSUME LiteralAssumption ==
  Literals \subseteq
    {NullLiteral}
      \cup [type : Narrow, content : Digits \X {0}]
      \cup [type : {"Int64"}, content : Digits \X Digits]
      \cup [type : {"String"}, content : {Nil} \cup Seq(Int)]
      \cup [type : Arrays, content : Seq(Int)]

\* m_data.Type, Item and Size of a default-constructed Value.
EmptyData == [type |-> "Null", item |-> NoItem, size |-> 0]

TypeOK ==
  /\ m_data \in [Object -> [type : TypeId, size : Nat,
                            item : [lo : Block \cup Digits, hi : {Heap} \cup Digits]]]
  /\ heap \in [Block -> [type : {"Null", "String"} \cup Arrays, content : Seq(Int)]]
  /\ assigned \in [Object -> Literals \cup {NullLiteral}]
  /\ kept \in [Object -> TypeId \cup {"none"}] /\ mixed \in BOOLEAN
  /\ broken \in BOOLEAN

Init ==
  /\ m_data = [v \in Object |-> EmptyData]
  /\ heap = [b \in Block |-> Free]
  /\ assigned = [v \in Object |-> NullLiteral]
  /\ kept = [v \in Object |-> "none"] /\ mixed = FALSE
  /\ broken = FALSE

IsArray(t) == t \in Arrays

\* The item points to a block of this type.
Points(item, t) == IsPointer(item) /\ heap[item.lo].type = t

Allocate(b) == heap[b] = Free   \* new never returns a block in use

-----------------------------------------------------------------------------
(* AssignFrom: src is the other Value's data and what its pointer, if any, *)
(* leads to. Type is set in all cases, Size by arrays only, and of Item no *)
(* more than the member of the new type.                                   *)

SetData(v, t, item, size) ==
  m_data' = [m_data EXCEPT ![v] = [type |-> t, item |-> item, size |-> size]]

Break == broken' = TRUE /\ UNCHANGED <<m_data, heap>>

AssignScalar(v, src) ==
  /\ src.type \in {"Null"} \cup Numeric
  /\ SetData(v, src.type,
             CASE src.type = "Null"  -> m_data[v].item
               [] src.type \in Narrow -> [m_data[v].item EXCEPT !.lo = src.item.lo]
               [] src.type = "Int64" -> src.item,
             m_data[v].size)
  /\ UNCHANGED <<heap, broken>>

AssignString_Shares(v, src) ==
  /\ src.type = "String"
  /\ SetData(v, "String", src.item, m_data[v].size)
  /\ UNCHANGED <<heap, broken>>
AssignString_Append(v, src) ==
  /\ src.type = "String" /\ src.item # NoItem
  /\ \E b \in Block :
       /\ Allocate(b)
       /\ heap' = [heap EXCEPT ![b] = Literal("String", src.content)]
       /\ SetData(v, "String", Pointer(b), m_data[v].size)
  /\ UNCHANGED broken

\* A null string is not assigned; an item that is not null is taken for the
\* object's own string.
AssignString(v, src) ==
  LET old == m_data[v].item IN
  /\ src.type = "String"
  /\ \/ /\ src.item = NoItem
        /\ SetData(v, "String", old, m_data[v].size)
        /\ UNCHANGED <<heap, broken>>
     \/ /\ src.item # NoItem /\ old = NoItem
        /\ \E b \in Block :
             /\ Allocate(b)
             /\ heap' = [heap EXCEPT ![b] = Literal("String", src.content)]
             /\ SetData(v, "String", Pointer(b), m_data[v].size)
        /\ UNCHANGED broken
     \/ /\ src.item # NoItem /\ Points(old, "String")
        /\ heap' = [heap EXCEPT ![old.lo] = Literal("String", src.content)]
        /\ SetData(v, "String", old, m_data[v].size)
        /\ UNCHANGED broken
     \/ src.item # NoItem /\ old # NoItem /\ ~Points(old, "String") /\ Break

\* The old array is freed as one of the new element type.
AssignArray(v, src) ==
  LET old == m_data[v].item
      owned == IsArray(m_data[v].type) /\ old # NoItem
  IN
  /\ IsArray(src.type)
  /\ \/ /\ owned => Points(old, src.type)
        /\ \E b \in Block :
             /\ Allocate(b) \/ (owned /\ b = old.lo)
             /\ heap' = [x \in Block |->
                  IF x = b THEN Literal(src.type, src.content)
                  ELSE IF owned /\ x = old.lo THEN Free ELSE heap[x]]
             /\ SetData(v, src.type, Pointer(b), src.size)
        /\ UNCHANGED broken
     \/ owned /\ ~Points(old, src.type) /\ Break

AssignFrom(v, src) ==
  AssignScalar(v, src) \/ AssignString(v, src) \/ AssignArray(v, src)

-----------------------------------------------------------------------------
\* The data of a temporary that a constructor makes of a literal; where it
\* keeps a string or an array does not matter, it is destroyed right after.
\* A null string and an empty array have no memory.
TemporaryOf(l) ==
  [type |-> l.type, content |-> l.content,
   size |-> IF IsArray(l.type) THEN Len(l.content) ELSE 0,
   item |-> CASE l.type = "Null" -> NoItem
              [] l.type \in Numeric ->
                   [lo |-> l.content[1], hi |-> l.content[2]]
              [] l.type = "String" ->
                   IF l.content = Nil THEN NoItem ELSE Pointer(Temporary)
              [] IsArray(l.type) ->
                   IF l.content = <<>> THEN NoItem ELSE Pointer(Temporary)]

Remember(v, l) ==
  /\ assigned' = [assigned EXCEPT ![v] = l]
  /\ kept' = [kept EXCEPT ![v] = IF @ = "none" THEN l.type ELSE @]
  /\ mixed' = (mixed \/ kept'[v] # l.type)

\* v = literal;
AssignLiteral(v, l) ==
  /\ ~broken
  /\ AssignFrom(v, TemporaryOf(l))
  /\ Remember(v, l)

\* What AssignFrom reads through the item of w.
Content(w) == IF IsPointer(m_data[w].item) THEN heap[m_data[w].item.lo].content ELSE <<>>

Source(w) == [type |-> m_data[w].type, item |-> m_data[w].item,
              size |-> m_data[w].size, content |-> Content(w)]

\* w's item leads to what its type says, if it leads anywhere.
Readable(w) ==
  m_data[w].type \in {"String"} \cup Arrays /\ m_data[w].item # NoItem =>
    Points(m_data[w].item, m_data[w].type)

\* v = w; for two objects.
Copy(v, w) ==
  /\ ~broken /\ v # w
  /\ \/ Readable(w) /\ AssignFrom(v, Source(w))
     \/ ~Readable(w) /\ Break
  /\ Remember(v, assigned[w])

\* ~Value, and a new Value() in its place.
Destroy(v) ==
  LET item == m_data[v].item
      owns == m_data[v].type \in {"String"} \cup Arrays /\ item # NoItem
  IN
  /\ ~broken
  /\ \/ /\ Readable(v)
        /\ heap' = [b \in Block |-> IF owns /\ b = item.lo THEN Free ELSE heap[b]]
        /\ m_data' = [m_data EXCEPT ![v] = EmptyData]
        /\ UNCHANGED broken
     \/ ~Readable(v) /\ Break
  /\ assigned' = [assigned EXCEPT ![v] = NullLiteral]
  /\ kept' = [kept EXCEPT ![v] = "none"]
  /\ UNCHANGED mixed

Over == broken /\ UNCHANGED vars

Next ==
  \/ \E v \in Object :
       \/ \E l \in Literals : AssignLiteral(v, l)
       \/ \E w \in Object : Copy(v, w)
       \/ Destroy(v)
  \/ Over

Spec == Init /\ [][Next]_vars

-----------------------------------------------------------------------------
(* What the accessors show, and operator<.                                 *)

\* The GetArray, Get and ToString of an object's own type.
Shown(v) ==
  LET d == m_data[v] IN
  CASE d.type = "Null"   -> NullLiteral
    [] d.type \in Narrow -> Literal(d.type, <<d.item.lo, 0>>)
    [] d.type = "Int64"  -> Literal("Int64", <<d.item.lo, d.item.hi>>)
    [] d.type = "String" -> Literal("String", Content(v))
    [] IsArray(d.type)   -> Literal(d.type, SubSeq(Content(v), 1, d.size))

Number_Narrow(lo, hi) == lo

\* v_uint64: the whole union, whatever the type of the number and its sign.
Number(lo, hi) == lo + Base * hi

\* std::string's operator<: the first letter that differs decides, or the end.
TextLess(s, t) ==
  \E i \in 1 .. Len(t) :
    /\ \A j \in 1 .. i - 1 : j <= Len(s) /\ s[j] = t[j]
    /\ i > Len(s) \/ s[i] < t[i]

\* vectorCompare(...) < 0 for arrays that are both null or both not.
SeqLess(s, t) ==
  \/ Len(s) < Len(t)
  \/ /\ Len(s) = Len(t)
     /\ \E i \in 1 .. Len(s) : s[i] < t[i] /\ \A j \in 1 .. i - 1 : s[j] = t[j]

Less(v, w) ==
  LET d == m_data[v]
      e == m_data[w]
  IN
  IF d.type # e.type
  THEN IF d.type = "Null" THEN TRUE ELSE Order[d.type] < Order[e.type]
  ELSE CASE d.type = "Null" -> FALSE
         [] d.type \in Numeric -> Number(d.item.lo, d.item.hi) < Number(e.item.lo, e.item.hi)
         [] d.type = "String" ->
              IF d.item = NoItem THEN e.item # NoItem
              ELSE e.item # NoItem /\ TextLess(Content(v), Content(w))
         [] IsArray(d.type) ->
              IF (d.item = NoItem) # (e.item = NoItem) THEN d.item = NoItem
              ELSE SeqLess(SubSeq(Content(v), 1, d.size), SubSeq(Content(w), 1, e.size))

\* What a number means: its sign is the highest bit of its type.
Negative(l) ==
  \/ l.type = "Int16" /\ l.content[1] >= Half
  \/ l.type = "Int64" /\ l.content[2] >= Half

Meaning(l) ==
  l.content[1] + Base * l.content[2]
    - (IF ~Negative(l) THEN 0 ELSE IF l.type = "Int16" THEN Base ELSE Base * Base)

\* Only one of two numbers of a type is negative.
SignsDiffer(k, l) == k.type = l.type /\ Negative(k) # Negative(l)

\* The order of the literals, from what they mean.
MeaningLess(k, l) ==
  IF k.type # l.type THEN Order[k.type] < Order[l.type]
  ELSE CASE k.type = "Null" -> FALSE
         [] k.type \in Numeric -> Meaning(k) < Meaning(l)
         [] k.type = "String" -> TextLess(k.content, l.content)
         [] IsArray(k.type) -> SeqLess(k.content, l.content)

\* v has not been given a null string.
Given(v) == assigned[v].content # Nil

-----------------------------------------------------------------------------
\* An object shows the value it was last given, however many other values it
\* held and whichever objects it was copied from have changed or gone since.
\* (Only a null string is not taken over: AssignFrom keeps the text.)
ShowsLastAssigned ==
  ~broken => \A v \in Object : Given(v) => Shown(v) = assigned[v]

\* After v = w; both show the same, a null string as the empty one.
CopiesAlike ==
  [][\A v, w \in Object : Copy(v, w) /\ ~broken' => Shown(v)' = Shown(w)']_vars

\* As long as every object keeps to one type, the code never reads, writes or
\* frees memory through anything but a pointer to a living block of that type.
MemorySafe == broken => mixed

\* As long as every object keeps to one type, every string and array belongs
\* to one object that will free it: nothing leaks and nothing is shared.
OwnedOnce ==
  ~broken /\ ~mixed => \A b \in Block :
    heap[b] # Free =>
      \E v \in Object :
        /\ m_data[v].type = heap[b].type /\ m_data[v].item = Pointer(b)
        /\ \A w \in Object \ {v} : m_data[w].item # Pointer(b)

\* operator< orders by value any two objects, but for two numbers just one of
\* which is negative, as the code compares numbers as uint64_t, and where
\* objects have changed their types, for narrow numbers with bytes left over.
OrderedByValue ==
  ~broken => \A v, w \in Object :
    /\ Given(v) /\ Given(w) /\ ~SignsDiffer(assigned[v], assigned[w])
    /\ mixed => assigned[v].type # assigned[w].type \/ assigned[v].type \notin Narrow
    => (Less(v, w) <=> MeaningLess(assigned[v], assigned[w]))

\* operator< orders by value any two objects that hold numbers of one type and
\* sign, whatever they held before.
NumbersOrdered ==
  ~broken => \A v, w \in Object :
    /\ assigned[v].type = assigned[w].type /\ assigned[v].type \in Numeric
    /\ ~SignsDiffer(assigned[v], assigned[w])
    => (Less(v, w) <=> MeaningLess(assigned[v], assigned[w]))

\* As long as every object keeps to one type, operator< is a strict order of
\* them, as sorting and the ordered containers take it for.
StrictOrder ==
  ~broken /\ ~mixed =>
    \A u, v, w \in Object : Given(u) /\ Given(v) /\ Given(w) =>
      ~Less(u, u) /\ (Less(u, v) /\ Less(v, w) => Less(u, w))

-----------------------------------------------------------------------------
(* The inductive invariants the proofs in Value_proof use.                 *)

\* A pointer leads to memory in use, and no two objects have the same one:
\* what an object holds does not change under it. (Also of bytes that are
\* left in m_data under another type.)
PointersInv ==
  \A v \in Object : IsPointer(m_data[v].item) =>
    /\ heap[m_data[v].item.lo].type # "Null"
    /\ \A w \in Object \ {v} : m_data[w].item # m_data[v].item

\* The members that v's type is about are those of what it was last given.
Holds(v) ==
  LET d == m_data[v]
      l == assigned[v]
      own == IsPointer(d.item) /\ heap[d.item.lo] = l
  IN
  /\ d.type = l.type
  /\ d.type \in Narrow => d.item.lo = l.content[1]
  /\ d.type = "Int64" => d.item = [lo |-> l.content[1], hi |-> l.content[2]]
  /\ d.type = "String" /\ Given(v) => own
  /\ IsArray(d.type) => own /\ d.size = Len(l.content)

\* v has kept to one type: no other has left its bytes in the item.
Keeps(v) ==
  LET d == m_data[v] IN
  /\ d.type = IF kept[v] = "none" THEN "Null" ELSE kept[v]
  /\ d.type = "Null" => d.item = NoItem
  /\ d.type \in Narrow => d.item.hi = 0
  /\ d.type = "String" => d.item = NoItem \/ Points(d.item, "String")

\* Somebody will free b.
Owned(b) == \E v \in Object : m_data[v].type = heap[b].type /\ m_data[v].item = Pointer(b)

MemoryInv ==
  /\ broken => mixed
  /\ ~broken => PointersInv /\ \A v \in Object : Holds(v)
  /\ ~broken /\ ~mixed =>
       /\ \A v \in Object : Keeps(v)
       /\ \A b \in Block : heap[b] # Free => Owned(b)
=============================================================================
