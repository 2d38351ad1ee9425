----------------------------- MODULE Value_proof -----------------------------
(***************************************************************************)
(* Proofs about Value, for every set of objects, blocks and literals.      *)
(* AssignFrom is treated once, for the temporary of a literal and for      *)
(* another object alike: IsSource says what both are to it.                *)
(***************************************************************************)
EXTENDS Value, TLAPS

AllLiterals == Literals \cup {NullLiteral}
Items == [lo : Block \cup Digits, hi : {Heap} \cup Digits]

\* The numbers among the types, and the digits.
LEMMA NumberFacts ==
  /\ Base \in Nat /\ 0 \in Digits /\ Digits \subseteq Nat /\ Digits \subseteq Int
  /\ Heap \notin Digits /\ \A b \in Block : b \notin Digits
  /\ TypeId = {"Null", "String", "UInt8", "Int16", "Int64"} \cup Arrays
  /\ Numeric = {"UInt8", "Int16", "Int64"} /\ Narrow = {"UInt8", "Int16"}
  /\ Arrays = {"UInt8Array", "UInt16Array"}
BY HalfAssumption, PointerAssumption DEF Base, Digits, TypeId, Numeric, Narrow, Arrays
DataType == [type : TypeId, size : Nat, item : Items]

LEMMA LiteralShape ==
  ASSUME NEW l \in AllLiterals
  PROVE  /\ l = Literal(l.type, l.content)
         /\ l.type \in TypeId
         /\ l.type = "Null" => l.content = <<>>
         /\ l.type \in Narrow => l.content \in Digits \X Digits /\ l.content[2] = 0
         /\ l.type = "Int64" => l.content \in Digits \X Digits
         /\ l.type = "String" /\ l.content # Nil => l.content \in Seq(Int)
         /\ IsArray(l.type) => l.content \in Seq(Int)
<1>1. CASE l = NullLiteral
  BY <1>1, NumberFacts DEF NullLiteral, Literal, IsArray
<1>2. CASE l \in Literals
  <2>1. \/ l = NullLiteral
        \/ l \in [type : Narrow, content : Digits \X {0}]
        \/ l \in [type : {"Int64"}, content : Digits \X Digits]
        \/ l \in [type : {"String"}, content : {Nil} \cup Seq(Int)]
        \/ l \in [type : Arrays, content : Seq(Int)]
    BY <1>2, LiteralAssumption
  <2> QED BY <1>1, <2>1, NumberFacts DEF Literal, IsArray
<1> QED BY <1>1, <1>2 DEF AllLiterals

LEMMA ItemFacts ==
  /\ NoItem \in Items /\ ~IsPointer(NoItem)
  /\ \A b \in Block : Pointer(b) \in Items /\ IsPointer(Pointer(b)) /\ Pointer(b) # NoItem
                   /\ Pointer(b).lo = b
  /\ \A i \in Items : IsPointer(i) => i.lo \in Block /\ i = Pointer(i.lo)
  /\ \A b, c \in Block : Pointer(b) = Pointer(c) => b = c
  /\ \A i \in Items : i.lo \in Digits => ~IsPointer(i)
  /\ \A i \in Items : i.hi \in Digits => ~IsPointer(i)
BY NumberFacts, PointerAssumption DEF NoItem, IsPointer, Pointer, Items

\* What AssignFrom is given when the program assigns l.
IsSource(src, l) ==
  /\ src.type = l.type
  /\ src.type \in Narrow => src.item.lo = l.content[1]
  /\ src.type = "Int64" => src.item = [lo |-> l.content[1], hi |-> l.content[2]]
  /\ src.type = "String" /\ src.item # NoItem => src.content \in Seq(Int)
  /\ src.type = "String" /\ l.content # Nil => src.item # NoItem /\ src.content = l.content
  /\ IsArray(src.type) => src.content = l.content /\ src.size = Len(l.content)

LEMMA LiteralIsSource ==
  ASSUME NEW l \in Literals PROVE IsSource(TemporaryOf(l), l)
<1> DEFINE t == TemporaryOf(l)
<1>1. l \in AllLiterals
  BY DEF AllLiterals
<1>2. t.type = l.type /\ t.content = l.content
  BY DEF TemporaryOf
<1>3. l.type \in Numeric => t.item = [lo |-> l.content[1], hi |-> l.content[2]]
  BY NumberFacts DEF TemporaryOf, IsArray
<1>4. l.type \in Narrow => t.item.lo = l.content[1]
  BY <1>3, NumberFacts
<1>5. l.type = "String" => (t.item # NoItem <=> l.content # Nil)
  <2>1. Pointer(Temporary) # NoItem
    BY PointerAssumption DEF Pointer, NoItem
  <2>2. l.type = "String" => t.item = IF l.content = Nil THEN NoItem ELSE Pointer(Temporary)
    BY DEF TemporaryOf, IsArray, Arrays, Numeric, Narrow
  <2> QED BY <2>1, <2>2
<1>6. IsArray(l.type) => t.size = Len(l.content)
  BY DEF TemporaryOf, IsArray, Arrays, Numeric, Narrow
<1> QED BY <1>1, <1>2, <1>3, <1>4, <1>5, <1>6, LiteralShape, NumberFacts DEF IsSource

\* A readable object passes on what it was given itself.
LEMMA ObjectIsSource ==
  ASSUME TypeOK, NEW w \in Object, Holds(w), Readable(w)
  PROVE  IsSource(Source(w), assigned[w])
<1> DEFINE i == m_data[w].item
           s == Source(w)
<1>1. m_data[w] \in DataType /\ i \in Items
  BY DEF TypeOK, DataType, Items
<1>2. s.type = m_data[w].type /\ s.item = i /\ s.size = m_data[w].size /\ s.content = Content(w)
  BY DEF Source
<1>3. IsPointer(i) => Content(w) = heap[i.lo].content /\ Content(w) \in Seq(Int)
  <2>1. IsPointer(i) => heap[i.lo].content \in Seq(Int)
    BY <1>1, ItemFacts DEF TypeOK
  <2> QED BY <2>1 DEF Content
<1>4. m_data[w].type = "String" /\ i # NoItem => IsPointer(i)
  BY DEF Readable, Points
<1>5. IsPointer(i) => i # NoItem
  BY ItemFacts
<1> QED BY <1>2, <1>3, <1>4, <1>5 DEF IsSource, Holds, Given

-----------------------------------------------------------------------------
\* What Remember does, one object at a time.
LEMMA Remembers ==
  ASSUME TypeOK, NEW v \in Object, NEW l \in AllLiterals, Remember(v, l)
  PROVE  /\ assigned'[v] = l /\ \A w \in Object \ {v} : assigned'[w] = assigned[w]
         /\ kept'[v] = IF kept[v] = "none" THEN l.type ELSE kept[v]
         /\ \A w \in Object \ {v} : kept'[w] = kept[w]
         /\ mixed' <=> mixed \/ kept'[v] # l.type
         /\ assigned' \in [Object -> AllLiterals]
         /\ kept' \in [Object -> TypeId \cup {"none"}]
         /\ mixed' \in BOOLEAN
<1>1. l.type \in TypeId
  BY LiteralShape
<1>2. assigned \in [Object -> AllLiterals] /\ kept \in [Object -> TypeId \cup {"none"}]
  BY DEF TypeOK, AllLiterals
<1> QED BY <1>1, <1>2 DEF Remember

\* What SetData does.
LEMMA Sets ==
  ASSUME TypeOK, NEW v \in Object, NEW t \in TypeId, NEW i \in Items, NEW n \in Nat,
         SetData(v, t, i, n)
  PROVE  /\ m_data'[v] = [type |-> t, item |-> i, size |-> n]
         /\ \A w \in Object \ {v} : m_data'[w] = m_data[w]
         /\ m_data' \in [Object -> DataType]
<1>1. m_data \in [Object -> DataType]
  BY DEF TypeOK, DataType, Items
<1>2. [type |-> t, item |-> i, size |-> n] \in DataType
  BY DEF DataType
<1> QED BY <1>1, <1>2 DEF SetData

-----------------------------------------------------------------------------
(* What an operation on v leaves alone: memory that was in use and that v  *)
(* does not point to.                                                      *)

OnlyOwnMemory(v) ==
  \A b \in Block : heap'[b] # heap[b] => heap[b] = Free \/ m_data[v].item = Pointer(b)

OnlyOwnData(v) ==
  \A w \in Object \ {v} :
    m_data'[w] = m_data[w] /\ assigned'[w] = assigned[w] /\ kept'[w] = kept[w]

LEMMA OthersKeepMemory ==
  ASSUME TypeOK, PointersInv, NEW v \in Object, OnlyOwnMemory(v), OnlyOwnData(v),
         NEW w \in Object \ {v}, IsPointer(m_data[w].item)
  PROVE  /\ m_data[w].item.lo \in Block
         /\ heap'[m_data[w].item.lo] = heap[m_data[w].item.lo]
<1> DEFINE i == m_data[w].item
<1>1. i \in Items
  BY DEF TypeOK, Items
<1>2. i.lo \in Block /\ i = Pointer(i.lo)
  BY <1>1, ItemFacts
<1>3. heap[i.lo].type # "Null" /\ (IsPointer(m_data[v].item) => m_data[v].item # i)
  BY DEF PointersInv
<1>4. heap[i.lo] # Free
  BY <1>3 DEF Free
<1>5. m_data[v].item # i
  BY <1>3, ItemFacts
<1> QED BY <1>2, <1>4, <1>5 DEF OnlyOwnMemory

LEMMA OthersHold ==
  ASSUME TypeOK, PointersInv, NEW v \in Object, OnlyOwnMemory(v), OnlyOwnData(v),
         NEW w \in Object \ {v}
  PROVE  (Holds(w) => Holds(w)') /\ (Keeps(w) => Keeps(w)')
<1>1. m_data'[w] = m_data[w] /\ assigned'[w] = assigned[w] /\ kept'[w] = kept[w]
  BY DEF OnlyOwnData
<1>2. IsPointer(m_data[w].item) => heap'[m_data[w].item.lo] = heap[m_data[w].item.lo]
  BY OthersKeepMemory
<1>3. Holds(w) => Holds(w)'
  BY <1>1, <1>2 DEF Holds, Given, IsPointer, IsArray
<1>4. Keeps(w) => Keeps(w)'
  BY <1>1, <1>2 DEF Keeps, Points, IsPointer
<1> QED BY <1>3, <1>4

\* v keeps its pointer, or has one to a block that was free, or none.
LEMMA PointersStay ==
  ASSUME TypeOK, PointersInv, NEW v \in Object, OnlyOwnMemory(v), OnlyOwnData(v),
         m_data'[v].item \in Items,
         IsPointer(m_data'[v].item) =>
           /\ heap'[m_data'[v].item.lo].type # "Null"
           /\ m_data'[v].item = m_data[v].item \/ heap[m_data'[v].item.lo] = Free
  PROVE  PointersInv'
<1> DEFINE i == m_data'[v].item
<1>1. ASSUME NEW w \in Object \ {v}, IsPointer(m_data[w].item)
      PROVE  heap'[m_data[w].item.lo].type # "Null" /\ m_data[w].item # i
  <2>1. heap[m_data[w].item.lo].type # "Null"
    BY <1>1 DEF PointersInv
  <2>2. heap'[m_data[w].item.lo] = heap[m_data[w].item.lo]
    BY <1>1, OthersKeepMemory
  <2>3. heap[m_data[w].item.lo] # Free
    BY <2>1 DEF Free
  <2>4. m_data[w].item # m_data[v].item
    BY <1>1 DEF PointersInv
  <2> QED BY <1>1, <2>1, <2>2, <2>3, <2>4
<1>2. \A w \in Object \ {v} : m_data'[w] = m_data[w]
  BY DEF OnlyOwnData
<1>3. \A u, w \in Object \ {v} : u # w /\ IsPointer(m_data[u].item) => m_data[w].item # m_data[u].item
  BY DEF PointersInv
<1>4. ASSUME NEW u \in Object, IsPointer(m_data'[u].item)
      PROVE  /\ heap'[m_data'[u].item.lo].type # "Null"
             /\ \A w \in Object \ {u} : m_data'[w].item # m_data'[u].item
  <2>1. CASE u = v
    <3>1. ASSUME NEW w \in Object \ {v} PROVE m_data'[w].item # i
      BY <1>1, <1>2, <1>4, <2>1 DEF IsPointer
    <3> QED BY <1>4, <2>1, <3>1
  <2>2. CASE u # v
    BY <1>1, <1>2, <1>3, <1>4, <2>2 DEF IsPointer
  <2> QED BY <2>1, <2>2
<1> QED BY <1>4 DEF PointersInv, IsPointer

-----------------------------------------------------------------------------
(* One lemma for each way through AssignFrom.                              *)

LEMMA ScalarStep ==
  ASSUME TypeOK, MemoryInv, ~broken, NEW v \in Object, NEW l \in AllLiterals,
         NEW src, IsSource(src, l), AssignScalar(v, src), Remember(v, l)
  PROVE  TypeOK' /\ MemoryInv'
<1> DEFINE old == m_data[v]
           i == m_data'[v].item
<1>1. old \in DataType /\ old.item \in Items /\ old.size \in Nat
  BY DEF TypeOK, DataType, Items
<1>2. l.type \in {"Null"} \cup Numeric /\ src.type = l.type
  BY DEF AssignScalar, IsSource
<1>3. PICK it : /\ SetData(v, l.type, it, old.size)
                /\ l.type = "Null" => it = old.item
                /\ l.type \in Narrow => it = [lo |-> l.content[1], hi |-> old.item.hi]
                /\ l.type = "Int64" => it = [lo |-> l.content[1], hi |-> l.content[2]]
  <2>1. CASE l.type = "Null"
    <3>1. SetData(v, l.type, old.item, old.size)
      BY <1>2, <2>1, NumberFacts DEF AssignScalar
    <3> QED BY <2>1, <3>1, NumberFacts
  <2>2. CASE l.type \in Narrow
    <3>1. SetData(v, l.type, [old.item EXCEPT !.lo = src.item.lo], old.size)
      BY <1>2, <2>2, NumberFacts DEF AssignScalar
    <3>2. [old.item EXCEPT !.lo = src.item.lo] = [lo |-> l.content[1], hi |-> old.item.hi]
      BY <1>1, <1>2, <2>2 DEF IsSource, Items
    <3> QED BY <2>2, <3>1, <3>2, NumberFacts
  <2>3. CASE l.type = "Int64"
    <3>1. SetData(v, l.type, src.item, old.size)
      BY <1>2, <2>3, NumberFacts DEF AssignScalar
    <3> QED BY <1>2, <2>3, <3>1, NumberFacts DEF IsSource
  <2> QED BY <1>2, <2>1, <2>2, <2>3, NumberFacts
<1>4. it \in Items /\ (l.type # "Null" => ~IsPointer(it))
  <2>1. l.type # "Null" => it.lo \in Digits /\ it \in Items
    BY <1>1, <1>2, <1>3, LiteralShape, NumberFacts DEF Items
  <2> QED BY <1>1, <1>2, <1>3, <2>1, ItemFacts
<1>5. l.type \in TypeId
  BY LiteralShape
<1>6. /\ m_data'[v] = [type |-> l.type, item |-> it, size |-> old.size]
      /\ \A w \in Object \ {v} : m_data'[w] = m_data[w]
      /\ m_data' \in [Object -> DataType]
  BY <1>1, <1>3, <1>4, <1>5, Sets
<1>7. heap' = heap /\ broken' = broken
  BY DEF AssignScalar
<1>8. OnlyOwnData(v) /\ OnlyOwnMemory(v)
  BY <1>6, <1>7, Remembers DEF OnlyOwnData, OnlyOwnMemory
<1>9. TypeOK'
  BY <1>6, <1>7, Remembers DEF TypeOK, DataType, Items, AllLiterals
<1>10. PointersInv'
  <2>1. IsPointer(it) => it = old.item
    BY <1>2, <1>3, <1>4
  <2>2. IsPointer(it) => heap[it.lo].type # "Null"
    BY <2>1 DEF MemoryInv, PointersInv
  <2> QED BY <1>4, <1>6, <1>7, <1>8, <2>1, <2>2, PointersStay DEF MemoryInv
<1>11. \A u \in Object : Holds(u)'
  <2>1. Holds(v)'
    BY <1>2, <1>3, <1>6, Remembers, NumberFacts DEF Holds, IsArray
  <2> QED BY <1>8, <2>1, OthersHold DEF MemoryInv
<1>12. ASSUME ~mixed' PROVE \A u \in Object : Keeps(u)'
  <2>1. ~mixed /\ kept'[v] = l.type
    BY <1>12, Remembers
  <2>2. kept[v] = "none" \/ kept[v] = l.type
    BY <2>1, Remembers
  <2>3. Keeps(v)
    BY <2>1 DEF MemoryInv
  <2>4. l.type = "Null" => old.item = NoItem
    BY <2>2, <2>3 DEF Keeps
  <2>5. l.type \in Narrow => old.item.hi = 0
    BY <2>2, <2>3, NumberFacts DEF Keeps, NoItem
  <2>6. l.type # "none"
    BY <1>2, NumberFacts
  <2>7. Keeps(v)'
    BY <1>2, <1>3, <1>6, <2>1, <2>4, <2>5, <2>6, NumberFacts DEF Keeps
  <2> QED BY <1>8, <2>1, <2>7, OthersHold DEF MemoryInv
<1>13. ASSUME ~mixed' PROVE \A b \in Block : heap'[b] # Free => Owned(b)'
  <2>1. ~mixed /\ (kept[v] = "none" \/ kept[v] = l.type)
    BY <1>13, Remembers
  <2>2. old.type \in {"Null"} \cup Numeric
    BY <1>2, <2>1 DEF MemoryInv, Keeps
  <2>3. ASSUME NEW b \in Block, heap[b] # Free PROVE Owned(b)'
    <3>1. PICK u \in Object : m_data[u].type = heap[b].type /\ m_data[u].item = Pointer(b)
      BY <2>1, <2>3 DEF MemoryInv, Owned
    <3>2. u # v
      <4>1. IsPointer(m_data[u].item) /\ m_data[u].item.lo = b
        BY <3>1, ItemFacts
      <4>2. heap[b].type \in {"String"} \cup Arrays
        BY <4>1 DEF MemoryInv, PointersInv, TypeOK
      <4> QED BY <2>2, <3>1, <4>2, NumberFacts
    <3> QED BY <1>6, <1>7, <3>1, <3>2 DEF Owned, Pointer
  <2> QED BY <1>7, <2>3
<1> QED BY <1>7, <1>9, <1>10, <1>11, <1>12, <1>13, Remembers DEF MemoryInv

\* v ends with the only pointer to block b, which was free or its own and
\* holds c now; its old block is b, or free now, or was not v's to free.
WritesOwn(v, l, c, n, b) ==
  /\ SetData(v, l.type, Pointer(b), n)
  /\ heap[b] = Free \/ m_data[v].item = Pointer(b)
  /\ heap'[b] = Literal(l.type, c)
  /\ heap' = [x \in Block |-> heap'[x]]
  /\ \A x \in Block \ {b} :
       heap'[x] # heap[x] => heap'[x] = Free /\ m_data[v].item = Pointer(x)
  /\ ~mixed' => \A x \in Block \ {b} :
       m_data[v].type = heap[x].type /\ m_data[v].item = Pointer(x) => heap'[x] = Free
  /\ broken' = broken

LEMMA OwnBlockStep ==
  ASSUME TypeOK, MemoryInv, ~broken, NEW v \in Object, NEW l \in AllLiterals, Remember(v, l),
         NEW c \in Seq(Int), l.content # Nil => c = l.content,
         l.type = "String" \/ IsArray(l.type), NEW n \in Nat,
         IsArray(l.type) => n = Len(l.content) /\ c = l.content,
         NEW b \in Block, WritesOwn(v, l, c, n, b)
  PROVE  TypeOK' /\ MemoryInv'
<1> USE DEF WritesOwn
<1>1. l.type \in TypeId \ ({"Null"} \cup Numeric)
  BY LiteralShape, NumberFacts DEF IsArray
<1>2. Pointer(b) \in Items /\ IsPointer(Pointer(b)) /\ Pointer(b).lo = b /\ Pointer(b) # NoItem
  BY ItemFacts
<1>3. /\ m_data'[v] = [type |-> l.type, item |-> Pointer(b), size |-> n]
      /\ \A w \in Object \ {v} : m_data'[w] = m_data[w]
      /\ m_data' \in [Object -> DataType]
  BY <1>1, <1>2, Sets
<1>4. OnlyOwnData(v) /\ OnlyOwnMemory(v)
  BY <1>3, Remembers DEF OnlyOwnData, OnlyOwnMemory
<1>5. TypeOK'
  <2>1. Free \in [type : {"Null", "String"} \cup Arrays, content : Seq(Int)]
    BY DEF Free
  <2>2. heap'[b] \in [type : {"Null", "String"} \cup Arrays, content : Seq(Int)]
    BY DEF Literal, IsArray
  <2>3. ASSUME NEW x \in Block PROVE heap'[x] \in [type : {"Null", "String"} \cup Arrays, content : Seq(Int)]
    BY <2>1, <2>2 DEF TypeOK
  <2>4. heap' \in [Block -> [type : {"Null", "String"} \cup Arrays, content : Seq(Int)]]
    BY <2>3
  <2> QED BY <1>3, <2>4, Remembers DEF TypeOK, DataType, Items, AllLiterals
<1>6. PointersInv'
  <2>1. heap'[b].type # "Null"
    BY <1>1 DEF Literal
  <2>2. Pointer(b) = m_data[v].item \/ heap[b] = Free
    OBVIOUS
  <2>3. PointersInv
    BY DEF MemoryInv
  <2>4. m_data'[v].item = Pointer(b)
    BY <1>3
  <2> QED BY <1>2, <1>4, <2>1, <2>2, <2>3, <2>4, PointersStay
<1>7. \A u \in Object : Holds(u)'
  <2>1. l.content # Nil => heap'[b] = l
    BY LiteralShape
  <2>2. IsArray(l.type) => heap'[b] = l
    BY <1>1, LiteralShape DEF IsArray, Arrays, Numeric, Narrow
  <2>3. assigned'[v] = l
    BY Remembers
  <2>4. l.type # "String" => n = Len(l.content)
    OBVIOUS
  <2>5. Holds(v)'
    BY <1>1, <1>2, <1>3, <2>1, <2>2, <2>3, <2>4 DEF Holds, Given, IsPointer, IsArray, Arrays, Numeric, Narrow
  <2> QED BY <1>4, <2>5, OthersHold DEF MemoryInv
<1>8. ASSUME ~mixed' PROVE \A u \in Object : Keeps(u)'
  <2>1. ~mixed /\ kept'[v] = l.type
    BY <1>8, Remembers
  <2>2. l.type # "none"
    BY <1>1 DEF TypeId, Arrays, Numeric, Narrow
  <2>3. l.type = "String" => heap'[b].type = "String"
    BY DEF Literal
  <2>4. Keeps(v)'
    BY <1>1, <1>2, <1>3, <2>1, <2>2, <2>3, NumberFacts DEF Keeps, Points, IsPointer
  <2> QED BY <1>4, <2>1, <2>4, OthersHold DEF MemoryInv
<1>9. ASSUME ~mixed', NEW x \in Block, heap'[x] # Free PROVE Owned(x)'
  <2>1. CASE x = b
    <3>1. m_data'[v].type = heap'[b].type /\ m_data'[v].item = Pointer(b)
      BY <1>3 DEF Literal
    <3> QED BY <2>1, <3>1 DEF Owned, Pointer
  <2>2. CASE x # b
    <3>1. heap'[x] = heap[x] /\ heap[x] # Free
      BY <1>9, <2>2
    <3>2. ~mixed
      BY <1>9, Remembers
    <3>3. PICK u \in Object : m_data[u].type = heap[x].type /\ m_data[u].item = Pointer(x)
      BY <3>1, <3>2 DEF MemoryInv, Owned
    <3>4. u # v
      BY <1>9, <2>2, <3>3
    <3> QED BY <1>3, <3>1, <3>3, <3>4 DEF Owned, Pointer
  <2> QED BY <2>1, <2>2
<1> QED BY <1>5, <1>6, <1>7, <1>8, <1>9 DEF MemoryInv

\* Where memory was misused, the objects have not kept to their types.
LEMMA BreakStep ==
  ASSUME TypeOK, NEW v \in Object, NEW l \in AllLiterals, Remember(v, l), Break, mixed'
  PROVE  TypeOK' /\ MemoryInv'
BY Remembers DEF TypeOK, MemoryInv, Break, AllLiterals

\* A null string: the type is set, the item stays.
LEMMA NullStringStep ==
  ASSUME TypeOK, MemoryInv, ~broken, NEW v \in Object, NEW l \in AllLiterals,
         l = Literal("String", Nil), Remember(v, l),
         SetData(v, "String", m_data[v].item, m_data[v].size), UNCHANGED <<heap, broken>>
  PROVE  TypeOK' /\ MemoryInv'
<1> DEFINE old == m_data[v]
<1>1. old \in DataType /\ old.item \in Items /\ old.size \in Nat
  BY DEF TypeOK, DataType, Items
<1>2. /\ m_data'[v] = [type |-> "String", item |-> old.item, size |-> old.size]
      /\ \A w \in Object \ {v} : m_data'[w] = m_data[w]
      /\ m_data' \in [Object -> DataType]
  BY <1>1, Sets DEF TypeId, Numeric, Narrow
<1>3. OnlyOwnData(v) /\ OnlyOwnMemory(v)
  BY <1>2, Remembers DEF OnlyOwnData, OnlyOwnMemory
<1>4. l.type = "String" /\ l.content = Nil
  BY DEF Literal
<1>5. TypeOK'
  BY <1>2, Remembers DEF TypeOK, DataType, Items, AllLiterals
<1>6. PointersInv'
  <2>1. IsPointer(old.item) => heap'[old.item.lo].type # "Null"
    BY DEF MemoryInv, PointersInv
  <2> QED BY <1>1, <1>2, <1>3, <2>1, PointersStay DEF MemoryInv
<1>7. \A u \in Object : Holds(u)'
  <2>1. Holds(v)'
    BY <1>2, <1>4, Remembers DEF Holds, Given, IsArray, Arrays, Numeric, Narrow
  <2> QED BY <1>3, <2>1, OthersHold DEF MemoryInv
<1>8. ASSUME ~mixed' PROVE ~mixed /\ (kept[v] = "none" \/ kept[v] = "String") /\ kept'[v] = "String"
  BY <1>4, <1>8, Remembers
<1>9. ASSUME ~mixed' PROVE \A u \in Object : Keeps(u)'
  <2>1. old.item = NoItem \/ Points(old.item, "String")
    BY <1>8, <1>9 DEF MemoryInv, Keeps
  <2>2. Keeps(v)'
    BY <1>2, <1>8, <1>9, <2>1, NumberFacts DEF Keeps, Points, IsPointer
  <2> QED BY <1>3, <1>8, <1>9, <2>2, OthersHold DEF MemoryInv
<1>10. ASSUME ~mixed', NEW b \in Block, heap[b] # Free PROVE Owned(b)'
  <2>1. PICK u \in Object : m_data[u].type = heap[b].type /\ m_data[u].item = Pointer(b)
    BY <1>8, <1>10 DEF MemoryInv, Owned
  <2>2. CASE u = v
    <3>1. old.item # NoItem
      BY <2>1, <2>2, ItemFacts
    <3>2. heap[b].type = "String"
      BY <1>8, <1>10, <2>1, <2>2, <3>1 DEF MemoryInv, Keeps
    <3> QED BY <1>2, <2>1, <2>2, <3>2 DEF Owned, Pointer
  <2>3. CASE u # v
    BY <1>2, <2>1, <2>3 DEF Owned, Pointer
  <2> QED BY <2>2, <2>3
<1> QED BY <1>5, <1>6, <1>7, <1>9, <1>10 DEF MemoryInv

LEMMA StringStep ==
  ASSUME TypeOK, MemoryInv, ~broken, NEW v \in Object, NEW l \in AllLiterals,
         NEW src, IsSource(src, l), AssignString(v, src), Remember(v, l)
  PROVE  TypeOK' /\ MemoryInv'
<1> DEFINE old == m_data[v]
<1>1. old \in DataType /\ old.item \in Items /\ old.size \in Nat
  BY DEF TypeOK, DataType, Items
<1>2. src.type = "String" /\ l.type = "String"
  BY DEF AssignString, IsSource
<1>3. CASE src.item = NoItem /\ SetData(v, "String", old.item, old.size) /\ UNCHANGED <<heap, broken>>
  <2>1. l = Literal("String", Nil)
    BY <1>2, <1>3, LiteralShape DEF IsSource
  <2> QED BY <1>3, <2>1, NullStringStep
<1>4. ASSUME src.item # NoItem, old.item = NoItem, UNCHANGED broken,
             NEW b \in Block, Allocate(b),
             heap' = [heap EXCEPT ![b] = Literal("String", src.content)],
             SetData(v, "String", Pointer(b), old.size)
      PROVE  TypeOK' /\ MemoryInv'
  <2>1. src.content \in Seq(Int) /\ (l.content # Nil => src.content = l.content)
    BY <1>2, <1>4 DEF IsSource
  <2>2. /\ heap'[b] = Literal("String", src.content) /\ heap' = [x \in Block |-> heap'[x]]
        /\ \A x \in Block \ {b} : heap'[x] = heap[x]
    BY <1>4 DEF TypeOK
  <2>3. heap[b] = Free
    BY <1>4 DEF Allocate
  <2>4. \A x \in Block : old.item # Pointer(x)
    BY <1>4, ItemFacts
  <2>5. /\ SetData(v, l.type, Pointer(b), old.size)
        /\ heap'[b] = Literal(l.type, src.content)
    BY <1>2, <1>4, <2>2
  <2>6. /\ \A x \in Block \ {b} :
             heap'[x] # heap[x] => heap'[x] = Free /\ old.item = Pointer(x)
        /\ \A x \in Block \ {b} :
             old.type = heap[x].type /\ old.item = Pointer(x) => heap'[x] = Free
    BY <2>2, <2>4
  <2>7. WritesOwn(v, l, src.content, old.size, b)
    BY <1>4, <2>2, <2>3, <2>5, <2>6 DEF WritesOwn
  <2>8. ~IsArray(l.type)
    BY <1>2 DEF IsArray, Arrays, Numeric, Narrow
  <2> QED BY <1>1, <1>2, <2>1, <2>7, <2>8, OwnBlockStep
<1>5. ASSUME src.item # NoItem, Points(old.item, "String"), UNCHANGED broken,
             heap' = [heap EXCEPT ![old.item.lo] = Literal("String", src.content)],
             SetData(v, "String", old.item, old.size)
      PROVE  TypeOK' /\ MemoryInv'
  <2>1. src.content \in Seq(Int) /\ (l.content # Nil => src.content = l.content)
    BY <1>2, <1>5 DEF IsSource
  <2>2. PICK b \in Block : old.item = Pointer(b) /\ old.item.lo = b
    BY <1>1, <1>5, ItemFacts DEF Points
  <2>3. /\ heap'[b] = Literal("String", src.content) /\ heap' = [x \in Block |-> heap'[x]]
        /\ \A x \in Block \ {b} : heap'[x] = heap[x]
    BY <1>5, <2>2 DEF TypeOK
  <2>4. \A x \in Block \ {b} : old.item # Pointer(x)
    BY <2>2, ItemFacts
  <2>5. /\ SetData(v, l.type, Pointer(b), old.size)
        /\ heap'[b] = Literal(l.type, src.content)
    BY <1>2, <1>5, <2>2, <2>3
  <2>6. /\ \A x \in Block \ {b} :
             heap'[x] # heap[x] => heap'[x] = Free /\ old.item = Pointer(x)
        /\ \A x \in Block \ {b} :
             old.type = heap[x].type /\ old.item = Pointer(x) => heap'[x] = Free
    BY <2>3, <2>4
  <2>7. WritesOwn(v, l, src.content, old.size, b)
    BY <1>5, <2>2, <2>3, <2>5, <2>6 DEF WritesOwn
  <2>8. ~IsArray(l.type)
    BY <1>2 DEF IsArray, Arrays, Numeric, Narrow
  <2> QED BY <1>1, <1>2, <2>1, <2>7, <2>8, OwnBlockStep
<1>6. CASE src.item # NoItem /\ old.item # NoItem /\ ~Points(old.item, "String") /\ Break
  <2>1. ASSUME ~mixed, kept[v] = "none" \/ kept[v] = "String" PROVE FALSE
    BY <1>6, <2>1 DEF MemoryInv, Keeps
  <2>2. mixed'
    BY <1>2, <2>1, Remembers
  <2> QED BY <1>6, <2>2, BreakStep
<1> QED BY <1>3, <1>4, <1>5, <1>6 DEF AssignString

LEMMA ArrayStep ==
  ASSUME TypeOK, MemoryInv, ~broken, NEW v \in Object, NEW l \in AllLiterals,
         NEW src, IsSource(src, l), AssignArray(v, src), Remember(v, l)
  PROVE  TypeOK' /\ MemoryInv'
<1> DEFINE old == m_data[v]
           owned == IsArray(old.type) /\ old.item # NoItem
<1>1. old \in DataType /\ old.item \in Items
  BY DEF TypeOK, DataType, Items
<1>2. /\ src.type = l.type /\ IsArray(l.type)
      /\ src.content = l.content /\ l.content \in Seq(Int) /\ src.size = Len(l.content)
  BY LiteralShape DEF AssignArray, IsSource
\* The object keeps to its type: what it has is an array of this type, its own.
<1>3. ASSUME ~mixed'
      PROVE  /\ old.type = l.type \/ old.item = NoItem
             /\ old.type \in {"Null", l.type}
             /\ IsArray(old.type) => IsPointer(old.item) /\ heap[old.item.lo].type = old.type
  <2>1. ~mixed /\ (kept[v] = "none" \/ kept[v] = l.type)
    BY <1>2, <1>3, Remembers
  <2>2. Keeps(v) /\ Holds(v)
    BY <2>1 DEF MemoryInv
  <2>3. old.type \in {"Null", l.type} /\ (old.type = "Null" => old.item = NoItem)
    BY <2>1, <2>2 DEF Keeps
  <2>4. IsArray(old.type) => IsPointer(old.item) /\ heap[old.item.lo].type = old.type
    BY <2>2 DEF Holds
  <2> QED BY <2>3, <2>4
<1>4. ASSUME owned => Points(old.item, src.type), UNCHANGED broken,
             NEW b \in Block, Allocate(b) \/ (owned /\ b = old.item.lo),
             heap' = [x \in Block |->
                  IF x = b THEN Literal(src.type, src.content)
                  ELSE IF owned /\ x = old.item.lo THEN Free ELSE heap[x]],
             SetData(v, src.type, Pointer(b), src.size)
      PROVE  TypeOK' /\ MemoryInv'
  <2>1. owned => old.item = Pointer(old.item.lo)
    BY <1>1, <1>4, ItemFacts DEF Points
  <2>2. SetData(v, l.type, Pointer(b), src.size)
    BY <1>2, <1>4
  <2>3. heap[b] = Free \/ old.item = Pointer(b)
    BY <1>4, <2>1 DEF Allocate
  <2>4. heap'[b] = Literal(l.type, src.content) /\ heap' = [x \in Block |-> heap'[x]]
    BY <1>2, <1>4
  <2>5. ASSUME NEW x \in Block \ {b}, heap'[x] # heap[x]
        PROVE  heap'[x] = Free /\ old.item = Pointer(x)
    BY <1>4, <2>1, <2>5
  <2>6. ASSUME ~mixed', NEW x \in Block \ {b}, old.type = heap[x].type, old.item = Pointer(x)
        PROVE  heap'[x] = Free
    <3>1. old.item # NoItem /\ old.item.lo = x
      BY <2>6, ItemFacts
    <3>2. old.type = l.type
      BY <1>3, <2>6, <3>1
    <3>3. owned
      BY <1>2, <3>1, <3>2
    <3> QED BY <1>4, <3>1, <3>3
  <2>7. WritesOwn(v, l, src.content, src.size, b)
    BY <1>4, <2>2, <2>3, <2>4, <2>5, <2>6 DEF WritesOwn
  <2>8. src.size \in Nat
    BY <1>2
  <2> QED BY <1>2, <2>7, <2>8, OwnBlockStep
<1>5. CASE owned /\ ~Points(old.item, src.type) /\ Break
  <2>1. ASSUME ~mixed' PROVE FALSE
    <3>1. old.type = l.type
      BY <1>3, <1>5, <2>1
    <3>2. Points(old.item, l.type)
      BY <1>2, <1>3, <2>1, <3>1 DEF Points
    <3> QED BY <1>2, <1>5, <3>2
  <2> QED BY <1>5, <2>1, BreakStep
<1> QED BY <1>4, <1>5 DEF AssignArray

-----------------------------------------------------------------------------
(* The operations.                                                         *)

LEMMA AssignStep ==
  ASSUME TypeOK, MemoryInv, ~broken, NEW v \in Object, NEW l \in AllLiterals,
         NEW src, IsSource(src, l), AssignFrom(v, src), Remember(v, l)
  PROVE  TypeOK' /\ MemoryInv'
BY ScalarStep, StringStep, ArrayStep DEF AssignFrom

LEMMA CopyStep ==
  ASSUME TypeOK, MemoryInv, NEW v \in Object, NEW w \in Object, Copy(v, w)
  PROVE  TypeOK' /\ MemoryInv'
<1>1. ~broken /\ assigned[w] \in AllLiterals /\ Remember(v, assigned[w])
  BY DEF Copy, TypeOK, AllLiterals
<1>2. CASE Readable(w) /\ AssignFrom(v, Source(w))
  <2>1. IsSource(Source(w), assigned[w])
    BY <1>1, <1>2, ObjectIsSource DEF MemoryInv
  <2> QED BY <1>1, <1>2, <2>1, AssignStep
<1>3. CASE ~Readable(w) /\ Break
  <2>1. ASSUME ~mixed PROVE Readable(w)
    <3>1. Keeps(w) /\ Holds(w)
      BY <1>1, <2>1 DEF MemoryInv
    <3>2. m_data[w].type = "String" => Readable(w)
      BY <3>1 DEF Keeps, Readable
    <3>3. IsArray(m_data[w].type) => Readable(w)
      BY <3>1 DEF Holds, Readable, Points
    <3> QED BY <3>2, <3>3 DEF Readable, IsArray
  <2>2. mixed'
    BY <1>1, <1>3, <2>1, Remembers
  <2> QED BY <1>1, <1>3, <2>2, BreakStep
<1> QED BY <1>2, <1>3 DEF Copy

LEMMA DestroyStep ==
  ASSUME TypeOK, MemoryInv, NEW v \in Object, Destroy(v)
  PROVE  TypeOK' /\ MemoryInv'
<1> DEFINE old == m_data[v]
           owns == old.type \in {"String"} \cup Arrays /\ old.item # NoItem
<1>1. old \in DataType /\ old.item \in Items /\ EmptyData \in DataType /\ NullLiteral \in AllLiterals
  BY NumberFacts DEF TypeOK, DataType, Items, EmptyData, NoItem, TypeId, Numeric, Narrow, AllLiterals
<1>2. /\ ~broken /\ UNCHANGED mixed
      /\ assigned'[v] = NullLiteral /\ kept'[v] = "none"
      /\ \A w \in Object \ {v} : assigned'[w] = assigned[w] /\ kept'[w] = kept[w]
      /\ assigned' \in [Object -> AllLiterals] /\ kept' \in [Object -> TypeId \cup {"none"}]
  BY <1>1 DEF Destroy, TypeOK, AllLiterals
<1>3. CASE /\ Readable(v)
           /\ heap' = [b \in Block |-> IF owns /\ b = old.item.lo THEN Free ELSE heap[b]]
           /\ m_data' = [m_data EXCEPT ![v] = EmptyData]
           /\ UNCHANGED broken
  <2>1. /\ m_data'[v] = EmptyData /\ \A w \in Object \ {v} : m_data'[w] = m_data[w]
        /\ m_data' \in [Object -> DataType]
    BY <1>1, <1>3 DEF TypeOK, DataType, Items
  <2>2. owns => IsPointer(old.item) /\ old.item = Pointer(old.item.lo)
    BY <1>1, <1>3, ItemFacts DEF Readable, Points
  <2>3. OnlyOwnData(v) /\ OnlyOwnMemory(v)
    BY <1>2, <1>3, <2>1, <2>2 DEF OnlyOwnData, OnlyOwnMemory
  <2>4. TypeOK'
    <3>1. heap' \in [Block -> [type : {"Null", "String"} \cup Arrays, content : Seq(Int)]]
      BY <1>3 DEF TypeOK, Free
    <3> QED BY <1>2, <1>3, <2>1, <3>1 DEF TypeOK, DataType, Items, AllLiterals
  <2>5. PointersInv'
    <3>1. m_data'[v].item = NoItem
      BY <2>1 DEF EmptyData
    <3> QED BY <2>3, <3>1, PointersStay, ItemFacts, <1>2 DEF MemoryInv
  <2>6. Holds(v)' /\ Keeps(v)'
    BY <1>2, <2>1 DEF Holds, Keeps, EmptyData, NullLiteral, Literal, IsArray, Arrays, Numeric, Narrow
  <2>7. /\ \A u \in Object : Holds(u)'
        /\ ~mixed' => \A u \in Object : Keeps(u)'
    BY <1>2, <2>3, <2>6, OthersHold DEF MemoryInv
  <2>8. ASSUME ~mixed', NEW b \in Block, heap'[b] # Free PROVE Owned(b)'
    <3>1. heap'[b] = heap[b] /\ heap[b] # Free /\ ~(owns /\ b = old.item.lo)
      BY <1>3, <2>8
    <3>2. PICK u \in Object : m_data[u].type = heap[b].type /\ m_data[u].item = Pointer(b)
      BY <1>2, <2>8, <3>1 DEF MemoryInv, Owned
    <3>3. IsPointer(m_data[u].item) /\ m_data[u].item.lo = b /\ m_data[u].item # NoItem
      BY <3>2, ItemFacts
    <3>4. heap[b].type \in {"String"} \cup Arrays
      BY <1>2, <3>3 DEF MemoryInv, PointersInv, TypeOK
    <3>5. u # v
      BY <3>1, <3>2, <3>3, <3>4
    <3> QED BY <2>1, <3>1, <3>2, <3>5 DEF Owned, Pointer
  <2> QED BY <1>2, <1>3, <2>4, <2>5, <2>7, <2>8 DEF MemoryInv
<1>4. CASE ~Readable(v) /\ Break
  <2>1. ASSUME ~mixed PROVE Readable(v)
    <3>1. Keeps(v) /\ Holds(v)
      BY <1>2, <2>1 DEF MemoryInv
    <3> QED BY <3>1 DEF Keeps, Holds, Readable, Points, IsArray
  <2> QED BY <1>2, <1>4, <2>1 DEF TypeOK, MemoryInv, Break, AllLiterals
<1> QED BY <1>3, <1>4 DEF Destroy

LEMMA MemoryStep ==
  ASSUME TypeOK, MemoryInv, [Next]_vars PROVE TypeOK' /\ MemoryInv'
<1>1. ASSUME NEW v \in Object, NEW l \in Literals, AssignLiteral(v, l)
      PROVE  TypeOK' /\ MemoryInv'
  <2>1. l \in AllLiterals
    BY DEF AllLiterals
  <2> QED BY <1>1, <2>1, LiteralIsSource, AssignStep DEF AssignLiteral
<1>2. ASSUME NEW v \in Object, NEW w \in Object, Copy(v, w)
      PROVE  TypeOK' /\ MemoryInv'
  BY <1>2, CopyStep
<1>3. ASSUME NEW v \in Object, Destroy(v)
      PROVE  TypeOK' /\ MemoryInv'
  BY <1>3, DestroyStep
<1>4. CASE UNCHANGED vars
  <2>1. TypeOK'
    BY <1>4 DEF vars, historyVars, TypeOK
  <2>2. PointersInv' <=> PointersInv
    BY <1>4 DEF vars, PointersInv, IsPointer
  <2>3. \A v \in Object : (Holds(v)' <=> Holds(v)) /\ (Keeps(v)' <=> Keeps(v))
    BY <1>4 DEF vars, historyVars, Holds, Keeps, Given, Points, IsPointer, IsArray
  <2>4. \A b \in Block : Owned(b)' <=> Owned(b)
    BY <1>4 DEF vars, Owned, Pointer
  <2>5. mixed' = mixed /\ broken' = broken /\ heap' = heap
    BY <1>4 DEF vars, historyVars
  <2> QED BY <2>1, <2>2, <2>3, <2>4, <2>5 DEF MemoryInv
<1>5. CASE Over
  BY <1>4, <1>5 DEF Over
<1> QED BY <1>1, <1>2, <1>3, <1>4, <1>5 DEF Next

LEMMA MemoryInit == Init => TypeOK /\ MemoryInv
<1> SUFFICES ASSUME Init PROVE TypeOK /\ MemoryInv
  OBVIOUS
<1>1. TypeOK
  <2>1. EmptyData \in [type : TypeId, size : Nat, item : [lo : Block \cup Digits, hi : {Heap} \cup Digits]]
    BY NumberFacts DEF EmptyData, NoItem, TypeId, Numeric, Narrow
  <2>2. Free \in [type : {"Null", "String"} \cup Arrays, content : Seq(Int)]
    BY DEF Free
  <2> QED BY <2>1, <2>2 DEF Init, TypeOK
<1>2. PointersInv
  BY ItemFacts DEF Init, PointersInv, EmptyData
<1>3. \A v \in Object : Holds(v) /\ Keeps(v)
  BY DEF Init, Holds, Keeps, EmptyData, NullLiteral, Literal, IsArray, Arrays, Numeric, Narrow
<1> QED BY <1>1, <1>2, <1>3 DEF Init, MemoryInv

LEMMA MemoryAlways == Spec => [](TypeOK /\ MemoryInv)
BY MemoryInit, MemoryStep, PTL DEF Spec

-----------------------------------------------------------------------------
\* Every variable keeps its type, for any objects, blocks and literals.
THEOREM TypeCorrect == Spec => []TypeOK
BY MemoryAlways, PTL

\* As long as every object keeps to one type, Value never reads, writes or
\* frees memory through anything but a pointer to a living block of that type.
THEOREM MemoryNotMisused == Spec => []MemorySafe
<1>1. MemoryInv => MemorySafe
  BY DEF MemoryInv, MemorySafe
<1> QED BY <1>1, MemoryAlways, PTL

\* As long as every object keeps to one type, nothing leaks or is shared.
THEOREM OneOwner == Spec => []OwnedOnce
<1>1. TypeOK /\ MemoryInv => OwnedOnce
  <2> SUFFICES ASSUME TypeOK, MemoryInv, ~broken, ~mixed, NEW b \in Block, heap[b] # Free
               PROVE  \E v \in Object :
                        /\ m_data[v].type = heap[b].type /\ m_data[v].item = Pointer(b)
                        /\ \A w \in Object \ {v} : m_data[w].item # Pointer(b)
    BY DEF OwnedOnce
  <2>1. PICK v \in Object : m_data[v].type = heap[b].type /\ m_data[v].item = Pointer(b)
    BY DEF MemoryInv, Owned
  <2>2. \A w \in Object \ {v} : m_data[w].item # Pointer(b)
    BY <2>1, ItemFacts DEF MemoryInv, PointersInv
  <2> QED BY <2>1, <2>2
<1> QED BY <1>1, MemoryAlways, PTL

\* The text and the elements an object holds, as the accessors find them.
LEMMA HeldContent ==
  ASSUME TypeOK, NEW v \in Object, Holds(v), Given(v),
         m_data[v].type = "String" \/ IsArray(m_data[v].type)
  PROVE  /\ Content(v) = assigned[v].content /\ m_data[v].item # NoItem
         /\ IsArray(m_data[v].type) =>
              SubSeq(Content(v), 1, m_data[v].size) = assigned[v].content
<1>1. IsPointer(m_data[v].item) /\ heap[m_data[v].item.lo] = assigned[v]
  BY DEF Holds
<1>2. Content(v) = assigned[v].content
  BY <1>1 DEF Content
<1>3. IsArray(m_data[v].type) => assigned[v].content \in Seq(Int) /\ m_data[v].size = Len(assigned[v].content)
  BY LiteralShape DEF Holds, TypeOK, AllLiterals
<1>4. \A s \in Seq(Int) : SubSeq(s, 1, Len(s)) = s
  OBVIOUS
<1> QED BY <1>1, <1>2, <1>3, <1>4, ItemFacts

\* The digits of the number it holds.
LEMMA HeldDigits ==
  ASSUME TypeOK, NEW v \in Object, Holds(v), m_data[v].type \in Numeric
  PROVE  /\ m_data[v].item.lo = assigned[v].content[1]
         /\ m_data[v].type = "Int64" \/ Keeps(v) => m_data[v].item.hi = assigned[v].content[2]
<1>1. assigned[v] \in AllLiterals /\ m_data[v].type = assigned[v].type
  BY DEF TypeOK, AllLiterals, Holds
<1>2. CASE m_data[v].type \in Narrow
  <2>1. m_data[v].item.lo = assigned[v].content[1]
    BY <1>2 DEF Holds
  <2>2. Keeps(v) => m_data[v].item.hi = 0
    BY <1>2 DEF Keeps
  <2>3. assigned[v].content[2] = 0
    BY <1>1, <1>2, LiteralShape
  <2> QED BY <1>2, <2>1, <2>2, <2>3, NumberFacts
<1>3. CASE m_data[v].type = "Int64"
  <2>1. m_data[v].item = [lo |-> assigned[v].content[1], hi |-> assigned[v].content[2]]
    BY <1>3 DEF Holds
  <2> QED BY <2>1
<1> QED BY <1>2, <1>3, NumberFacts

\* An object shows the value it was last given, also after it held other
\* types; only a null string is not taken over.
THEOREM LastAssignedShown == Spec => []ShowsLastAssigned
<1>1. TypeOK /\ MemoryInv => ShowsLastAssigned
  <2> SUFFICES ASSUME TypeOK, MemoryInv, ~broken, NEW v \in Object, Given(v)
               PROVE  Shown(v) = assigned[v]
    BY DEF ShowsLastAssigned
  <2> DEFINE d == m_data[v]
             l == assigned[v]
  <2>1. Holds(v) /\ d.type = l.type
    BY DEF MemoryInv, Holds
  <2>2. l \in AllLiterals /\ l = Literal(l.type, l.content) /\ l.type \in TypeId
    BY LiteralShape DEF TypeOK, AllLiterals
  <2>3. CASE l.type = "Null"
    <3>1. Shown(v) = NullLiteral
      BY <2>1, <2>3 DEF Shown, IsArray, Arrays, Numeric, Narrow
    <3> QED BY <2>2, <2>3, <3>1, LiteralShape DEF NullLiteral
  <2>4. CASE l.type \in Narrow
    <3>1. Shown(v) = Literal(l.type, <<d.item.lo, 0>>)
      BY <2>1, <2>4 DEF Shown, IsArray, Arrays, Numeric, Narrow
    <3>2. l.content = <<l.content[1], 0>>
      BY <2>2, <2>4, LiteralShape
    <3> QED BY <2>1, <2>2, <2>4, <3>1, <3>2 DEF Holds
  <2>5. CASE l.type = "Int64"
    <3>1. Shown(v) = Literal("Int64", <<d.item.lo, d.item.hi>>)
      BY <2>1, <2>5 DEF Shown, IsArray, Arrays, Numeric, Narrow
    <3>2. l.content = <<l.content[1], l.content[2]>>
      BY <2>2, <2>5, LiteralShape
    <3>3. d.item.lo = l.content[1] /\ d.item.hi = l.content[2]
      BY <2>1, <2>5 DEF Holds
    <3> QED BY <2>2, <2>5, <3>1, <3>2, <3>3
  <2>6. CASE l.type = "String"
    <3>1. Shown(v) = Literal("String", Content(v))
      BY <2>1, <2>6 DEF Shown, IsArray, Arrays, Numeric, Narrow
    <3> QED BY <2>1, <2>2, <2>6, <3>1, HeldContent
  <2>7. CASE IsArray(l.type)
    <3>1. Shown(v) = Literal(d.type, SubSeq(Content(v), 1, d.size))
      BY <2>1, <2>7 DEF Shown, IsArray, Arrays, Numeric, Narrow
    <3> QED BY <2>1, <2>2, <2>7, <3>1, HeldContent
  <2> QED BY <2>2, <2>3, <2>4, <2>5, <2>6, <2>7 DEF TypeId, IsArray, Numeric, Narrow
<1> QED BY <1>1, MemoryAlways, PTL

\* v = w; makes v show what w shows, whatever either held before, unless w was
\* last given a null string.
THEOREM CopiesShowSame ==
  Spec => [][\A v, w \in Object :
               Copy(v, w) /\ Given(w) /\ ~broken' => Shown(v)' = Shown(w)']_vars
<1>1. TypeOK /\ ShowsLastAssigned' =>
        [\A v, w \in Object :
           Copy(v, w) /\ Given(w) /\ ~broken' => Shown(v)' = Shown(w)']_vars
  <2> SUFFICES ASSUME TypeOK, ShowsLastAssigned', ~broken',
                      NEW v \in Object, NEW w \in Object, Copy(v, w), Given(w)
               PROVE  Shown(v)' = Shown(w)'
    OBVIOUS
  <2>1. v # w /\ assigned' = [assigned EXCEPT ![v] = assigned[w]]
    BY DEF Copy, Remember
  <2>2. assigned'[v] = assigned[w] /\ assigned'[w] = assigned[w]
    BY <2>1 DEF TypeOK
  <2>3. Given(v)' /\ Given(w)'
    BY <2>2 DEF Given
  <2> QED BY <2>2, <2>3 DEF ShowsLastAssigned
<1> QED
  BY <1>1, TypeCorrect, LastAssignedShown, PTL DEF Spec

\* A program that never assigns a null string never sees the difference between
\* an object and its copy: the null string is all that CopiesAlike fails for.
THEOREM CopiesAlikeWithoutNull ==
  ASSUME \A l \in Literals \cup {NullLiteral} : l.content # Nil
  PROVE  Spec => CopiesAlike
<1>1. TypeOK => \A w \in Object : Given(w)
  BY DEF TypeOK, Given
<1>2. TypeOK /\ [\A v, w \in Object :
                   Copy(v, w) /\ Given(w) /\ ~broken' => Shown(v)' = Shown(w)']_vars
        => [\A v, w \in Object : Copy(v, w) /\ ~broken' => Shown(v)' = Shown(w)']_vars
  BY <1>1
<1> QED
  BY <1>2, TypeCorrect, CopiesShowSame, PTL DEF CopiesAlike

\* v = literal;  v = w;  or the end of v.
ActsOn(v) ==
  (\E l \in Literals : AssignLiteral(v, l)) \/ (\E w \in Object : Copy(v, w)) \/ Destroy(v)

\* AssignFrom writes only the object's own memory, or new memory.
LEMMA AssignsOwn ==
  ASSUME TypeOK, NEW v \in Object, NEW src, AssignFrom(v, src), ~broken'
  PROVE  /\ OnlyOwnMemory(v)
         /\ \A w \in Object \ {v} : m_data'[w] = m_data[w]
<1> DEFINE old == m_data[v].item
<1>1. old \in Items
  BY DEF TypeOK, Items
<1>2. IsPointer(old) => old = Pointer(old.lo)
  BY <1>1, ItemFacts
<1>3. ASSUME NEW t, NEW i, NEW n, SetData(v, t, i, n)
      PROVE  \A w \in Object \ {v} : m_data'[w] = m_data[w]
  BY <1>3 DEF SetData, TypeOK
<1>4. CASE AssignScalar(v, src)
  BY <1>3, <1>4 DEF AssignScalar, OnlyOwnMemory
<1>5. CASE AssignString(v, src)
  <2>1. \E i, n : SetData(v, "String", i, n)
    BY <1>5 DEF AssignString, Break
  <2>2. \/ heap' = heap
        \/ \E l : \E b \in Block : Allocate(b) /\ heap' = [heap EXCEPT ![b] = l]
        \/ \E l : IsPointer(old) /\ heap' = [heap EXCEPT ![old.lo] = l]
    BY <1>5 DEF AssignString, Break, Points
  <2>3. OnlyOwnMemory(v)
    BY <1>2, <2>2 DEF OnlyOwnMemory, Allocate, TypeOK
  <2> QED BY <1>3, <2>1, <2>3
<1>6. CASE AssignArray(v, src)
  <2>1. \E i, n : SetData(v, src.type, i, n)
    BY <1>6 DEF AssignArray, Break
  <2>2. \A b \in Block : heap'[b] # heap[b] => heap[b] = Free \/ (IsPointer(old) /\ b = old.lo)
    <3> DEFINE owned == IsArray(m_data[v].type) /\ old # NoItem
    <3>1. owned => IsPointer(old)
      BY <1>6 DEF AssignArray, Break, Points
    <3>2. \E b \in Block :
            /\ Allocate(b) \/ (owned /\ b = old.lo)
            /\ heap' = [x \in Block |->
                 IF x = b THEN Literal(src.type, src.content)
                 ELSE IF owned /\ x = old.lo THEN Free ELSE heap[x]]
      BY <1>6 DEF AssignArray, Break
    <3> HIDE DEF owned
    <3>3. \E b \in Block :
            /\ Allocate(b) \/ (owned /\ b = old.lo)
            /\ \A x \in Block : heap'[x] # heap[x] => x = b \/ (owned /\ x = old.lo)
      BY <3>2
    <3> QED BY <3>1, <3>3 DEF Allocate
  <2>3. OnlyOwnMemory(v)
    BY <1>2, <2>2 DEF OnlyOwnMemory
  <2> QED BY <1>3, <2>1, <2>3
<1> QED BY <1>4, <1>5, <1>6 DEF AssignFrom

\* A Value has the semantics of a value: whatever is assigned to an object, and
\* when it goes, no other object shows anything else than before.
THEOREM OthersUndisturbed ==
  Spec => [][\A v \in Object : ActsOn(v) /\ ~broken' =>
               \A w \in Object \ {v} : Shown(w)' = Shown(w)]_vars
<1>1. ASSUME TypeOK, MemoryInv, ~broken', NEW v \in Object, ActsOn(v), NEW w \in Object \ {v}
      PROVE  Shown(w)' = Shown(w)
  <2>1. ~broken /\ PointersInv
    BY <1>1 DEF ActsOn, AssignLiteral, Copy, Destroy, MemoryInv
  <2>2. OnlyOwnMemory(v) /\ \A u \in Object \ {v} : m_data'[u] = m_data[u]
    <3>1. CASE \E src : AssignFrom(v, src)
      BY <1>1, <3>1, AssignsOwn
    <3>2. CASE Destroy(v)
      <4>1. m_data[v].item \in Items
        BY <1>1 DEF TypeOK, Items
      <4>2. /\ Readable(v)
            /\ m_data' = [m_data EXCEPT ![v] = EmptyData]
            /\ \A b \in Block : heap'[b] # heap[b] =>
                 /\ m_data[v].type \in {"String"} \cup Arrays /\ m_data[v].item # NoItem
                 /\ b = m_data[v].item.lo
        BY <1>1, <3>2 DEF Destroy, Break
      <4>3. OnlyOwnMemory(v)
        BY <4>1, <4>2, ItemFacts DEF OnlyOwnMemory, Readable, Points
      <4> QED BY <1>1, <4>2, <4>3 DEF TypeOK
    <3> QED BY <1>1, <3>1, <3>2 DEF ActsOn, AssignLiteral, Copy, Break
  <2>3. OnlyOwnData(v)
    BY <1>1, <2>2 DEF OnlyOwnData, ActsOn, AssignLiteral, Copy, Destroy, Remember, TypeOK
  <2>4. IsPointer(m_data[w].item) => heap'[m_data[w].item.lo] = heap[m_data[w].item.lo]
    BY <1>1, <2>1, <2>2, <2>3, OthersKeepMemory
  <2>5. Content(w)' = Content(w)
    BY <2>2, <2>4 DEF Content, IsPointer
  <2>6. m_data'[w] = m_data[w]
    BY <2>2
  <2> QED BY <2>5, <2>6 DEF Shown
<1>2. TypeOK /\ MemoryInv =>
        [\A v \in Object : ActsOn(v) /\ ~broken' =>
           \A w \in Object \ {v} : Shown(w)' = Shown(w)]_vars
  BY <1>1
<1> QED
  BY <1>2, MemoryAlways, PTL DEF Spec

-----------------------------------------------------------------------------
(* operator< compares what numbers leave in the union, not what they mean. *)

\* The order of literals as the code has it: of numbers, their unsigned digits.
Unsigned(l) == Number(l.content[1], l.content[2])

CodeLess(k, l) ==
  IF k.type = l.type /\ k.type \in Numeric THEN Unsigned(k) < Unsigned(l)
  ELSE MeaningLess(k, l)

\* How many numbers a type has.
Modulus(t) == IF t = "Int16" THEN Base ELSE Base * Base

\* The negative numbers of a type are the upper half of the unsigned ones.
LEMMA NumberRange ==
  ASSUME NEW l \in AllLiterals, l.type \in Numeric
  PROVE  /\ Unsigned(l) \in Nat /\ Modulus(l.type) \in Nat
         /\ Unsigned(l) < Modulus(l.type)
         /\ Meaning(l) = IF Negative(l) THEN Unsigned(l) - Modulus(l.type) ELSE Unsigned(l)
         /\ Negative(l) => 2 * Unsigned(l) >= Modulus(l.type)
         /\ l.type # "UInt8" /\ ~Negative(l) => 2 * Unsigned(l) < Modulus(l.type)
<1> DEFINE lo == l.content[1]
           hi == l.content[2]
           p == Base * hi
           q == Base * Half
<1>1. lo \in Digits /\ hi \in Digits /\ (l.type \in Narrow => hi = 0)
  BY LiteralShape, NumberFacts
<1>2. Half \in Nat /\ Base \in Nat /\ Base = 2 * Half /\ Base > 0
  BY HalfAssumption DEF Base
<1>3. lo \in Nat /\ hi \in Nat /\ lo < Base /\ hi < Base
  BY <1>1, <1>2 DEF Digits
<1>4. p \in Nat /\ q \in Nat /\ Base * Base = 2 * q /\ Base <= q + q
  BY <1>2, <1>3
<1>5. p + Base <= Base * Base
  <2>1. \A a, b, c \in Nat : a < b => c * a + c <= c * b
    OBVIOUS
  <2> QED BY <1>2, <1>3, <2>1
<1>6. hi < Half => p + Base <= q
  <2>1. \A a, b, c \in Nat : a < b => c * a + c <= c * b
    OBVIOUS
  <2> QED BY <1>2, <1>3, <2>1
<1>7. hi >= Half => p >= q
  <2>1. \A a, b, c \in Nat : a >= b => c * a >= c * b
    OBVIOUS
  <2> QED BY <1>2, <1>3, <2>1
<1>8. Unsigned(l) = lo + p /\ (l.type \in Narrow => p = 0)
  BY <1>1, <1>2 DEF Unsigned, Number
<1>9. Meaning(l) = lo + p - (IF ~Negative(l) THEN 0 ELSE Modulus(l.type))
  BY DEF Meaning, Modulus
<1> HIDE DEF p, q
<1>10. CASE l.type = "Int64"
  <2>1. (Negative(l) <=> hi >= Half) /\ Modulus(l.type) = 2 * q
    BY <1>4, <1>10 DEF Negative, Modulus
  <2> QED BY <1>2, <1>3, <1>4, <1>5, <1>6, <1>7, <1>8, <1>9, <2>1
<1>11. CASE l.type = "Int16"
  <2>1. (Negative(l) <=> lo >= Half) /\ Modulus(l.type) = Base /\ p = 0
    BY <1>8, <1>11 DEF Negative, Modulus, Narrow
  <2> QED BY <1>2, <1>3, <1>8, <1>9, <2>1
<1>12. CASE l.type = "UInt8"
  <2>1. ~Negative(l) /\ Modulus(l.type) = Base * Base /\ p = 0
    BY <1>8, <1>12 DEF Negative, Modulus, Narrow
  <2> QED BY <1>2, <1>3, <1>4, <1>5, <1>8, <1>9, <1>12, <2>1
<1> QED BY <1>10, <1>11, <1>12, NumberFacts

\* The code orders by value, but for two numbers just one of which is negative:
\* that one is the greater.
LEMMA CodeOrder ==
  ASSUME NEW k \in AllLiterals, NEW l \in AllLiterals
  PROVE  CodeLess(k, l) <=> IF SignsDiffer(k, l) THEN Negative(l) ELSE MeaningLess(k, l)
<1>1. CASE k.type = l.type /\ k.type \in Numeric
  <2>1. CodeLess(k, l) <=> Unsigned(k) < Unsigned(l)
    BY <1>1 DEF CodeLess
  <2>2. MeaningLess(k, l) <=> Meaning(k) < Meaning(l)
    BY <1>1 DEF MeaningLess, IsArray, Arrays, Numeric, Narrow
  <2>3. SignsDiffer(k, l) <=> Negative(k) # Negative(l)
    BY <1>1 DEF SignsDiffer
  <2>4. k.type = "UInt8" => ~Negative(k) /\ ~Negative(l)
    BY <1>1 DEF Negative
  <2>5. Negative(k) \in BOOLEAN /\ Negative(l) \in BOOLEAN
    BY DEF Negative
  <2> DEFINE u == Unsigned(k)
             w == Unsigned(l)
             m == Modulus(k.type)
  <2>6. /\ u \in Nat /\ m \in Nat /\ u < m
        /\ Meaning(k) = IF Negative(k) THEN u - m ELSE u
        /\ Negative(k) => 2 * u >= m
        /\ k.type # "UInt8" /\ ~Negative(k) => 2 * u < m
    BY <1>1, NumberRange
  <2>7. /\ w \in Nat /\ w < m
        /\ Meaning(l) = IF Negative(l) THEN w - m ELSE w
        /\ Negative(l) => 2 * w >= m
        /\ l.type # "UInt8" /\ ~Negative(l) => 2 * w < m
    BY <1>1, NumberRange
  <2> HIDE DEF u, w, m
  <2>8. CASE Negative(k) # Negative(l)
    <3>0. k.type # "UInt8" /\ (Negative(l) <=> ~Negative(k))
      BY <2>4, <2>5, <2>8
    <3>1. Negative(l) => u < w
      <4>1. Negative(l) => 2 * u < m /\ 2 * w >= m
        BY <2>6, <2>7, <3>0
      <4> QED BY <2>6, <2>7, <4>1
    <3>2. Negative(k) => w < u
      <4>1. Negative(k) => 2 * w < m /\ 2 * u >= m
        BY <1>1, <2>6, <2>7, <3>0
      <4> QED BY <2>6, <2>7, <4>1
    <3> QED BY <2>1, <2>3, <2>5, <2>6, <2>7, <2>8, <3>1, <3>2 DEF u, w
  <2>9. CASE Negative(k) = Negative(l)
    <3>1. Meaning(k) < Meaning(l) <=> u < w
      BY <2>5, <2>6, <2>7, <2>9
    <3> QED BY <2>1, <2>2, <2>3, <2>9, <3>1 DEF u, w
  <2> QED BY <2>8, <2>9
<1>2. CASE ~(k.type = l.type /\ k.type \in Numeric)
  <2>1. ~SignsDiffer(k, l)
    BY <1>2 DEF SignsDiffer, Negative, Numeric, Narrow
  <2> QED BY <1>2, <2>1 DEF CodeLess
<1> QED BY <1>1, <1>2

\* operator< compares two objects as the code compares what each was last given,
\* unless both hold narrow numbers and bytes of another type are left beside them.
LEMMA OrderedPair ==
  ASSUME TypeOK, NEW v \in Object, NEW w \in Object, Holds(v), Holds(w), Given(v), Given(w),
         m_data[v].type = m_data[w].type /\ m_data[v].type \in Narrow => Keeps(v) /\ Keeps(w)
  PROVE  Less(v, w) <=> CodeLess(assigned[v], assigned[w])
<1> DEFINE d == m_data[v]
           e == m_data[w]
           k == assigned[v]
           l == assigned[w]
<1>1. d.type = k.type /\ e.type = l.type
  BY DEF Holds
<1>2. /\ k \in AllLiterals /\ l \in AllLiterals
      /\ k.type \in TypeId /\ l.type \in TypeId
  BY LiteralShape DEF TypeOK, AllLiterals
<1>3. CASE k.type # l.type
  <2>1. k.type = "Null" => Order[k.type] < Order[l.type]
    BY <1>2, <1>3 DEF Order, TypeId, Arrays, Numeric, Narrow
  <2> QED BY <1>1, <1>3, <2>1 DEF Less, CodeLess, MeaningLess
<1>4. CASE k.type = l.type /\ k.type = "Null"
  BY <1>1, <1>4 DEF Less, CodeLess, MeaningLess, IsArray, Arrays, Numeric, Narrow
<1>5. CASE k.type = l.type /\ k.type \in Numeric
  <2>1. Less(v, w) <=> Number(d.item.lo, d.item.hi) < Number(e.item.lo, e.item.hi)
    BY <1>1, <1>5 DEF Less, IsArray, Arrays, Numeric, Narrow
  <2>2. CodeLess(k, l) <=>
          Number(k.content[1], k.content[2]) < Number(l.content[1], l.content[2])
    BY <1>5 DEF CodeLess, Unsigned
  <2>3. /\ d.item.lo = k.content[1] /\ d.item.hi = k.content[2]
        /\ e.item.lo = l.content[1] /\ e.item.hi = l.content[2]
    <3>1. k.type \in Narrow \/ k.type = "Int64"
      BY <1>5 DEF Numeric
    <3> QED BY <1>1, <1>5, <3>1, HeldDigits
  <2> QED BY <2>1, <2>2, <2>3
<1>6. CASE k.type = l.type /\ k.type = "String"
  <2>1. Less(v, w) <=> IF d.item = NoItem THEN e.item # NoItem
                       ELSE e.item # NoItem /\ TextLess(Content(v), Content(w))
    BY <1>1, <1>6 DEF Less, IsArray, Arrays, Numeric, Narrow
  <2>2. CodeLess(k, l) <=> TextLess(k.content, l.content)
    BY <1>6 DEF CodeLess, MeaningLess, IsArray, Arrays, Numeric, Narrow
  <2> QED BY <1>1, <1>6, <2>1, <2>2, HeldContent
<1>7. CASE k.type = l.type /\ IsArray(k.type)
  <2>1. Less(v, w) <=> IF (d.item = NoItem) # (e.item = NoItem) THEN d.item = NoItem
                       ELSE SeqLess(SubSeq(Content(v), 1, d.size), SubSeq(Content(w), 1, e.size))
    BY <1>1, <1>7 DEF Less, IsArray, Arrays, Numeric, Narrow
  <2>2. CodeLess(k, l) <=> SeqLess(k.content, l.content)
    BY <1>7 DEF CodeLess, MeaningLess, IsArray, Arrays, Numeric, Narrow
  <2> QED BY <1>1, <1>7, <2>1, <2>2, HeldContent
<1> QED BY <1>2, <1>3, <1>4, <1>5, <1>6, <1>7 DEF TypeId, IsArray, Numeric, Narrow

\* operator< orders objects by value, whatever types they held before, but for
\* two numbers of different signs and, where objects have changed their types,
\* for two narrow numbers, whose other bytes the comparison reads too.
THEOREM OrderFollowsValue == Spec => []OrderedByValue
<1>1. TypeOK => \A v \in Object : assigned[v] \in AllLiterals
  BY DEF TypeOK, AllLiterals
<1>2. MemoryInv /\ ~broken => \A v \in Object : Holds(v) /\ m_data[v].type = assigned[v].type
  BY DEF MemoryInv, Holds
<1>3. MemoryInv /\ ~broken /\ ~mixed => \A v \in Object : Keeps(v)
  BY DEF MemoryInv
<1>4. TypeOK /\ MemoryInv => OrderedByValue
  BY <1>1, <1>2, <1>3, OrderedPair, CodeOrder DEF OrderedByValue
<1> QED BY <1>4, MemoryAlways, PTL

\* Of two wide numbers just one of which is negative, operator< takes that one
\* for the greater, and of narrow ones too while each object keeps to one type:
\* with leftover bytes this is all the order by value fails for.
THEOREM NegativesAreGreater ==
  Spec => [](~broken => \A v, w \in Object :
    /\ Given(v) /\ Given(w) /\ SignsDiffer(assigned[v], assigned[w])
    /\ mixed => assigned[v].type = "Int64"
    => (Less(v, w) <=> Negative(assigned[w])))
<1>1. ASSUME TypeOK, MemoryInv, ~broken, NEW v \in Object, NEW w \in Object,
             Given(v), Given(w), SignsDiffer(assigned[v], assigned[w]),
             mixed => assigned[v].type = "Int64"
      PROVE  Less(v, w) <=> Negative(assigned[w])
  <2>1. assigned[v] \in AllLiterals /\ assigned[w] \in AllLiterals
    BY <1>1 DEF TypeOK, AllLiterals
  <2>2. assigned[v].type = assigned[w].type /\ assigned[v].type \in Numeric
    BY <1>1 DEF SignsDiffer, Negative, Numeric, Narrow
  <2>3. Holds(v) /\ Holds(w) /\ m_data[v].type = assigned[v].type
    BY <1>1 DEF MemoryInv, Holds
  <2>4. m_data[v].type \in Narrow => Keeps(v) /\ Keeps(w)
    BY <1>1, <2>3 DEF MemoryInv, Narrow
  <2>5. Less(v, w) <=> CodeLess(assigned[v], assigned[w])
    BY <1>1, <2>3, <2>4, OrderedPair
  <2> QED BY <1>1, <2>1, <2>5, CodeOrder
<1>2. TypeOK /\ MemoryInv => (~broken => \A v, w \in Object :
        /\ Given(v) /\ Given(w) /\ SignsDiffer(assigned[v], assigned[w])
        /\ mixed => assigned[v].type = "Int64"
        => (Less(v, w) <=> Negative(assigned[w])))
  BY <1>1
<1> QED BY <1>2, MemoryAlways, PTL

-----------------------------------------------------------------------------
(* The order of values is a strict one, as containers ask of operator<.    *)

LEMMA TextLessStrict ==
  ASSUME NEW s \in Seq(Int), NEW t \in Seq(Int), NEW u \in Seq(Int)
  PROVE  ~TextLess(s, s) /\ (TextLess(s, t) /\ TextLess(t, u) => TextLess(s, u))
<1>1. ~TextLess(s, s)
  BY DEF TextLess
<1>2. ASSUME TextLess(s, t), TextLess(t, u) PROVE TextLess(s, u)
  <2>1. PICK i \in 1 .. Len(t) : /\ \A n \in 1 .. i - 1 : n <= Len(s) /\ s[n] = t[n]
                                 /\ i > Len(s) \/ s[i] < t[i]
    BY <1>2 DEF TextLess
  <2>2. PICK j \in 1 .. Len(u) : /\ \A n \in 1 .. j - 1 : n <= Len(t) /\ t[n] = u[n]
                                 /\ j > Len(t) \/ t[j] < u[j]
    BY <1>2 DEF TextLess
  <2>3. CASE i < j
    <3>1. i \in 1 .. Len(u) /\ t[i] = u[i]
      BY <2>2, <2>3
    <3>2. \A n \in 1 .. i - 1 : n <= Len(s) /\ s[n] = u[n]
      BY <2>1, <2>2, <2>3
    <3> QED BY <2>1, <3>1, <3>2 DEF TextLess
  <2>4. CASE j <= i
    <3>1. j <= Len(t) /\ t[j] < u[j]
      BY <2>2, <2>4
    <3>2. j > Len(s) \/ s[j] < u[j]
      <4>1. CASE i > Len(s) /\ j = i
        BY <4>1
      <4>2. CASE j < i
        <5>1. s[j] = t[j]
          BY <2>1, <4>2
        <5> QED BY <3>1, <5>1
      <4>3. CASE i <= Len(s) /\ j = i
        <5>1. s[j] \in Int /\ t[j] \in Int /\ u[j] \in Int /\ s[j] < t[j]
          BY <2>1, <2>2, <4>3
        <5> QED BY <3>1, <5>1
      <4> QED BY <2>4, <4>1, <4>2, <4>3
    <3>3. \A n \in 1 .. j - 1 : n <= Len(s) /\ s[n] = u[n]
      BY <2>1, <2>2, <2>4
    <3> QED BY <3>2, <3>3 DEF TextLess
  <2> QED BY <2>3, <2>4
<1> QED BY <1>1, <1>2

LEMMA SeqLessStrict ==
  ASSUME NEW s \in Seq(Int), NEW t \in Seq(Int), NEW u \in Seq(Int)
  PROVE  ~SeqLess(s, s) /\ (SeqLess(s, t) /\ SeqLess(t, u) => SeqLess(s, u))
<1>1. ~SeqLess(s, s)
  BY DEF SeqLess
<1>2. ASSUME SeqLess(s, t), SeqLess(t, u) PROVE SeqLess(s, u)
  <2>1. CASE Len(s) < Len(t) \/ Len(t) < Len(u)
    <3>1. Len(s) <= Len(t) /\ Len(t) <= Len(u)
      BY <1>2 DEF SeqLess
    <3> QED BY <2>1, <3>1 DEF SeqLess
  <2>2. CASE ~(Len(s) < Len(t) \/ Len(t) < Len(u))
    <3>0. Len(s) = Len(t) /\ Len(t) = Len(u)
      BY <1>2, <2>2 DEF SeqLess
    <3>1. PICK i \in 1 .. Len(s) : s[i] < t[i] /\ \A n \in 1 .. i - 1 : s[n] = t[n]
      BY <1>2, <2>2 DEF SeqLess
    <3>2. PICK j \in 1 .. Len(t) : t[j] < u[j] /\ \A n \in 1 .. j - 1 : t[n] = u[n]
      BY <1>2, <2>2 DEF SeqLess
    <3>3. CASE i < j
      <4>1. t[i] = u[i] /\ \A n \in 1 .. i - 1 : s[n] = u[n]
        BY <3>0, <3>1, <3>2, <3>3
      <4> QED BY <3>0, <3>1, <4>1 DEF SeqLess
    <3>4. CASE j < i
      <4>1. s[j] = t[j] /\ \A n \in 1 .. j - 1 : s[n] = u[n]
        BY <3>0, <3>1, <3>2, <3>4
      <4> QED BY <3>0, <3>2, <4>1 DEF SeqLess
    <3>5. CASE i = j
      <4>1. s[i] \in Int /\ t[i] \in Int /\ u[i] \in Int
        BY <3>0, <3>1
      <4>2. s[i] < u[i] /\ \A n \in 1 .. i - 1 : s[n] = u[n]
        BY <3>0, <3>1, <3>2, <3>5, <4>1
      <4> QED BY <3>0, <4>2 DEF SeqLess
    <3> QED BY <3>3, <3>4, <3>5
  <2> QED BY <2>1, <2>2
<1> QED BY <1>1, <1>2

LEMMA OrderTypes ==
  /\ \A t \in TypeId : Order[t] \in Int
  /\ \A t, u \in TypeId : Order[t] = Order[u] => t = u
BY DEF Order, TypeId, Arrays, Numeric, Narrow

LEMMA CodeLessStrict ==
  ASSUME NEW j \in AllLiterals, NEW k \in AllLiterals, NEW l \in AllLiterals,
         j.content # Nil, k.content # Nil, l.content # Nil
  PROVE  ~CodeLess(j, j) /\ (CodeLess(j, k) /\ CodeLess(k, l) => CodeLess(j, l))
<1>1. j.type \in TypeId /\ k.type \in TypeId /\ l.type \in TypeId
  BY LiteralShape
<1>2. CASE j.type = k.type /\ k.type = l.type
  <2>1. CASE j.type = "Null"
    BY <1>2, <2>1 DEF CodeLess, MeaningLess, IsArray, Arrays, Numeric, Narrow
  <2>2. CASE j.type \in Numeric
    <3>1. \A m \in {j, k, l} : Unsigned(m) \in Nat
      BY <1>2, <2>2, NumberRange
    <3>2. \A m, n \in {j, k, l} : CodeLess(m, n) <=> Unsigned(m) < Unsigned(n)
      BY <1>2, <2>2 DEF CodeLess
    <3> QED BY <3>1, <3>2
  <2>3. CASE j.type = "String"
    <3>1. \A m \in {j, k, l} : m.content \in Seq(Int)
      BY <1>2, <2>3, LiteralShape
    <3>2. \A m, n \in {j, k, l} : CodeLess(m, n) <=> TextLess(m.content, n.content)
      BY <1>2, <2>3 DEF CodeLess, MeaningLess, IsArray, Arrays, Numeric, Narrow
    <3> QED BY <3>1, <3>2, TextLessStrict
  <2>4. CASE IsArray(j.type)
    <3>1. \A m \in {j, k, l} : m.content \in Seq(Int)
      BY <1>2, <2>4, LiteralShape
    <3>2. \A m, n \in {j, k, l} : CodeLess(m, n) <=> SeqLess(m.content, n.content)
      BY <1>2, <2>4 DEF CodeLess, MeaningLess, IsArray, Arrays, Numeric, Narrow
    <3> QED BY <3>1, <3>2, SeqLessStrict
  <2> QED BY <1>1, <2>1, <2>2, <2>3, <2>4 DEF TypeId, IsArray, Numeric, Narrow
<1>3. CASE ~(j.type = k.type /\ k.type = l.type)
  <2>1. ~CodeLess(j, j)
    <3>1. \A s \in Seq(Int) : ~TextLess(s, s) /\ ~SeqLess(s, s)
      BY TextLessStrict, SeqLessStrict
    <3>2. CASE j.type \in Numeric
      <4>1. Unsigned(j) \in Nat
        BY <3>2, NumberRange
      <4>2. CodeLess(j, j) <=> Unsigned(j) < Unsigned(j)
        BY <3>2 DEF CodeLess
      <4> QED BY <4>1, <4>2
    <3>3. CASE j.type = "Null"
      BY <3>3 DEF CodeLess, MeaningLess, IsArray, Arrays, Numeric, Narrow
    <3>4. CASE j.type = "String"
      BY <3>1, <3>4, LiteralShape DEF CodeLess, MeaningLess, IsArray, Arrays, Numeric, Narrow
    <3>5. CASE IsArray(j.type)
      BY <3>1, <3>5, LiteralShape DEF CodeLess, MeaningLess, IsArray, Arrays, Numeric, Narrow
    <3>6. j.type \in {"Null", "String"} \cup Numeric \/ IsArray(j.type)
      BY <1>1 DEF TypeId, IsArray, Numeric, Narrow
    <3> QED BY <3>2, <3>3, <3>4, <3>5, <3>6
  <2>2. ASSUME CodeLess(j, k), CodeLess(k, l) PROVE CodeLess(j, l)
    <3>1. j.type # k.type => Order[j.type] < Order[k.type]
      BY <2>2 DEF CodeLess, MeaningLess
    <3>2. k.type # l.type => Order[k.type] < Order[l.type]
      BY <2>2 DEF CodeLess, MeaningLess
    <3>3. j.type # l.type /\ Order[j.type] < Order[l.type]
      BY <1>1, <1>3, <3>1, <3>2, OrderTypes
    <3> QED BY <3>3 DEF CodeLess, MeaningLess
  <2> QED BY <2>1, <2>2
<1> QED BY <1>2, <1>3

\* operator< is a strict order of objects that each keep to one type.
THEOREM OrderIsStrict == Spec => []StrictOrder
<1>1. TypeOK /\ MemoryInv => StrictOrder
  <2> SUFFICES ASSUME TypeOK, MemoryInv, ~broken, ~mixed,
                      NEW u \in Object, NEW v \in Object, NEW w \in Object,
                      Given(u), Given(v), Given(w)
               PROVE  ~Less(u, u) /\ (Less(u, v) /\ Less(v, w) => Less(u, w))
    BY DEF StrictOrder
  <2>1. \A x, y \in {u, v, w} : Less(x, y) <=> CodeLess(assigned[x], assigned[y])
    BY OrderedPair DEF MemoryInv
  <2>2. \A x \in {u, v, w} : assigned[x] \in AllLiterals /\ assigned[x].content # Nil
    BY DEF TypeOK, AllLiterals, Given
  <2> QED BY <2>1, <2>2, CodeLessStrict
<1> QED BY <1>1, MemoryAlways, PTL
=============================================================================
