-------------------------- MODULE Properties_proof ---------------------------
(***************************************************************************)
(* Proofs about Properties, for all properties, methods, arguments and     *)
(* results. The inductive invariant says what the cache holds (CacheInv)   *)
(* and that the last reply is still one to it (ReplyInv).                  *)
(***************************************************************************)
EXTENDS Properties, SequenceTheorems, TLAPS

\* Scalars are read with the accessor of their own type, which never asserts.
LEMMA ScalarAccessor ==
  ASSUME NEW t \in Scalars
  PROVE  Accessor(t) = t /\ ~Asserts(t, Accessor(t)) /\ t \notin Arrays /\ t # "Null"
  BY DEF Scalars, Arrays, Accessor, Asserts

\* A scalar becomes a MsgArg, and if ToDouble keeps it, the same one.
LEMMA ScalarSent ==
  ASSUME NEW v, v.type \in Scalars
  PROVE  /\ ValueToMsgArg(v) # {}
         /\ IsDatum(v) /\ Kept(v) => ValueToMsgArg(v) = {v}
<1>1. ValueToMsgArg(v) = IF v.type = "Double" THEN {Datum("Double", h) : h \in ToDouble(v.item)}
                         ELSE {v}
  BY ScalarAccessor DEF ValueToMsgArg
<1>2. ToDouble(v.item) # {}
  BY PropertiesAssumption DEF ToDouble
<1>3. CASE v.type = "Double"
  <2>1. ValueToMsgArg(v) = {Datum("Double", h) : h \in ToDouble(v.item)}
    BY <1>1, <1>3
  <2>2. ValueToMsgArg(v) # {}
    BY <1>2, <2>1
  <2>3. ASSUME IsDatum(v), Kept(v) PROVE ValueToMsgArg(v) = {v}
    <3>1. ToDouble(v.item) = {v.item}
      BY <2>3, <1>3 DEF Kept
    <3>2. v = Datum("Double", v.item)
      BY <2>3, <1>3 DEF IsDatum
    <3> QED BY <2>1, <3>1, <3>2
  <2> QED BY <2>2, <2>3
<1>4. CASE v.type # "Double"
  BY <1>1, <1>4
<1> QED BY <1>3, <1>4

\* What GetProperty finds is as scalar as the property.
LEMMA FoundScalar ==
  ASSUME CacheInv, NEW p \in Property, TypeOf[p] \in Scalars
  PROVE  Found(p).type \in Scalars
<1>1. valueCache[p].type \in Scalars \cup {"Null"}
  BY DEF CacheInv
<1>2. Default[p].type \in Scalars \cup {"Null"}
  BY PropertiesAssumption
<1>3. ZeroOf(TypeOf[p]).type = TypeOf[p]
  BY DEF ZeroOf, Datum
<1> QED BY <1>1, <1>2, <1>3 DEF Found

\* The types of what is stored, replied and returned.
LEMMA TypeStep ==
  TypeOK /\ CacheInv /\ CacheInv' /\ [Next]_vars => TypeOK'
<1> SUFFICES ASSUME TypeOK, CacheInv, CacheInv', [Next]_vars PROVE TypeOK'
  OBVIOUS
<1>0. \A p \in Property : /\ valueCache'[p].type \in TypeId \cup {"Null"}
                          /\ given'[p].type \in {TypeOf[p], "Null"}
  BY PropertiesAssumption DEF CacheInv
<1>1. ASSUME NEW p \in Property, NEW m, Set(p, m) PROVE TypeOK'
  BY <1>0, <1>1 DEF TypeOK, Set, NoReply, NoResult
<1>2. ASSUME NEW p \in Property, Get(p) PROVE TypeOK'
  BY <1>0, <1>2 DEF TypeOK, Get, NoReply, NoResult
<1>3. ASSUME NEW f \in Method, NEW sent, NEW out, Invoke(f, sent, out) PROVE TypeOK'
  BY <1>0, <1>3 DEF TypeOK, Invoke, NoReply, NoResult
<1>4. ASSUME NEW f \in Method, NEW sent, NEW out, InvokeAborts(f, sent, out) PROVE TypeOK'
  BY <1>0, <1>4 DEF TypeOK, InvokeAborts
<1>5. CASE UNCHANGED vars
  BY <1>0, <1>5 DEF TypeOK, vars
<1> QED BY <1>1, <1>2, <1>3, <1>4, <1>5 DEF Next, Over

\* A Set puts its argument into the cache, and nothing else goes there.
LEMMA CacheStep ==
  DOMAIN valueCache = Property /\ DOMAIN given = Property /\ CacheInv /\ [Next]_vars
    => CacheInv' /\ DOMAIN valueCache' = Property /\ DOMAIN given' = Property
<1> DEFINE Inv == CacheInv /\ DOMAIN valueCache = Property /\ DOMAIN given = Property
<1> SUFFICES ASSUME Inv, [Next]_vars PROVE Inv'
  OBVIOUS
<1>1. ASSUME NEW p \in Property, NEW i, Set(p, Datum(TypeOf[p], i)) PROVE Inv'
  <2> DEFINE m == Datum(TypeOf[p], i)
  <2>0. IsDatum(m) /\ m.type = TypeOf[p]
    BY DEF IsDatum, Datum
  <2>1. CASE MsgArgToValue(m) = {}
    BY <1>1, <2>1 DEF Set, CacheInv
  <2>2. CASE MsgArgToValue(m) # {}
    <3>1. m.type \in Scalars /\ MsgArgToValue(m) = {m}
      BY <2>0, <2>2, PropertiesAssumption DEF MsgArgToValue, TypeId
    <3>2. /\ valueCache' = [valueCache EXCEPT ![p] = m]
          /\ given' = [given EXCEPT ![p] = m]
      BY <1>1, <2>2, <3>1 DEF Set
    <3>3. ASSUME NEW q \in Property
          PROVE  /\ valueCache'[q].type \in {TypeOf[q], "Null"}
                 /\ given'[q].type \in {TypeOf[q], "Null"}
                 /\ given'[q] # Empty =>
                      /\ IsDatum(given'[q]) /\ given'[q].type \in Scalars
                      /\ valueCache'[q] = given'[q]
      <4>1. CASE q = p
        BY <2>0, <3>1, <3>2, <4>1
      <4>2. CASE q # p
        <5>1. valueCache'[q] = valueCache[q] /\ given'[q] = given[q]
          BY <3>2, <4>2
        <5> QED BY <5>1 DEF CacheInv
      <4> QED BY <4>1, <4>2
    <3> QED BY <3>2, <3>3 DEF CacheInv
  <2> QED BY <2>1, <2>2
<1>2. ASSUME NEW p \in Property, Get(p) PROVE Inv'
  BY <1>2 DEF CacheInv, Get
<1>3. ASSUME NEW f \in Method, NEW sent, NEW out, Invoke(f, sent, out) PROVE Inv'
  BY <1>3 DEF CacheInv, Invoke
<1>4. ASSUME NEW f \in Method, NEW sent, NEW out, InvokeAborts(f, sent, out) PROVE Inv'
  BY <1>4 DEF CacheInv, InvokeAborts
<1>5. CASE UNCHANGED vars
  BY <1>5 DEF CacheInv, vars
<1> QED BY <1>1, <1>2, <1>3, <1>4, <1>5 DEF Next, Over

\* A reply is forgotten when the cache changes.
LEMMA ReplyStep ==
  ReplyInv /\ [Next]_vars => ReplyInv'
<1> SUFFICES ASSUME ReplyInv, [Next]_vars PROVE ReplyInv'
  OBVIOUS
<1>0. NoReply.property \notin Property
  BY PropertiesAssumption DEF NoReply
<1>1. ASSUME NEW p \in Property, NEW m, Set(p, m) PROVE ReplyInv'
  BY <1>0, <1>1 DEF ReplyInv, Set, Found
<1>2. ASSUME NEW p \in Property, Get(p) PROVE ReplyInv'
  <2>1. \A q \in Property : Found(q)' = Found(q)
    BY <1>2 DEF Get, Found
  <2> QED BY <1>2, <2>1 DEF ReplyInv, Get
<1>3. ASSUME NEW f \in Method, NEW sent, NEW out, Invoke(f, sent, out) PROVE ReplyInv'
  BY <1>0, <1>3 DEF ReplyInv, Invoke
<1>4. ASSUME NEW f \in Method, NEW sent, NEW out, InvokeAborts(f, sent, out) PROVE ReplyInv'
  BY <1>4 DEF ReplyInv, InvokeAborts, Found
<1>5. CASE UNCHANGED vars
  BY <1>5 DEF ReplyInv, vars, Found
<1> QED BY <1>1, <1>2, <1>3, <1>4, <1>5 DEF Next, Over

\* What a method takes and returns is not changed on the way.
LEMMA CallsStep ==
  CallsArrive /\ [Next]_vars => CallsArrive'
<1> SUFFICES ASSUME CallsArrive, [Next]_vars PROVE CallsArrive'
  OBVIOUS
<1>0. NoResult.method \notin Method
  BY MethodsAssumption DEF NoResult
<1>1. ASSUME NEW p \in Property, NEW m, Set(p, m) PROVE CallsArrive'
  BY <1>0, <1>1 DEF CallsArrive, Set
<1>2. ASSUME NEW p \in Property, Get(p) PROVE CallsArrive'
  BY <1>0, <1>2 DEF CallsArrive, Get
<1>3. ASSUME NEW f \in Method, NEW sent \in Calls[f], NEW out \in Outcomes[f],
             Invoke(f, sent, out)
      PROVE  CallsArrive'
  <2>1. PICK v \in Inarg(sent), m \in ValueToMsgArg(out) :
          result' = [method |-> f, sent |-> sent, inarg |-> v, outarg |-> out,
                     args |-> Replied(m, NumArgs(out))]
    BY <1>3 DEF Invoke
  <2>2. IsMessage(sent) /\ IsDatum(out)
    BY MethodsAssumption
  <2>3. Len(sent) = 1 => v = sent[1]
    <3> SUFFICES ASSUME Len(sent) = 1 PROVE v = sent[1]
      OBVIOUS
    <3>1. sent # <<>>
      OBVIOUS
    <3> QED BY <2>1, <3>1 DEF Inarg, MsgArgToValue
  <2>4. ASSUME out.type \in Scalars, Kept(out) PROVE Replied(m, NumArgs(out)) = <<out>>
    <3>1. m = out
      BY <2>1, <2>2, <2>4, ScalarSent
    <3>2. NumArgs(out) = 1
      BY <2>4, ScalarAccessor DEF NumArgs
    <3>3. Replied(m, 1) = [i \in 1 .. 1 |-> m]
      BY DEF Replied
    <3> QED BY <3>1, <3>2, <3>3
  <2>5. out.type = "Null" => Replied(m, NumArgs(out)) = <<>>
    <3> DEFINE none == [i \in 1 .. 0 |-> IF i = 1 THEN m ELSE Unknown]
    <3>1. none \in Seq({m}) /\ Len(none) = 0
      OBVIOUS
    <3>2. none = <<>>
      BY <3>1, EmptySeq
    <3>3. out.type = "Null" => NumArgs(out) = 0
      BY DEF NumArgs, Arrays
    <3>4. Replied(m, 0) = none
      BY DEF Replied
    <3> QED BY <3>2, <3>3, <3>4
  <2> QED BY <2>1, <2>3, <2>4, <2>5 DEF CallsArrive
<1>4. ASSUME NEW f \in Method, NEW sent, NEW out, InvokeAborts(f, sent, out)
      PROVE  CallsArrive'
  BY <1>4 DEF CallsArrive, InvokeAborts
<1>5. CASE UNCHANGED vars
  BY <1>5 DEF CallsArrive, vars
<1> QED BY <1>1, <1>2, <1>3, <1>4, <1>5 DEF Next, Over

\* Only arrays, and a call without arguments, run into an assertion or memory
\* that is not theirs.
LEMMA SafeStep ==
  CacheInv /\ ScalarsAreSafe /\ [Next]_vars => ScalarsAreSafe'
<1> SUFFICES ASSUME CacheInv, ScalarsAreSafe, [Next]_vars PROVE ScalarsAreSafe'
  OBVIOUS
<1>1. ASSUME NEW p \in Property, NEW m, Set(p, m) PROVE ScalarsAreSafe'
  BY <1>1 DEF ScalarsAreSafe, Set, MsgArgToValue
<1>2. ASSUME NEW p \in Property, Get(p) PROVE ScalarsAreSafe'
  <2>1. CASE UNCHANGED aborted
    BY <2>1 DEF ScalarsAreSafe
  <2>2. CASE /\ ValueToMsgArg(Found(p)) = {} \/ WildString(Found(p))
             /\ aborted' = {p}
    <3>1. Found(p).type \notin Scalars
      BY <2>2, ScalarSent, ScalarAccessor DEF WildString, Scalars
    <3>2. TypeOf[p] \in Arrays
      BY <3>1, FoundScalar, PropertiesAssumption DEF TypeId
    <3> QED BY <2>2, <3>2 DEF ScalarsAreSafe
  <2> QED BY <1>2, <2>1, <2>2 DEF Get
<1>3. ASSUME NEW f \in Method, NEW sent, NEW out, Invoke(f, sent, out) PROVE ScalarsAreSafe'
  BY <1>3 DEF ScalarsAreSafe, Invoke
<1>4. ASSUME NEW f \in Method, NEW sent \in Calls[f], NEW out \in Outcomes[f],
             InvokeAborts(f, sent, out)
      PROVE  ScalarsAreSafe'
  <2>1. ~ScalarMethod(f)
    <3> SUFFICES ASSUME ScalarMethod(f) PROVE FALSE
      OBVIOUS
    <3>1. sent # <<>> /\ \A i \in DOMAIN sent : sent[i].type \in Scalars
      BY DEF ScalarMethod
    <3>2. 1 \in DOMAIN sent
      <4>1. PICK S : sent \in Seq(S)
        BY MethodsAssumption DEF IsMessage
      <4>2. Len(sent) \in Nat /\ Len(sent) # 0 /\ DOMAIN sent = 1 .. Len(sent)
        BY <3>1, <4>1, EmptySeq
      <4> QED BY <4>2
    <3>3. sent[1].type \in Scalars
      BY <3>1, <3>2
    <3>4. Inarg(sent) # {}
      BY <3>1, <3>3, ScalarAccessor DEF Inarg, MsgArgToValue
    <3>5. out.type \notin Arrays
      BY DEF ScalarMethod
    <3>6. out.type \in Scalars \/ out.type = "Null"
      BY <3>5, MethodsAssumption DEF TypeId
    <3>7. ValueToMsgArg(out) # {}
      BY <3>6, ScalarSent DEF ValueToMsgArg
    <3>8. NumArgs(out) \in {0, 1} /\ ~WildString(out)
      BY <3>5, <3>6 DEF NumArgs, WildString, Arrays
    <3> QED BY <1>4, <3>1, <3>4, <3>7, <3>8 DEF InvokeAborts
  <2>2. f \notin Property
    BY MethodsAssumption
  <2> QED BY <1>4, <2>1, <2>2 DEF ScalarsAreSafe, InvokeAborts
<1>5. CASE UNCHANGED vars
  BY <1>5 DEF ScalarsAreSafe, vars
<1> QED BY <1>1, <1>2, <1>3, <1>4, <1>5 DEF Next, Over

IInv == /\ TypeOK /\ CacheInv /\ ReplyInv /\ CallsArrive /\ ScalarsAreSafe
        /\ DOMAIN valueCache = Property /\ DOMAIN given = Property

LEMMA IInvCorrect == Spec => []IInv
<1>1. Init => IInv
  BY PropertiesAssumption, MethodsAssumption
  DEF Init, IInv, TypeOK, CacheInv, ReplyInv, CallsArrive, ScalarsAreSafe,
      NoReply, NoResult, Empty, Datum
<1>2. IInv /\ [Next]_vars => IInv'
  BY TypeStep, CacheStep, ReplyStep, CallsStep, SafeStep DEF IInv
<1> QED BY <1>1, <1>2, PTL DEF Spec

\* What is stored, replied and returned has the types of its property.
THEOREM TypeCorrect == Spec => []TypeOK
<1>1. IInv => TypeOK
  BY DEF IInv
<1> QED BY <1>1, IInvCorrect, PTL

\* Every Get replies what the last Set of the property was given.
THEOREM GetsReadBack == Spec => []ReadsBack
<1>1. IInv => ReadsBack
  <2> SUFFICES ASSUME IInv, NEW p \in Property, p = reply.property,
                      given[p] # Empty, Kept(given[p])
               PROVE  reply.arg = given[p]
    BY DEF ReadsBack
  <2>1. IsDatum(given[p]) /\ given[p].type \in Scalars /\ valueCache[p] = given[p]
    BY DEF IInv, CacheInv
  <2>2. Found(p) = given[p]
    BY <2>1, ScalarAccessor DEF Found
  <2>3. reply.arg \in ValueToMsgArg(given[p])
    BY <2>2 DEF IInv, ReplyInv
  <2> QED BY <2>1, <2>3, ScalarSent
<1> QED BY <1>1, IInvCorrect, PTL

\* Every call of a method hands over its argument and its result.
THEOREM CallsAllArrive == Spec => []CallsArrive
<1>1. IInv => CallsArrive
  BY DEF IInv
<1> QED BY <1>1, IInvCorrect, PTL

\* No call that has to do with scalars only ends the process.
THEOREM ScalarsSafe == Spec => []ScalarsAreSafe
<1>1. IInv => ScalarsAreSafe
  BY DEF IInv
<1> QED BY <1>1, IInvCorrect, PTL
=============================================================================
