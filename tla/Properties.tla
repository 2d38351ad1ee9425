----------------------------- MODULE Properties ------------------------------
(***************************************************************************)
(* The value of a property or an argument on its way from a client to the  *)
(* adapter and back: AllJoynHelper::MsgArgToValue and ValueToMsgArg        *)
(* (src/bridge/AllJoynHelper.cpp), Value's conversions (src/common), the   *)
(* arguments and results of BusObject::MethodHandler and the mock          *)
(* adapter's valueCache (src/adapters/mock/MockAdapter.cpp). Waiting and   *)
(* errors are in Requests: here a call is one step.                        *)
(*                                                                         *)
(* A Value and a MsgArg are both a type and an item: the two maps between  *)
(* types and signatures are inverse to each other. Numbers are integers,   *)
(* Doubles are counted in halves, arrays are sequences. AllJoyn is         *)
(* external: it passes a Set on only when its argument has the signature   *)
(* the interface declares, and never checks what a Get replies.            *)
(*                                                                         *)
(* A definition whose name has an underscore is a slip the code could      *)
(* have; no action uses it. The properties tell it from the next one.      *)
(***************************************************************************)
EXTENDS Integers, Sequences

CONSTANTS
  Property,    \* ids of the adapter's properties
  NoProperty,  \* no call has been replied to
  TypeOf,      \* their declared types
  Default,     \* their "default" attributes: a Value, or Empty
  Items,       \* Items[t]: what clients put into an argument of type t
  Method,      \* names of the adapter's methods
  NoMethod,
  Calls,       \* Calls[f]: the arguments clients call method f with
  Outcomes,    \* Outcomes[f]: the Values the adapter may put in outarg
  UInt16Size   \* 2^16 in the code

Scalars == {"Boolean", "UInt8", "Int32", "Double", "String"}
Arrays == {"BooleanArray", "UInt8Array", "StringArray"}
TypeId == Scalars \cup Arrays

Datum(t, i) == [type |-> t, item |-> i]

\* Value(): type Null. Also a MsgArg that was cleared and not set.
Empty == Datum("Null", 0)

\* Value(TypeId): zero, false, a null string or no elements.
ZeroOf(t) ==
  Datum(t, CASE t = "Boolean" -> FALSE
             [] t \in {"UInt8", "Int32", "Double"} -> 0
             [] t = "String" \/ t \in Arrays -> <<>>)

\* What is a datum, and a sequence of data.
IsDatum(d) == d = Datum(d.type, d.item)
IsMessage(s) == s \in Seq({s[i] : i \in DOMAIN s})

\* Default attributes are literals: no arrays.
ASSUME PropertiesAssumption ==
  /\ TypeOf \in [Property -> TypeId]
  /\ DOMAIN Default = Property /\ NoProperty \notin Property
  /\ \A p \in Property : Default[p].type \in Scalars \cup {"Null"}
  /\ UInt16Size \in Nat \ {0}

\* The adapter leaves outarg empty or puts a Value in it.
ASSUME MethodsAssumption ==
  /\ NoMethod \notin Method /\ Method \cap Property = {}
  /\ \A f \in Method :
       /\ \A sent \in Calls[f] : IsMessage(sent)
       /\ \A out \in Outcomes[f] : IsDatum(out) /\ out.type \in TypeId \cup {"Null"}

VARIABLES
  valueCache,  \* the adapter's map from ids to Values
  given,       \* history: the argument of the last Set of each property
  reply,       \* the last call: its property, and what a Get replied
  result,      \* the last call, if of a method: what went which way
  aborted      \* the call that ended the process, if one did

vars == <<valueCache, given, reply, result, aborted>>

NoReply == [property |-> NoProperty, arg |-> Empty]
NoResult == [method |-> NoMethod, sent |-> <<>>, inarg |-> Empty, outarg |-> Empty,
             args |-> <<>>]

Init ==
  /\ valueCache = [p \in Property |-> Empty]
  /\ given = [p \in Property |-> Empty]
  /\ reply = NoReply /\ result = NoResult
  /\ aborted = {}

-----------------------------------------------------------------------------
(* Value: CanConvert, Get<T>(TypeId) and ToDouble.                         *)

\* The fall-through of CanConvert: a number converts to its own type and to
\* those after it. From any other type but its own, an assertion fails.
Chain == <<"Boolean", "UInt8", "Int16", "UInt16", "Int32", "UInt32", "Int64", "UInt64">>

InChain(t) == \E i \in 1 .. Len(Chain) : Chain[i] = t

CanConvert(from, to) ==
  \/ from = to
  \/ \E i, j \in 1 .. Len(Chain) : i < j /\ from = Chain[i] /\ to = Chain[j]

Asserts(from, to) == from # to /\ from # "Null" /\ ~InChain(from)

\* A double becomes a uint16_t and a double again. Out of range it is
\* undefined, any number may result.
ToDouble(halves) ==
  IF -2 < halves /\ halves < 2 * UInt16Size
  THEN {IF halves < 0 THEN 0 ELSE 2 * (halves \div 2)}
  ELSE {2 * n : n \in 0 .. UInt16Size - 1}

-----------------------------------------------------------------------------
(* AllJoynHelper.                                                          *)

\* The accessor ValueToMsgArg calls for a Value of type t.
Accessor_UInt16(t) == CASE t = "Double" -> "UInt16"
                        [] t = "BooleanArray" -> "UInt8Array"
                        [] OTHER -> t
Accessor(t) == IF t = "BooleanArray" THEN "UInt8Array" ELSE t

\* SetMsgArg: an array without elements is sent with one. That of strings
\* is read through a pointer that is none.
Elements(t, items) ==
  IF items # <<>> THEN items
  ELSE CASE t = "BooleanArray" -> <<FALSE>>
         [] t = "UInt8Array"   -> <<0>>
         [] t = "StringArray"  -> <<<<>>>>

\* The MsgArgs that may come of a Value: none if an assertion fails.
ValueToMsgArg(v) ==
  IF v.type = "Null" THEN {Empty}
  ELSE IF Asserts(v.type, Accessor(v.type)) THEN {}
  ELSE CASE v.type = "Double"  -> {Datum("Double", h) : h \in ToDouble(v.item)}
         [] v.type \in Arrays  -> {Datum(v.type, Elements(v.type, v.item))}
         [] OTHER              -> {v}

\* The Values that may come of a MsgArg: arrays are not implemented.
MsgArgToValue_Truncated(m) ==
  IF m.type \in Arrays THEN {}
  ELSE IF m.type = "Int32" THEN {Datum("Int32", m.item % UInt16Size)} ELSE {m}
MsgArgToValue(m) == IF m.type \in Arrays THEN {} ELSE {m}

-----------------------------------------------------------------------------
(* A client's calls of properties, through BusObject, to the mock adapter. *)

\* SetProperty: valueCache[prop.GetId()] = value.
Set(p, m) ==
  /\ aborted = {} /\ m.type = TypeOf[p]
  /\ IF MsgArgToValue(m) = {}
     THEN aborted' = {p} /\ UNCHANGED <<valueCache, given, reply, result>>
     ELSE /\ \E v \in MsgArgToValue(m) :
               valueCache' = [valueCache EXCEPT ![p] = v]
          /\ given' = [given EXCEPT ![p] = m]
          /\ reply' = NoReply /\ result' = NoResult
          /\ UNCHANGED aborted

\* GetProperty: the cached value, the default attribute, or a zero.
Found(p) ==
  IF valueCache[p].type # "Null" THEN valueCache[p]
  ELSE IF Default[p].type # "Null" THEN Default[p]
  ELSE ZeroOf(TypeOf[p])

\* The empty array of strings is sent from a bad pointer.
WildString(v) == v.type = "StringArray" /\ v.item = <<>>

Get(p) ==
  /\ aborted = {}
  /\ \/ /\ \E m \in ValueToMsgArg(Found(p)) :
             reply' = [property |-> p, arg |-> m]
        /\ result' = NoResult
        /\ UNCHANGED aborted
     \/ /\ ValueToMsgArg(Found(p)) = {} \/ WildString(Found(p))
        /\ aborted' = {p}
        /\ UNCHANGED <<reply, result>>
  /\ UNCHANGED <<valueCache, given>>

-----------------------------------------------------------------------------
(* A client's calls of methods: BusObject::MethodHandler.                  *)

\* Only the first argument is converted. Without one GetArgs gives a null
\* pointer, which MsgArgToValue takes for an argument without a signature.
Inarg(sent) == IF sent = <<>> THEN {Empty} ELSE MsgArgToValue(sent[1])

\* As many arguments are replied as the outarg has elements, one if it is no
\* array, none if it is empty.
NumArgs_Length(v) == IF v.type \in Arrays THEN Len(v.item) ELSE 0
NumArgs(v) ==
  CASE v.type = "Null"    -> 0
    [] v.type \in Arrays -> Len(v.item)
    [] OTHER              -> 1

\* There is one MsgArg: MethodReply reads what is behind it.
Unknown == Datum("Unknown", 0)
Replied(m, n) == [i \in 1 .. n |-> IF i = 1 THEN m ELSE Unknown]

\* The adapter is asked and answers.
Invoke(f, sent, out) ==
  /\ aborted = {}
  /\ \E v \in Inarg(sent), m \in ValueToMsgArg(out) :
       result' = [method |-> f, sent |-> sent, inarg |-> v, outarg |-> out,
                  args |-> Replied(m, NumArgs(out))]
  /\ reply' = NoReply
  /\ UNCHANGED <<valueCache, given, aborted>>

\* An array cannot be converted, or is read past its end; the null pointer may
\* be read, as it is undefined what becomes of it.
InvokeAborts(f, sent, out) ==
  /\ aborted = {}
  /\ \/ sent = <<>>
     \/ Inarg(sent) = {} \/ ValueToMsgArg(out) = {}
     \/ WildString(out) \/ NumArgs(out) > 1
  /\ aborted' = {f}
  /\ UNCHANGED <<valueCache, given, reply, result>>

Over == aborted # {} /\ UNCHANGED vars

Next ==
  \/ \E p \in Property :
       \/ \E i \in Items[TypeOf[p]] : Set(p, Datum(TypeOf[p], i))
       \/ Get(p)
  \/ \E f \in Method : \E sent \in Calls[f], out \in Outcomes[f] :
       Invoke(f, sent, out) \/ InvokeAborts(f, sent, out)
  \/ Over

Spec == Init /\ [][Next]_vars

-----------------------------------------------------------------------------
TypeOK ==
  /\ \A p \in Property :
       /\ valueCache[p].type \in TypeId \cup {"Null"}
       /\ given[p].type \in {TypeOf[p], "Null"}
  /\ reply.property \in Property \cup {NoProperty}
  /\ result.method \in Method \cup {NoMethod}
  /\ aborted \subseteq Property \cup Method

\* A Get replies what the last Set of the property was given: nothing on the
\* way, through MsgArg, Value, cache and back, changes it. Of doubles only
\* those that ToDouble keeps, whole and not negative.
Kept(m) == m.type = "Double" => ToDouble(m.item) = {m.item}
ReadsBack ==
  LET p == reply.property IN
  p \in Property /\ given[p] # Empty /\ Kept(given[p]) => reply.arg = given[p]

\* The adapter is handed the argument of a method that has one, and the client
\* gets what the adapter put in outarg: one result, or none.
CallsArrive ==
  LET f == result.method IN
  f \in Method =>
    /\ Len(result.sent) = 1 => result.inarg = result.sent[1]
    /\ result.outarg.type \in Scalars /\ Kept(result.outarg) =>
         result.args = <<result.outarg>>
    /\ result.outarg.type = "Null" => result.args = <<>>

\* Scalars of a method, of which it takes one at least.
ScalarMethod(f) ==
  /\ \A sent \in Calls[f] : sent # <<>> /\ \A i \in DOMAIN sent : sent[i].type \in Scalars
  /\ \A out \in Outcomes[f] : out.type \notin Arrays

\* No client call that has to do with scalars only ends the process.
ScalarsAreSafe ==
  \A c \in aborted : IF c \in Property THEN TypeOf[c] \in Arrays ELSE ~ScalarMethod(c)

-----------------------------------------------------------------------------
(* The parts of the inductive invariant of Properties_proof.               *)

\* What is in the cache for a property that was set is what it was given.
CacheInv ==
  \A p \in Property :
    /\ valueCache[p].type \in {TypeOf[p], "Null"}
    /\ given[p].type \in {TypeOf[p], "Null"}
    /\ given[p] # Empty =>
         /\ IsDatum(given[p]) /\ given[p].type \in Scalars
         /\ valueCache[p] = given[p]

\* The last reply is one to what is in the cache still.
ReplyInv ==
  LET p == reply.property IN
  p \in Property => reply.arg \in ValueToMsgArg(Found(p))
=============================================================================
