------------------------------ MODULE Log_proof ------------------------------
(***************************************************************************)
(* Proofs about Log, for any number of threads, loggers, levels and lines. *)
(* The refinement of Journal rests on LineInv: the current line is the     *)
(* holder's, so that the newline ends exactly the line of its call; and on *)
(* NamedInv: IsLevelEnabled finds the logger that GetLog returned.         *)
(***************************************************************************)
EXTENDS Log, SequenceTheorems, TLAPS

IInv == TypeOK /\ LineInv /\ NamedInv

LEMMA InvInit == Init => IInv
BY LogAssumption DEF Init, IInv, TypeOK, LineInv, NamedInv

\* What a thread does that does not print.
LEMMA QuietStep ==
  ASSUME IInv, NEW t \in Thread,
         \/ GetLog(t) \/ LevelEnabled(t) \/ LevelDisabled(t) \/ Lock(t)
         \/ \E message \in Message : Dsblog(t, message)
  PROVE  IInv'
<1> USE LogAssumption DEF IInv, TypeOK, LineInv, NamedInv, Goes, Returns, shared, output, Piece
<1>1. CASE GetLog(t)
  <2>1. call[t] \in Message
    BY <1>1 DEF GetLog
  <2>2. NewLevel(call[t].name) \in LogLevel
    BY <2>1 DEF NewLevel, Message
  <2> QED
    BY <1>1, <2>1, <2>2 DEF GetLog, Message
<1>2. CASE LevelEnabled(t)
  BY <1>2 DEF LevelEnabled
<1>3. CASE LevelDisabled(t)
  BY <1>3 DEF LevelDisabled
<1>4. CASE Lock(t)
  BY <1>4 DEF Lock
<1>5. ASSUME NEW message \in Message, Dsblog(t, message) PROVE IInv'
  BY <1>5 DEF Dsblog
<1> QED
  BY <1>1, <1>2, <1>3, <1>4, <1>5

LEMMA Appends ==
  ASSUME NEW x, NEW y
  PROVE  Append(<<>>, x) = <<x>> /\ Append(<<x>>, y) = <<x, y>>
<1>1. <<>> \in Seq({x}) /\ <<x>> \in Seq({x, y})
  OBVIOUS
<1>2. Append(<<>>, x) = <<x>>
  BY <1>1
<1>3. Append(<<x>>, y) = <<x, y>>
  <2>1. Append(<<x>>, y) \in Seq({x, y}) /\ Len(Append(<<x>>, y)) = 2
        /\ Append(<<x>>, y)[1] = x /\ Append(<<x>>, y)[2] = y
    BY <1>1, AppendProperties
  <2>2. <<x, y>> \in Seq({x, y}) /\ Len(<<x, y>>) = 2
        /\ <<x, y>>[1] = x /\ <<x, y>>[2] = y
    OBVIOUS
  <2>3. \A i \in 1 .. 2 : Append(<<x>>, y)[i] = <<x, y>>[i]
    <3>1. \A i \in 1 .. 2 : i = 1 \/ i = 2
      OBVIOUS
    <3> QED
      BY <2>1, <2>2, <3>1
  <2> QED
    BY <2>1, <2>2, <2>3, SeqEqual
<1> QED
  BY <1>2, <1>3

\* The three pieces of a line.
LEMMA PrintStep ==
  ASSUME IInv, NEW t \in Thread, PrintHead(t) \/ PrintText(t) \/ PrintNewline(t)
  PROVE  IInv'
<1> USE LogAssumption DEF IInv, TypeOK, LineInv, NamedInv, Goes, Returns, shared, output, Piece
<1>1. CASE PrintHead(t)
  <2>1. current' = <<Piece(t, "head")>>
    BY <1>1, Appends DEF PrintHead
  <2> QED
    BY <1>1, <2>1 DEF PrintHead
<1>2. CASE PrintText(t)
  <2>1. current' = <<Piece(t, "head"), Piece(t, "text")>>
    BY <1>2, Appends DEF PrintText
  <2>2. holder = t /\ \A u \in Thread : pc[u] \in {"head", "text", "newline"} => u = t
    BY <1>2, LogAssumption DEF PrintText, IInv, TypeOK, LineInv, Goes
  <2>3. TypeOK' /\ NamedInv' /\ call' = call
    BY <1>2 DEF PrintText
  <2>4. LineInv'
    BY <1>2, <2>1, <2>2 DEF PrintText
  <2> QED
    BY <2>3, <2>4
<1>3. CASE PrintNewline(t)
  <2>1. holder = t /\ \A u \in Thread : pc[u] \in {"head", "text", "newline"} => u = t
    BY <1>3 DEF PrintNewline
  <2>2. TypeOK' /\ NamedInv'
    BY <1>3 DEF PrintNewline
  <2>3. LineInv'
    BY <1>3, <2>1 DEF PrintNewline
  <2> QED
    BY <2>2, <2>3
<1> QED
  BY <1>1, <1>2, <1>3

\* The levels change.
LEMMA LevelStep ==
  ASSUME IInv, NEW level \in LogLevel,
         SetDefaultLevel(level) \/ \E n \in Name : SetLevel(n, level)
  PROVE  IInv'
<1> USE LogAssumption DEF IInv, TypeOK, LineInv, NamedInv, output, Piece
<1>1. CASE SetDefaultLevel(level)
  BY <1>1 DEF SetDefaultLevel
<1>2. ASSUME NEW n \in Name, SetLevel(n, level) PROVE IInv'
  BY <1>2 DEF SetLevel
<1> QED
  BY <1>1, <1>2

LEMMA InvStep == IInv /\ [Next]_vars => IInv'
<1> SUFFICES ASSUME IInv, [Next]_vars PROVE IInv'
  OBVIOUS
<1>1. ASSUME NEW t \in Thread, Runs(t) PROVE IInv'
  BY <1>1, QuietStep, PrintStep DEF Runs, IsLevelEnabled, Write
<1>2. ASSUME NEW t \in Thread, NEW message \in Message, Dsblog(t, message) PROVE IInv'
  BY <1>2, QuietStep
<1>3. ASSUME NEW level \in LogLevel,
             SetDefaultLevel(level) \/ \E n \in Name : SetLevel(n, level)
      PROVE IInv'
  BY <1>3, LevelStep
<1>4. CASE UNCHANGED vars
  BY <1>4 DEF vars, shared, output, IInv, TypeOK, LineInv, NamedInv, Piece
<1> QED
  BY <1>1, <1>2, <1>3, <1>4 DEF Next

LEMMA InvCorrect == Spec => []IInv
BY InvInit, InvStep, PTL DEF Spec

\* The places, levels and messages of all threads stay in range.
THEOREM TypeCorrect == Spec => []TypeOK
<1>1. IInv => TypeOK
  BY DEF IInv
<1> QED
  BY <1>1, InvCorrect, PTL

-----------------------------------------------------------------------------
(* Log implements Journal.                                                 *)

\* The turns of all threads, as Journal sees them.
turns == [t \in Thread |-> Turn(pc[t])]

LEMMA Turns ==
  /\ Turn("idle") = "idle" /\ Turn("get") = "begun" /\ Turn("ask") = "named"
  /\ \A place \in {"write", "head", "text", "newline"} : Turn(place) = "granted"
BY DEF Turn

\* A thread that goes from one place to another takes the turn of the other
\* place, and no other thread takes its turn.
LEMMA OneTurn ==
  ASSUME TypeOK, NEW t \in Thread, NEW from, NEW to, Goes(t, from, to)
  PROVE  turns[t] = Turn(from) /\ turns' = [turns EXCEPT ![t] = Turn(to)]
BY DEF TypeOK, Goes, turns

LEMMA InitMaps == Init => Promise!Init
BY Turns DEF Init, Promise!Init

\* A step of a DSBLOG that does not print is one of Journal's, or a stutter.
LEMMA GetMaps ==
  ASSUME IInv, NEW t \in Thread, GetLog(t)
  PROVE  Promise!Next
<1>1. turns[t] = "begun"
      /\ turns' = [turns EXCEPT ![t] = IF call[t].name \in Relayed THEN "granted" ELSE "named"]
  <2>1. CASE call[t].name \in Relayed
    <3>1. Goes(t, "get", "write")
      BY <2>1 DEF GetLog
    <3> QED
      BY <2>1, <3>1, OneTurn, Turns DEF IInv
  <2>2. CASE call[t].name \notin Relayed
    <3>1. Goes(t, "get", "ask")
      BY <2>2 DEF GetLog
    <3> QED
      BY <2>2, <3>1, OneTurn, Turns DEF IInv
  <2> QED
    BY <2>1, <2>2
<1>2. Logs' = [Logs EXCEPT ![call[t].name] = IF @ = None THEN DefaultLevel ELSE @]
  <2>1. call[t].name \in Name
    BY DEF IInv, NamedInv, GetLog, Message
  <2> QED
    BY <2>1 DEF GetLog, NewLevel, IInv, TypeOK
<1>3. Promise!Named(t)
  BY <1>1, <1>2 DEF Promise!Named, GetLog, output, turns
<1> QED
  BY <1>3 DEF Promise!Next

LEMMA AskMaps ==
  ASSUME IInv, NEW t \in Thread, IsLevelEnabled(t)
  PROVE  Promise!Next
<1>1. pc[t] = "ask"
  BY DEF IsLevelEnabled, LevelEnabled, LevelDisabled, Goes, Returns
<1>2. Enabled(t) <=> Promise!Enabled(t)
  BY <1>1 DEF IInv, NamedInv, Enabled, MinLevel, Promise!Enabled
<1>3. CASE LevelEnabled(t)
  <2>1. turns[t] = "named" /\ turns' = [turns EXCEPT ![t] = "granted"]
    BY <1>3, OneTurn, Turns DEF IInv, LevelEnabled
  <2>2. Promise!Grant(t)
    BY <1>2, <1>3, <2>1 DEF Promise!Grant, LevelEnabled, shared, output, turns
  <2> QED
    BY <2>2 DEF Promise!Next
<1>4. CASE LevelDisabled(t)
  <2>1. turns[t] = "named" /\ turns' = [turns EXCEPT ![t] = "idle"]
    BY <1>4, OneTurn, Turns DEF IInv, LevelDisabled, Returns
  <2>2. Promise!Refuse(t)
    BY <1>2, <1>4, <2>1
    DEF Promise!Refuse, Promise!Return, LevelDisabled, Returns, shared, output, turns
  <2> QED
    BY <2>2 DEF Promise!Next
<1> QED
  BY <1>3, <1>4 DEF IsLevelEnabled

\* A thread that goes from one of these places to another keeps its turn.
LEMMA SameTurn ==
  ASSUME TypeOK, NEW t \in Thread,
         \/ Goes(t, "write", "head") \/ Goes(t, "head", "text")
         \/ Goes(t, "text", "newline")
  PROVE  turns' = turns
<1>1. turns[t] = "granted" /\ turns' = [turns EXCEPT ![t] = "granted"]
  BY OneTurn, Turns
<1> QED
  BY <1>1 DEF turns

\* The newline ends the line of its call; the steps before it are a stutter.
LEMMA WriteMaps ==
  ASSUME IInv, NEW t \in Thread, Write(t)
  PROVE  Promise!Next \/ UNCHANGED Promise!vars
<1>1. CASE Lock(t) \/ PrintHead(t) \/ PrintText(t)
  <2>1. turns' = turns
    BY <1>1, SameTurn DEF IInv, Lock, PrintHead, PrintText
  <2>2. UNCHANGED <<shared, call, lines>>
    BY <1>1 DEF Lock, PrintHead, PrintText, output
  <2> QED
    BY <2>1, <2>2 DEF Promise!vars, shared, turns
<1>2. CASE PrintNewline(t)
  <2>1. turns[t] = "granted" /\ turns' = [turns EXCEPT ![t] = "idle"]
    BY <1>2, OneTurn, Turns DEF IInv, PrintNewline, Returns
  <2>2. current = Promise!Line(t, call[t])
    BY <1>2 DEF IInv, PrintNewline, Returns, Goes, LineInv, Piece, Promise!Line
  <2>3. Promise!Emit(t)
    BY <1>2, <2>1, <2>2
    DEF Promise!Emit, Promise!Return, PrintNewline, Returns, shared, turns
  <2> QED
    BY <2>3 DEF Promise!Next
<1> QED
  BY <1>1, <1>2 DEF Write

LEMMA BeginMaps ==
  ASSUME IInv, NEW t \in Thread, NEW message \in Message, Dsblog(t, message)
  PROVE  Promise!Next
<1>1. turns[t] = "idle" /\ turns' = [turns EXCEPT ![t] = "begun"]
  BY OneTurn, Turns DEF IInv, Dsblog
<1>2. Promise!Begin(t)
  BY <1>1 DEF Promise!Begin, Dsblog, Message, turns, shared, output
<1> QED
  BY <1>2 DEF Promise!Next

LEMMA LevelMaps ==
  ASSUME NEW level \in LogLevel,
         SetDefaultLevel(level) \/ \E n \in Name : SetLevel(n, level)
  PROVE  Promise!Next
<1>1. turns' = turns
  BY DEF SetDefaultLevel, SetLevel, turns
<1>2. CASE SetDefaultLevel(level)
  BY <1>1, <1>2 DEF SetDefaultLevel, Promise!Next, Promise!SetDefault, turns, output
<1>3. ASSUME NEW n \in Name, SetLevel(n, level) PROVE Promise!Next
  BY <1>1, <1>3 DEF SetLevel, Promise!Next, Promise!SetLevel, turns, output
<1> QED
  BY <1>2, <1>3

\* However the threads interleave and whatever levels are set, the log prints
\* whole lines, of the calls that were enabled when they asked.
THEOREM Refinement == Spec => ImplementsJournal
<1>1. ASSUME IInv, [Next]_vars PROVE [Promise!Next]_(Promise!vars)
  <2>1. ASSUME NEW t \in Thread, Runs(t) PROVE [Promise!Next]_(Promise!vars)
    BY <1>1, <2>1, GetMaps, AskMaps, WriteMaps DEF Runs
  <2>2. ASSUME NEW t \in Thread, NEW message \in Message, Dsblog(t, message)
        PROVE Promise!Next
    BY <1>1, <2>2, BeginMaps
  <2>3. ASSUME NEW level \in LogLevel,
               SetDefaultLevel(level) \/ \E n \in Name : SetLevel(n, level)
        PROVE Promise!Next
    BY <2>3, LevelMaps
  <2>4. CASE UNCHANGED vars
    BY <2>4 DEF vars, shared, output, Promise!vars
  <2> QED
    BY <1>1, <2>1, <2>2, <2>3, <2>4 DEF Next
<1> QED
  BY <1>1, InitMaps, InvCorrect, PTL DEF Spec, ImplementsJournal, Promise!Spec
=============================================================================
