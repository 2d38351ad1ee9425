------------------------------- MODULE Journal -------------------------------
(***************************************************************************)
(* What a log promises: every line is whole and of one call, a call prints *)
(* one line or none, and it prints if its level was enabled when the call  *)
(* asked its logger, or if it is relayed and does not ask. A logger is made*)
(* by the first call that names it and has the default level of that       *)
(* moment; a later default does not reach it.                              *)
(***************************************************************************)
EXTENDS Naturals, Sequences

CONSTANTS Thread, Name, Relayed, LogLevel, Info, Off, None

VARIABLES default, level, turn, call, lines

vars == <<default, level, turn, call, lines>>

Line(t, c) == <<[thread |-> t, call |-> c, part |-> "head"],
                [thread |-> t, call |-> c, part |-> "text"]>>

Init ==
  /\ default = Info /\ level = [n \in Name |-> None]
  /\ turn = [t \in Thread |-> "idle"]
  /\ call = [t \in Thread |-> None]
  /\ lines = <<>>

Begin(t) ==
  /\ turn[t] = "idle" /\ turn' = [turn EXCEPT ![t] = "begun"]
  /\ \E c \in [level : LogLevel \ {Off}, name : Name] : call' = [call EXCEPT ![t] = c]
  /\ UNCHANGED <<default, level, lines>>

Named(t) ==
  /\ turn[t] = "begun"
  /\ turn' = [turn EXCEPT ![t] = IF call[t].name \in Relayed THEN "granted" ELSE "named"]
  /\ level' = [level EXCEPT ![call[t].name] = IF @ = None THEN default ELSE @]
  /\ UNCHANGED <<default, call, lines>>

Return(t) == turn' = [turn EXCEPT ![t] = "idle"] /\ call' = [call EXCEPT ![t] = None]

Enabled(t) == call[t].level >= level[call[t].name]

Grant(t) ==
  /\ turn[t] = "named" /\ Enabled(t) /\ turn' = [turn EXCEPT ![t] = "granted"]
  /\ UNCHANGED <<default, level, call, lines>>

Refuse(t) ==
  /\ turn[t] = "named" /\ ~Enabled(t) /\ Return(t)
  /\ UNCHANGED <<default, level, lines>>

Emit(t) ==
  /\ turn[t] = "granted" /\ Return(t)
  /\ lines' = Append(lines, Line(t, call[t]))
  /\ UNCHANGED <<default, level>>

SetLevel(n) ==
  /\ level[n] # None
  /\ \E l \in LogLevel : level' = [level EXCEPT ![n] = l]
  /\ UNCHANGED <<default, turn, call, lines>>

SetDefault == default' \in LogLevel /\ UNCHANGED <<level, turn, call, lines>>

Next ==
  \/ \E t \in Thread : Begin(t) \/ Named(t) \/ Grant(t) \/ Refuse(t) \/ Emit(t)
  \/ \E n \in Name : SetLevel(n)
  \/ SetDefault

Spec == Init /\ [][Next]_vars
=============================================================================
