--------------------------------- MODULE Log ---------------------------------
(***************************************************************************)
(* The log all threads share: main, the reconnect thread, the dispatchers  *)
(* of the buses and the adapter (src/common/AdapterLog.cpp). A DSBLOG is   *)
(* GetLog, IsLevelEnabled and Write, each with impl.Mutex on its own, so   *)
(* that the level may change between them and other threads may print.     *)
(* What libxml2 reports is relayed: GetLog and Write, unasked (so would be *)
(* what AllJoyn logs, but Bridge does not register alljoynLogger).         *)
(*                                                                         *)
(* The output is cut at its newlines: lines that have ended and the pieces *)
(* of the current one. A piece is what one fprintf prints. A function that *)
(* touches the shared state once under the mutex is one step.              *)
(*                                                                         *)
(* A definition whose name has an underscore is a slip the code could      *)
(* have; no action uses it. The properties tell it from the next one.      *)
(***************************************************************************)
EXTENDS Naturals, Sequences

CONSTANTS
  Thread,
  Name,       \* of loggers
  Relayed,    \* those of libXmlGenericErrorFunc and its like
  LogLevel,   \* numbers, as the enumeration orders them
  Info,       \* kDefaultLoggingLevel
  Off,        \* the level of no message
  None, Nobody,
  MaxLines    \* bound: no call begins when so many lines are printed

ASSUME LogAssumption ==
  /\ LogLevel \subseteq Nat /\ {Info, Off} \subseteq LogLevel /\ None \notin LogLevel
  /\ Relayed \subseteq Name
  /\ Nobody \notin Thread /\ MaxLines \in Nat

Message == [level : LogLevel \ {Off}, name : Name]

VARIABLES
  DefaultLevel,
  Logs,        \* the levels of the loggers there are
  holder,      \* of impl.Mutex
  pc, call,    \* each thread's place in its DSBLOG, and what it logs
  lines, current

shared == <<DefaultLevel, Logs>>
output == <<lines, current>>
vars == <<shared, holder, pc, call, output>>

TypeOK ==
  /\ DefaultLevel \in LogLevel /\ Logs \in [Name -> LogLevel \cup {None}]
  /\ holder \in Thread \cup {Nobody}
  /\ pc \in [Thread -> {"idle", "get", "ask", "write", "head", "text", "newline"}]
  /\ call \in [Thread -> Message \cup {None}]

\* The static LogImpl; no thread has logged.
Init ==
  /\ DefaultLevel = Info /\ Logs = [n \in Name |-> None]
  /\ holder = Nobody
  /\ pc = [t \in Thread |-> "idle"]
  /\ call = [t \in Thread |-> None]
  /\ lines = <<>> /\ current = <<>>

Goes(t, from, to) == pc[t] = from /\ pc' = [pc EXCEPT ![t] = to]
Returns(t, from) == Goes(t, from, "idle") /\ call' = [call EXCEPT ![t] = None]

-----------------------------------------------------------------------------
(* DSBLOG(LEVEL, NAME, ...), or a relayed message.                         *)

Dsblog(t, message) ==
  /\ Len(lines) < MaxLines
  /\ Goes(t, "idle", "get")
  /\ call' = [call EXCEPT ![t] = message]
  /\ UNCHANGED <<shared, holder, output>>

\* A new logger gets the default level, one that is found keeps its own.
NewLevel(n) == IF Logs[n] = None THEN DefaultLevel ELSE Logs[n]

GetLog(t) ==
  /\ holder = Nobody /\ pc[t] = "get"
  /\ Goes(t, "get", IF call[t].name \in Relayed THEN "write" ELSE "ask")
  /\ Logs' = [Logs EXCEPT ![call[t].name] = NewLevel(call[t].name)]
  /\ UNCHANGED <<DefaultLevel, holder, call, output>>

\* The level of the logger in the map, or the default if it is not there.
MinLevel(n) == IF Logs[n] = None THEN DefaultLevel ELSE Logs[n]

Enabled(t) == call[t].level >= MinLevel(call[t].name)

LevelEnabled(t) ==
  /\ holder = Nobody /\ Goes(t, "ask", "write") /\ Enabled(t)
  /\ UNCHANGED <<shared, holder, call, output>>

LevelDisabled_NoUnlock(t) ==
  /\ holder = Nobody /\ Returns(t, "ask") /\ ~Enabled(t)
  /\ holder' = t
  /\ UNCHANGED <<shared, output>>

LevelDisabled(t) ==
  /\ holder = Nobody /\ Returns(t, "ask") /\ ~Enabled(t)
  /\ UNCHANGED <<shared, holder, output>>

IsLevelEnabled(t) == LevelEnabled(t) \/ LevelDisabled(t)

-----------------------------------------------------------------------------
(* Write and VaLog: three pieces under the mutex.                          *)

Lock_Forgotten(t) ==
  /\ Goes(t, "write", "head")
  /\ UNCHANGED <<shared, holder, call, output>>

Lock(t) ==
  /\ holder = Nobody /\ Goes(t, "write", "head")
  /\ holder' = t
  /\ UNCHANGED <<shared, call, output>>

Piece(t, part) == [thread |-> t, call |-> call[t], part |-> part]

PrintHead(t) ==
  /\ Goes(t, "head", "text")
  /\ current' = Append(current, Piece(t, "head"))
  /\ UNCHANGED <<shared, holder, call, lines>>

PrintText(t) ==
  /\ Goes(t, "text", "newline")
  /\ current' = Append(current, Piece(t, "text"))
  /\ UNCHANGED <<shared, holder, call, lines>>

\* The newline, and the mutex is released.
PrintNewline(t) ==
  /\ Returns(t, "newline")
  /\ lines' = Append(lines, current) /\ current' = <<>>
  /\ holder' = Nobody
  /\ UNCHANGED shared

-----------------------------------------------------------------------------
\* An adapter changes the level of a logger it holds, main the default.
SetLevel(n, level) ==
  /\ holder = Nobody /\ Logs[n] # None
  /\ Logs' = [Logs EXCEPT ![n] = level]
  /\ UNCHANGED <<DefaultLevel, holder, pc, call, output>>

SetDefaultLevel(level) ==
  /\ holder = Nobody
  /\ DefaultLevel' = level
  /\ UNCHANGED <<Logs, holder, pc, call, output>>

Write(t) == Lock(t) \/ PrintHead(t) \/ PrintText(t) \/ PrintNewline(t)

Runs(t) == GetLog(t) \/ IsLevelEnabled(t) \/ Write(t)

Next ==
  \/ \E t \in Thread : Runs(t) \/ \E message \in Message : Dsblog(t, message)
  \/ \E level \in LogLevel :
       SetDefaultLevel(level) \/ \E n \in Name : SetLevel(n, level)

Spec == Init /\ [][Next]_vars

\* Threads run, and none waits for ever for a mutex that is free again and
\* again. Nobody need log.
Fairness == \A t \in Thread : SF_vars(Runs(t))

FairSpec == Spec /\ Fairness

-----------------------------------------------------------------------------
Turn(place) ==
  CASE place = "idle" -> "idle" [] place = "get" -> "begun" [] place = "ask" -> "named"
    [] OTHER -> "granted"

Promise == INSTANCE Journal WITH
  default <- DefaultLevel, level <- Logs, turn <- [t \in Thread |-> Turn(pc[t])]

\* Threads that print at the same time do not mix their lines, a new logger
\* has the level of its time, and what is printed was enabled when asked,
\* unless it is relayed.
ImplementsJournal == Promise!Spec

\* Whatever level is set meanwhile and whoever prints, a DSBLOG ends: no path
\* through it keeps the mutex.
DsblogEnds == \A t \in Thread : pc[t] # "idle" ~> pc[t] = "idle"

-----------------------------------------------------------------------------
(* The inductive invariant of the proofs in Log_proof.                     *)

\* Whoever prints holds the mutex, and the pieces of the current line are its.
LineInv ==
  /\ \A t \in Thread : pc[t] \in {"head", "text", "newline"} <=> holder = t
  /\ holder = Nobody => current = <<>>
  /\ \A t \in Thread :
       /\ pc[t] = "head" => current = <<>>
       /\ pc[t] = "text" => current = <<Piece(t, "head")>>
       /\ pc[t] = "newline" => current = <<Piece(t, "head"), Piece(t, "text")>>

\* A thread that logs has its message, and its logger is in the map once
\* GetLog has returned it.
NamedInv ==
  \A t \in Thread :
    /\ pc[t] # "idle" => call[t] \in Message
    /\ pc[t] \notin {"idle", "get"} => Logs[call[t].name] # None
=============================================================================
