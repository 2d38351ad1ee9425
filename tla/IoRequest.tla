------------------------------ MODULE IoRequest ------------------------------
(***************************************************************************)
(* adapter::IoRequest (src/common/AdapterIoRequest.h): the rendezvous of a *)
(* bridge thread that started an operation of the adapter and the adapter  *)
(* thread that completes or cancels it. One mutex, one condition variable, *)
(* flags set under the mutex and notify_all after it is released.          *)
(*                                                                         *)
(* The wait set of the condition variable is explicit: a sleeper that no   *)
(* notify_all, deadline or spurious wakeup moves stays asleep.             *)
(*                                                                         *)
(* A definition whose name has an underscore is a slip the code could      *)
(* have; no action uses it. The properties tell it from the next one.      *)
(***************************************************************************)
EXTENDS Integers

CONSTANTS
  Waiter,      \* threads that call Wait, once each
  Timed,       \* those of them that pass a number of milliseconds
  Completer,   \* threads that call SetComplete or Cancel, once each
  Status,      \* statuses the adapter completes with
  Nobody       \* the mutex is free

ASSUME WaiterAssumption == Timed \subseteq Waiter /\ Nobody \notin Waiter
ASSUME StatusAssumption == 0 \in Status

VARIABLES
  m_status, m_canceled, m_completed,
  holder,      \* the waiter that holds m_mutex, or Nobody
  wpc,         \* where each waiter is in Wait
  late,        \* timed waiters whose deadline has passed
  answer,      \* what Wait returned
  cpc          \* where each completer is

flags == <<m_status, m_canceled, m_completed>>
vars == <<flags, holder, wpc, late, answer, cpc>>

TypeOK ==
  /\ m_status \in Status
  /\ m_canceled \in BOOLEAN /\ m_completed \in BOOLEAN
  /\ holder \in Waiter \cup {Nobody}
  /\ wpc \in [Waiter -> {"call", "test", "doze", "asleep", "woken", "returned"}]
  /\ late \subseteq Timed
  /\ answer \in [Waiter -> {"none", "true", "false"}]
  /\ cpc \in [Completer -> {"call", "notify", "returned"}]

\* The constructor.
Init ==
  /\ m_status = 0 /\ m_canceled = FALSE /\ m_completed = FALSE
  /\ holder = Nobody
  /\ wpc = [w \in Waiter |-> "call"]
  /\ late = {}
  /\ answer = [w \in Waiter |-> "none"]
  /\ cpc = [c \in Completer |-> "call"]

\* The predicate both forms of Wait sleep on.
Ready == m_canceled \/ m_completed

-----------------------------------------------------------------------------
(* Wait.                                                                   *)

\* unique_lock, at the start of Wait or when a sleeper wakes.
Lock(w) ==
  /\ wpc[w] \in {"call", "woken"} /\ holder = Nobody
  /\ holder' = w
  /\ wpc' = [wpc EXCEPT ![w] = "test"]
  /\ UNCHANGED <<flags, late, answer, cpc>>

\* The predicate holds. A wait without a deadline returns 0 all the same.
WaitReady(w) ==
  /\ wpc[w] = "test" /\ Ready
  /\ answer' = [answer EXCEPT ![w] = IF w \in Timed THEN "true" ELSE "false"]
  /\ wpc' = [wpc EXCEPT ![w] = "returned"]
  /\ holder' = Nobody
  /\ UNCHANGED <<flags, late, cpc>>

WaitTimesOut_Untested(w) ==
  /\ wpc[w] = "test" /\ w \in late
  /\ answer' = [answer EXCEPT ![w] = "false"]
  /\ wpc' = [wpc EXCEPT ![w] = "returned"]
  /\ holder' = Nobody
  /\ UNCHANGED <<flags, late, cpc>>

\* wait_until gives up: the deadline has passed and the predicate is false.
WaitTimesOut(w) ==
  /\ wpc[w] = "test" /\ ~Ready /\ w \in late
  /\ answer' = [answer EXCEPT ![w] = "false"]
  /\ wpc' = [wpc EXCEPT ![w] = "returned"]
  /\ holder' = Nobody
  /\ UNCHANGED <<flags, late, cpc>>

\* The predicate is false and there is time left: w is going to sleep.
Doze(w) ==
  /\ wpc[w] = "test" /\ ~Ready /\ w \notin late
  /\ wpc' = [wpc EXCEPT ![w] = "doze"]
  /\ UNCHANGED <<flags, holder, late, answer, cpc>>

\* Falling asleep and releasing the mutex are one step.
Sleep(w) ==
  /\ wpc[w] = "doze"
  /\ wpc' = [wpc EXCEPT ![w] = IF w \in late THEN "woken" ELSE "asleep"]
  /\ holder' = Nobody
  /\ UNCHANGED <<flags, late, answer, cpc>>

\* now() reaches the deadline of a timed wait.
Deadline(w) ==
  /\ w \in Timed \ late /\ wpc[w] # "returned"
  /\ late' = late \cup {w}
  /\ wpc' = [wpc EXCEPT ![w] = IF @ = "asleep" THEN "woken" ELSE @]
  /\ UNCHANGED <<flags, holder, answer, cpc>>

SpuriousWakeup(w) ==
  /\ wpc[w] = "asleep"
  /\ wpc' = [wpc EXCEPT ![w] = "woken"]
  /\ UNCHANGED <<flags, holder, late, answer, cpc>>

-----------------------------------------------------------------------------
(* SetComplete and Cancel: flags under the mutex, notify_all after it.     *)

SetComplete_NoLock(c, status) ==
  /\ cpc[c] = "call"
  /\ m_status' = status /\ m_canceled' = FALSE /\ m_completed' = TRUE
  /\ cpc' = [cpc EXCEPT ![c] = "notify"]
  /\ UNCHANGED <<holder, wpc, late, answer>>

SetComplete_OnlyGood(c, status) ==
  /\ cpc[c] = "call" /\ holder = Nobody
  /\ m_status' = status /\ m_canceled' = FALSE /\ m_completed' = (status = 0)
  /\ cpc' = [cpc EXCEPT ![c] = "notify"]
  /\ UNCHANGED <<holder, wpc, late, answer>>

SetComplete(c, status) ==
  /\ cpc[c] = "call" /\ holder = Nobody
  /\ m_status' = status /\ m_canceled' = FALSE /\ m_completed' = TRUE
  /\ cpc' = [cpc EXCEPT ![c] = "notify"]
  /\ UNCHANGED <<holder, wpc, late, answer>>

\* m_status is left as it is.
Cancel(c) ==
  /\ cpc[c] = "call" /\ holder = Nobody
  /\ m_canceled' = TRUE /\ m_completed' = TRUE
  /\ cpc' = [cpc EXCEPT ![c] = "notify"]
  /\ UNCHANGED <<m_status, holder, wpc, late, answer>>

NotifyAll_One(c) ==
  /\ cpc[c] = "notify"
  /\ cpc' = [cpc EXCEPT ![c] = "returned"]
  /\ IF \E w \in Waiter : wpc[w] = "asleep"
     THEN \E w \in Waiter : wpc[w] = "asleep" /\ wpc' = [wpc EXCEPT ![w] = "woken"]
     ELSE UNCHANGED wpc
  /\ UNCHANGED <<flags, holder, late, answer>>

NotifyAll(c) ==
  /\ cpc[c] = "notify"
  /\ cpc' = [cpc EXCEPT ![c] = "returned"]
  /\ wpc' = [w \in Waiter |-> IF wpc[w] = "asleep" THEN "woken" ELSE wpc[w]]
  /\ UNCHANGED <<flags, holder, late, answer>>

-----------------------------------------------------------------------------
Wait(w) == Lock(w) \/ WaitReady(w) \/ WaitTimesOut(w) \/ Doze(w) \/ Sleep(w)

Complete(c) == Cancel(c) \/ \E s \in Status : SetComplete(c, s)

Returned ==
  /\ \A w \in Waiter : wpc[w] = "returned"
  /\ \A c \in Completer : cpc[c] = "returned"
  /\ UNCHANGED vars

Next ==
  \/ \E w \in Waiter : Wait(w) \/ Deadline(w) \/ SpuriousWakeup(w)
  \/ \E c \in Completer : Complete(c) \/ NotifyAll(c)
  \/ Returned

Spec == Init /\ [][Next]_vars

\* Threads run, the mutex is held for a few instructions, time passes. An
\* adapter that never completes is allowed; one that began to is not stopped.
Fairness ==
  /\ \A w \in Waiter : SF_vars(Wait(w)) /\ WF_vars(Deadline(w))
  /\ \A c \in Completer : WF_vars(NotifyAll(c))

FairSpec == Spec /\ Fairness

-----------------------------------------------------------------------------
\* A thread that sleeps although the request is complete is about to be woken:
\* the flags change under the mutex, so no wakeup falls between test and sleep.
SleeperIsNotified ==
  Ready /\ (\E w \in Waiter : wpc[w] = "asleep") =>
    \E c \in Completer : cpc[c] = "notify"

\* A timed Wait gives up only when, at the moment it looks, its deadline has
\* passed and the request is open: a completion just in time is not lost.
TrueTimeout ==
  [][\A w \in Timed : answer[w] # answer'[w] =>
       IF Ready THEN answer'[w] = "true"
                ELSE answer'[w] = "false" /\ w \in late]_vars

\* Once the request is complete, every Wait returns, also one without a
\* deadline (the one Bridge::Shutdown relies on) and without help from spurious
\* wakeups; a timed Wait returns whatever the adapter does.
WaitsReturn ==
  \A w \in Waiter : Ready \/ w \in Timed ~> wpc[w] = "returned"

\* What the users of a request rely on.
Promise == INSTANCE Completion WITH done <- Ready

ImplementsCompletion == Promise!Spec

-----------------------------------------------------------------------------
(* The inductive invariants of the proofs in IoRequest_proof.              *)

\* A waiter that tests the predicate holds the mutex, and the flags do not
\* change before it sleeps.
LockInv ==
  /\ \A w \in Waiter : wpc[w] \in {"test", "doze"} <=> holder = w
  /\ \A w \in Waiter : wpc[w] = "doze" => ~Ready

\* A Wait that has not returned has no answer yet.
AnswerInv == \A w \in Waiter : wpc[w] # "returned" => answer[w] = "none"
=============================================================================
