--------------------------- MODULE IoRequest_proof ---------------------------
(***************************************************************************)
(* Proofs about IoRequest, for any number of waiters and completers. The   *)
(* safety properties rest on LockInv: whoever is between the test of the   *)
(* predicate and its sleep holds m_mutex, so no flag changes there.        *)
(***************************************************************************)
EXTENDS IoRequest, TLAPS

LEMMA TypeInit == Init => TypeOK
BY StatusAssumption DEF Init, TypeOK

\* Every step of a waiter, a completer or the clock keeps the types.
LEMMA TypeStep == TypeOK /\ [Next]_vars => TypeOK'
<1> SUFFICES ASSUME TypeOK, [Next]_vars PROVE TypeOK'
  OBVIOUS
<1> USE WaiterAssumption DEF TypeOK, flags
<1>1. ASSUME NEW w \in Waiter, Lock(w) PROVE TypeOK'
  BY <1>1 DEF Lock
<1>2. ASSUME NEW w \in Waiter, WaitReady(w) PROVE TypeOK'
  BY <1>2 DEF WaitReady
<1>3. ASSUME NEW w \in Waiter, WaitTimesOut(w) PROVE TypeOK'
  BY <1>3 DEF WaitTimesOut
<1>4. ASSUME NEW w \in Waiter, Doze(w) PROVE TypeOK'
  BY <1>4 DEF Doze
<1>5. ASSUME NEW w \in Waiter, Sleep(w) PROVE TypeOK'
  BY <1>5 DEF Sleep
<1>6. ASSUME NEW w \in Waiter, Deadline(w) PROVE TypeOK'
  BY <1>6 DEF Deadline
<1>7. ASSUME NEW w \in Waiter, SpuriousWakeup(w) PROVE TypeOK'
  BY <1>7 DEF SpuriousWakeup
<1>8. ASSUME NEW c \in Completer, NEW s \in Status, SetComplete(c, s) PROVE TypeOK'
  BY <1>8 DEF SetComplete
<1>9. ASSUME NEW c \in Completer, Cancel(c) PROVE TypeOK'
  BY <1>9 DEF Cancel
<1>10. ASSUME NEW c \in Completer, NotifyAll(c) PROVE TypeOK'
  BY <1>10 DEF NotifyAll
<1>11. CASE Returned \/ UNCHANGED vars
  BY <1>11 DEF Returned, vars
<1> QED
  BY <1>1, <1>2, <1>3, <1>4, <1>5, <1>6, <1>7, <1>8, <1>9, <1>10, <1>11
  DEF Next, Wait, Complete

\* The state of a request and of its threads stays in range.
THEOREM TypeCorrect == Spec => []TypeOK
BY TypeInit, TypeStep, PTL DEF Spec

\* Whoever tests and dozes holds the mutex; only a completer that finds it
\* free changes the flags.
LEMMA LockStep == TypeOK /\ LockInv /\ [Next]_vars => LockInv'
<1> SUFFICES ASSUME TypeOK, LockInv, [Next]_vars PROVE LockInv'
  OBVIOUS
<1> USE WaiterAssumption DEF TypeOK, LockInv, Ready, flags
<1>1. ASSUME NEW w \in Waiter, Lock(w) PROVE LockInv'
  BY <1>1 DEF Lock
<1>2. ASSUME NEW w \in Waiter, WaitReady(w) PROVE LockInv'
  BY <1>2 DEF WaitReady
<1>3. ASSUME NEW w \in Waiter, WaitTimesOut(w) PROVE LockInv'
  BY <1>3 DEF WaitTimesOut
<1>4. ASSUME NEW w \in Waiter, Doze(w) PROVE LockInv'
  BY <1>4 DEF Doze
<1>5. ASSUME NEW w \in Waiter, Sleep(w) PROVE LockInv'
  BY <1>5 DEF Sleep
<1>6. ASSUME NEW w \in Waiter, Deadline(w) PROVE LockInv'
  BY <1>6 DEF Deadline
<1>7. ASSUME NEW w \in Waiter, SpuriousWakeup(w) PROVE LockInv'
  BY <1>7 DEF SpuriousWakeup
<1>8. ASSUME NEW c \in Completer, NEW s \in Status, SetComplete(c, s) PROVE LockInv'
  BY <1>8 DEF SetComplete
<1>9. ASSUME NEW c \in Completer, Cancel(c) PROVE LockInv'
  BY <1>9 DEF Cancel
<1>10. ASSUME NEW c \in Completer, NotifyAll(c) PROVE LockInv'
  BY <1>10 DEF NotifyAll
<1>11. CASE Returned \/ UNCHANGED vars
  BY <1>11 DEF Returned, vars
<1> QED
  BY <1>1, <1>2, <1>3, <1>4, <1>5, <1>6, <1>7, <1>8, <1>9, <1>10, <1>11
  DEF Next, Wait, Complete

LEMMA LockCorrect == Spec => [](TypeOK /\ LockInv)
<1>1. Init => LockInv
  BY WaiterAssumption DEF Init, LockInv
<1> QED BY <1>1, TypeInit, TypeStep, LockStep, PTL DEF Spec

\* No step leaves a sleeper of a completed request without a notification:
\* falling asleep happens while the request is open, completing is followed
\* by notify_all, and notify_all wakes everyone.
LEMMA NotifiedStep ==
  TypeOK /\ LockInv /\ SleeperIsNotified /\ [Next]_vars => SleeperIsNotified'
<1> SUFFICES ASSUME TypeOK, LockInv, SleeperIsNotified, [Next]_vars,
                    Ready', NEW v \in Waiter, wpc'[v] = "asleep"
             PROVE  \E c \in Completer : cpc'[c] = "notify"
  BY DEF SleeperIsNotified
<1> USE DEF TypeOK, LockInv, SleeperIsNotified, Ready, flags
<1>1. ASSUME NEW w \in Waiter, Lock(w) \/ WaitReady(w) \/ WaitTimesOut(w) \/ Doze(w)
      PROVE  \E c \in Completer : cpc'[c] = "notify"
  BY <1>1 DEF Lock, WaitReady, WaitTimesOut, Doze
<1>2. ASSUME NEW w \in Waiter, Sleep(w)
      PROVE  \E c \in Completer : cpc'[c] = "notify"
  BY <1>2 DEF Sleep
<1>3. ASSUME NEW w \in Waiter, Deadline(w) \/ SpuriousWakeup(w)
      PROVE  \E c \in Completer : cpc'[c] = "notify"
  BY <1>3 DEF Deadline, SpuriousWakeup
<1>4. ASSUME NEW c \in Completer, Complete(c)
      PROVE  \E e \in Completer : cpc'[e] = "notify"
  BY <1>4 DEF Complete, SetComplete, Cancel
<1>5. ASSUME NEW c \in Completer, NotifyAll(c)
      PROVE  \E e \in Completer : cpc'[e] = "notify"
  BY <1>5 DEF NotifyAll
<1>6. CASE Returned \/ UNCHANGED vars
  BY <1>6 DEF Returned, vars
<1> QED
  BY <1>1, <1>2, <1>3, <1>4, <1>5, <1>6 DEF Next, Wait

\* No wakeup is lost: a thread asleep in Wait on a completed request is about
\* to be notified.
THEOREM NoLostWakeup == Spec => []SleeperIsNotified
<1>1. Init => SleeperIsNotified
  BY DEF Init, SleeperIsNotified, Ready
<1> QED BY <1>1, LockCorrect, NotifiedStep, PTL DEF Spec

\* A timed Wait says false only to an open request after the deadline.
THEOREM TimeoutsAreTrue == Spec => TrueTimeout
<1> DEFINE Answers ==
      \A w \in Timed : answer[w] # answer'[w] =>
        IF Ready THEN answer'[w] = "true"
                 ELSE answer'[w] = "false" /\ w \in late
<1>1. ASSUME TypeOK, [Next]_vars PROVE Answers \/ UNCHANGED vars
  <2> USE WaiterAssumption DEF TypeOK, Ready, flags
  <2>1. ASSUME NEW w \in Waiter, WaitReady(w) PROVE Answers
    BY <2>1 DEF WaitReady
  <2>2. ASSUME NEW w \in Waiter, WaitTimesOut(w) PROVE Answers
    BY <2>2 DEF WaitTimesOut
  <2>3. CASE UNCHANGED answer
    BY <2>3
  <2>4. ASSUME NEW w \in Waiter,
               Lock(w) \/ Doze(w) \/ Sleep(w) \/ Deadline(w) \/ SpuriousWakeup(w)
        PROVE  UNCHANGED answer
    BY <2>4 DEF Lock, Doze, Sleep, Deadline, SpuriousWakeup
  <2>5. ASSUME NEW c \in Completer, Complete(c) \/ NotifyAll(c)
        PROVE  UNCHANGED answer
    BY <2>5 DEF Complete, SetComplete, Cancel, NotifyAll
  <2>6. Returned => UNCHANGED answer
    BY DEF Returned, vars
  <2> HIDE DEF Answers
  <2> QED
    BY <1>1, <2>1, <2>2, <2>3, <2>4, <2>5, <2>6 DEF Next, Wait
<1>2. TypeOK /\ [Next]_vars => [Answers]_vars
  BY <1>1
<1> QED BY <1>2, TypeCorrect, PTL DEF Spec, TrueTimeout

LEMMA AnswerStep == TypeOK /\ AnswerInv /\ [Next]_vars => AnswerInv'
<1> SUFFICES ASSUME TypeOK, AnswerInv, [Next]_vars PROVE AnswerInv'
  OBVIOUS
<1> USE DEF TypeOK, AnswerInv, flags
<1>1. ASSUME NEW w \in Waiter, Wait(w) PROVE AnswerInv'
  BY <1>1 DEF Wait, Lock, WaitReady, WaitTimesOut, Doze, Sleep
<1>2. ASSUME NEW w \in Waiter, Deadline(w) \/ SpuriousWakeup(w) PROVE AnswerInv'
  BY <1>2 DEF Deadline, SpuriousWakeup
<1>3. ASSUME NEW c \in Completer, Complete(c) \/ NotifyAll(c) PROVE AnswerInv'
  BY <1>3 DEF Complete, SetComplete, Cancel, NotifyAll
<1>4. CASE Returned \/ UNCHANGED vars
  BY <1>4 DEF Returned, vars
<1> QED BY <1>1, <1>2, <1>3, <1>4 DEF Next

LEMMA AnswerCorrect == Spec => [](TypeOK /\ AnswerInv)
<1>1. Init => AnswerInv
  BY DEF Init, AnswerInv
<1> QED BY <1>1, TypeInit, TypeStep, AnswerStep, PTL DEF Spec

\* The mutex, the flags and the condition variable keep the promise of
\* Completion: done stays done, and each Wait is answered once and truly.
THEOREM Refinement == Spec => ImplementsCompletion
<1>1. Init => Promise!Init
  BY DEF Init, Promise!Init, Ready
<1>2. TypeOK /\ AnswerInv /\ [Next]_vars => [Promise!Next]_<<Ready, answer>>
  <2> SUFFICES ASSUME TypeOK, AnswerInv, [Next]_vars
               PROVE  Promise!Next \/ UNCHANGED <<Ready, answer>>
    OBVIOUS
  <2> USE DEF TypeOK, AnswerInv, Ready, flags
  <2>1. ASSUME NEW w \in Waiter, WaitReady(w) PROVE Promise!Next
    <3>1. CASE w \in Timed
      <4>1. Promise!Succeed(w)
        BY <2>1, <3>1 DEF WaitReady, Promise!Succeed, Promise!Reply
      <4> QED BY <4>1 DEF Promise!Next
    <3>2. CASE w \notin Timed
      <4>1. Promise!Join(w)
        BY <2>1, <3>2 DEF WaitReady, Promise!Join, Promise!Reply
      <4> QED BY <4>1 DEF Promise!Next
    <3> QED BY <3>1, <3>2
  <2>2. ASSUME NEW w \in Waiter, WaitTimesOut(w) PROVE Promise!Next
    <3>1. Promise!GiveUp(w)
      BY <2>2 DEF WaitTimesOut, Promise!GiveUp, Promise!Reply
    <3> QED BY <3>1 DEF Promise!Next
  <2>3. ASSUME NEW w \in Waiter,
               Lock(w) \/ Doze(w) \/ Sleep(w) \/ Deadline(w) \/ SpuriousWakeup(w)
        PROVE  UNCHANGED <<Ready, answer>>
    BY <2>3 DEF Lock, Doze, Sleep, Deadline, SpuriousWakeup
  <2>4. ASSUME NEW c \in Completer, Complete(c) PROVE Promise!Next
    BY <2>4 DEF Complete, SetComplete, Cancel, Promise!Next, Promise!Finish
  <2>5. ASSUME NEW c \in Completer, NotifyAll(c) PROVE UNCHANGED <<Ready, answer>>
    BY <2>5 DEF NotifyAll
  <2>6. CASE Returned \/ UNCHANGED vars
    BY <2>6 DEF Returned, vars
  <2> QED BY <2>1, <2>2, <2>3, <2>4, <2>5, <2>6 DEF Next, Wait
<1> QED
  BY <1>1, <1>2, AnswerCorrect, PTL DEF Spec, ImplementsCompletion, Promise!Spec
=============================================================================
