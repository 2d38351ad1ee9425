------------------------------ MODULE Completion ------------------------------
(***************************************************************************)
(* What adapter::IoRequest promises, with no mutex, no condition variable  *)
(* and no sleeping: a request is open until it is done, stays done, and a  *)
(* Wait is answered once. Before it is done only a Wait with a deadline is *)
(* answered, with false; afterwards a Wait with a deadline is answered     *)
(* true. The modules that use requests are written against this.           *)
(***************************************************************************)
CONSTANTS Waiter, Timed

VARIABLES done, answer

Init == done = FALSE /\ answer = [w \in Waiter |-> "none"]

Finish == done' = TRUE /\ UNCHANGED answer

Reply(w, a) ==
  /\ answer[w] = "none"
  /\ answer' = [answer EXCEPT ![w] = a]
  /\ UNCHANGED done

GiveUp(w) == w \in Timed /\ ~done /\ Reply(w, "false")
Succeed(w) == w \in Timed /\ done /\ Reply(w, "true")
Join(w) == w \notin Timed /\ done /\ Reply(w, "false")

Next == Finish \/ \E w \in Waiter : GiveUp(w) \/ Succeed(w) \/ Join(w)

Spec == Init /\ [][Next]_<<done, answer>>
=============================================================================
