---------------------------- MODULE PersistentBus ----------------------------
(***************************************************************************)
(* What the bridge promises of each root bus: a BusAttachment that, once   *)
(* connected, is reconnected after every loss of its link until it is      *)
(* closed. The comment above reconnectFunction calls it the                *)
(* PersistentBusAttachment this code should become.                        *)
(***************************************************************************)
CONSTANT Bus

VARIABLE link

Init == link = [b \in Bus |-> "new"]

Moves(b, from, to) ==
  /\ link[b] \in from
  /\ link' = [link EXCEPT ![b] = to]

Open(b)    == Moves(b, {"new"}, "up")
Lose(b)    == Moves(b, {"up"}, "lost")
Report(b)  == Moves(b, {"lost"}, "queued")
Recover(b) == Moves(b, {"queued"}, "up")
Close(b)   == Moves(b, {"new", "up", "lost", "queued"}, "closed")

Next == \E b \in Bus : Open(b) \/ Lose(b) \/ Report(b) \/ Recover(b) \/ Close(b)

Spec == Init /\ [][Next]_link
=============================================================================
