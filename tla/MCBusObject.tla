----------------------------- MODULE MCBusObject -----------------------------
(* Small instances of BusObject for TLC.                                   *)
EXTENDS BusObject

\* The power strip of the mock adapter: one device with three outlets.
PowerStrip == [d \in Device |-> 3]

\* One device has a child, the others none.
OneParent == [d \in Device |-> IF d = CHOOSE e \in Device : TRUE THEN 1 ELSE 0]
=============================================================================
