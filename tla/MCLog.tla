-------------------------------- MODULE MCLog --------------------------------
(* A small instance of Log for TLC: Debug, Info and Off.                   *)
EXTENDS Log, TLC

MCLevels == {0, 1, 5}
=============================================================================
