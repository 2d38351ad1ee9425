----------------------------- MODULE MCIoRequest -----------------------------
(* Small instances of IoRequest for TLC.                                   *)
EXTENDS IoRequest, TLC

Success == 0
Failure == 5

Statuses == {Success, Failure}
=============================================================================
