------------------------------ MODULE MCBridge -------------------------------
(* Small instances of Bridge for TLC.                                      *)
EXTENDS Bridge, TLC

\* The prefix of the mock adapter, which is a path; none; digits and dots
\* where the encoders must look. A name with a digit, and one with nothing else.
MCAdapter ==
  [prefix : {<<Other, Letter>>, <<>>, <<Digit, Letter>>, <<Letter, Dot, Digit>>,
             <<Dot, Digit>>, <<Dot, Other, Dot>>, <<Letter, Dot, Other, Dot, Letter>>},
   name : {<<Digit, Letter>>, <<Digit>>}]

DeviceSymmetry == Permutations(Device)
=============================================================================
