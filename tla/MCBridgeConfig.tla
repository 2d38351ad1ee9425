---------------------------- MODULE MCBridgeConfig ----------------------------
(* A small instance of BridgeConfig for TLC.                               *)
EXTENDS BridgeConfig, TLC

NodeSymmetry == Permutations(Node)
=============================================================================
