------------------------------ MODULE MCBridge ------------------------------
(***************************************************************************)
(* Instances of Bridge for TLC.                                            *)
(***************************************************************************)
EXTENDS BridgeProps, TLC

Tasks == Permutations(Task)
=============================================================================
