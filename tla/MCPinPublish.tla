---------------------------- MODULE MCPinPublish ----------------------------
(* Instances of PinPublish for TLC.                                         *)
EXTENDS PinPublish, TLC

Symmetry == Permutations(Keys) \cup Permutations(Requests)
=============================================================================
