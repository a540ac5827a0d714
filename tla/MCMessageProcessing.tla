------------------------ MODULE MCMessageProcessing -------------------------
(* Instances of MessageProcessing for TLC. *)
EXTENDS MessageProcessing, TLC

Symmetric == Permutations(Copies) \cup Permutations(Consumers)
=============================================================================
