-------------------------- MODULE MCClientSession ---------------------------
(* Instances of ClientSession for TLC: two tokens of ann and one of ben, one *)
(* of ann's from an older version of the program.                            *)
EXTENDS ClientSession

CONSTANTS a0, a1, b1, ann, ben

MCOwner == [t \in Tokens |-> IF t = b1 THEN ben ELSE ann]
=============================================================================
