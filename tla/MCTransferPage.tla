--------------------------- MODULE MCTransferPage ---------------------------
(* Instances of TransferPage for TLC: account 1 is of alice, who can pay
   2 once. *)
EXTENDS TransferPage, TLC

CONSTANTS alice, bob, vnd

AccountOf(balance, owner) ==
  [status |-> "ACTIVE", balance |-> balance, owner |-> owner, currency |-> vnd]

MCOpening == <<AccountOf(3, alice), AccountOf(1, bob)>>

\* Every id is spelled as PostgreSQL does.
OneSpelling == [a \in Ids |-> a]

MCPayer == [f \in Forms |-> alice]

Symmetric == Permutations(Keys)
=============================================================================
