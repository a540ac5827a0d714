----------------------------- MODULE MCPipeline -----------------------------
(* Instances of Pipeline for TLC. *)
EXTENDS Pipeline, TLC

CONSTANTS alice, vnd, r1, r2

\* alice has money for one transfer to the account she may still open.
OneFunded == [a \in Accounts |-> [status |-> IF a = 1 THEN "ACTIVE" ELSE "ABSENT",
                                  balance |-> IF a = 1 THEN 1 ELSE 0,
                                  owner |-> alice, currency |-> vnd]]

\* Every id is spelled as PostgreSQL does.
OneSpelling == [a \in Ids |-> a]

InOrder == [r \in Requests |-> IF r = r1 THEN 1 ELSE 2]
=============================================================================
