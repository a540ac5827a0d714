-------------------------- MODULE MCAuthentication --------------------------
(* Instances of Authentication for TLC: one administrator is there, the      *)
(* requests register and log in with its email and with one that is free.    *)
EXTENDS Authentication, TLC

CONSTANTS e1, e2, p1, p2

MCFounder == [i \in Founders |-> [email |-> e1, password |-> p1, role |-> "ADMIN",
                                  status |-> "ACTIVE"]]

Symmetric == Permutations(Requests)
=============================================================================
