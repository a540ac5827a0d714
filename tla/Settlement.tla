----------------------------- MODULE Settlement -----------------------------
(***************************************************************************)
(* What the whole system promises about the effect of a transfer: it       *)
(* happens at most once, and not before the transfer is stored.  Pipeline  *)
(* implements it.                                                          *)
(***************************************************************************)
EXTENDS Naturals

CONSTANT Requests

VARIABLES
  stored,   \* requests whose transfer is committed
  effects   \* how often the effect of each was committed

Init == stored = {} /\ effects = [r \in Requests |-> 0]

Store(r) == /\ r \notin stored
            /\ stored' = stored \cup {r}
            /\ UNCHANGED effects

Take(r) == /\ r \in stored /\ effects[r] = 0
           /\ effects' = [effects EXCEPT ![r] = 1]
           /\ UNCHANGED stored

Next == \E r \in Requests : Store(r) \/ Take(r)

Safety == Init /\ [][Next]_<<stored, effects>>
=============================================================================
