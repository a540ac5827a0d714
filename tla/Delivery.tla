------------------------------ MODULE Delivery ------------------------------
(***************************************************************************)
(* What the transactional outbox promises to whoever consumes the queue:   *)
(* only events of committed transfers arrive, and every one of them does,  *)
(* once or more often.  OutboxRelay implements it.                         *)
(***************************************************************************)
CONSTANT Events

VARIABLES
  committed,  \* events whose row is in outbox_events
  arrived     \* events whose message has reached the transfer queue

Init == committed = {} /\ arrived = {}

Commit(e) == /\ e \notin committed
             /\ committed' = committed \cup {e}
             /\ UNCHANGED arrived

Arrive(e) == /\ e \in committed
             /\ arrived' = arrived \cup {e}
             /\ UNCHANGED committed

Next == \E e \in Events : Commit(e) \/ Arrive(e)

Promise(e) == WF_<<committed, arrived>>(Arrive(e))

Safety == Init /\ [][Next]_<<committed, arrived>>

Spec == Safety /\ \A e \in Events : Promise(e)
=============================================================================
