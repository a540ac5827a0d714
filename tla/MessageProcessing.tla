------------------------- MODULE MessageProcessing --------------------------
(***************************************************************************)
(* The processing worker (ProcessingWorkerService) and the dead letter     *)
(* queue endpoints (AdminMessagingService) on RabbitMQ's main, retry and   *)
(* dead letter queues and the table processed_messages.                    *)
(*                                                                         *)
(* A copy is one message in one queue; the same event may have several.    *)
(* A queue is the set of the copies that are in it: redelivery, the retry  *)
(* queue and several consumers reorder messages anyway.  sendToQueue and   *)
(* the ack that follows travel on one channel, in that order: both reach   *)
(* the broker, or the first only, or neither.                              *)
(*                                                                         *)
(* When the broker closes a connection in an orderly way, amqplib raises   *)
(* no error: the worker lives on and never consumes again (it is deaf).    *)
(* Its handlers are orphans from then on: their messages are back in the   *)
(* queue while their transactions go on.                                   *)
(***************************************************************************)
EXTENDS Integers, FiniteSets

CONSTANTS
  Ids,         \* message ids: the ids of outbox events
  Poison,      \* messages whose body is not JSON
  Copies,      \* names for the copies that exist at a time
  Consumers,   \* processing worker processes
  Prefetch,    \* channel.prefetch(5)
  MaxRetries,  \* PROCESSING_MAX_RETRIES
  MaxFaults,   \* bound on the failures of a behaviour
  None         \* nobody, nothing

ASSUME ProcessingAssumption ==
  /\ Poison \subseteq Ids
  /\ IsFiniteSet(Copies)
  /\ Prefetch \in Nat \ {0}
  /\ MaxRetries \in Nat
  /\ MaxFaults \in Nat
  /\ None \notin Ids \cup Consumers

VARIABLES
  at,         \* where each copy is
  id,         \* messageId of each copy
  retries,    \* x-retry-count of each copy
  by,         \* the consumer that has not acked the copy
  published,  \* ids that have ever reached the main queue
  processed,  \* processed_messages
  effects,    \* how often the effect of each message was committed
  deaf,       \* consumers that live on a connection the broker has closed
  orphans,    \* their handlers that still run
  faults      \* failures so far

vars == <<at, id, retries, by, published, processed, effects, deaf, orphans, faults>>

\* The stages of handleMessage, from the delivery to the ack.
Handling == {"received", "inserted", "done", "failed"}
Places   == {"free", "main", "retry", "dlq", "peeked", "replaying"} \cup Handling

Init ==
  /\ at = [k \in Copies |-> "free"]
  /\ id = [k \in Copies |-> None]
  /\ retries = [k \in Copies |-> 0]
  /\ by = [k \in Copies |-> None]
  /\ published = {} /\ processed = {}
  /\ effects = [i \in Ids |-> 0]
  /\ deaf = {} /\ orphans = {}
  /\ faults = 0

Fault == faults < MaxFaults /\ faults' = faults + 1

Moves(k, place) == at' = [at EXCEPT ![k] = place]
Tables == <<published, processed, effects>>
Live   == <<deaf, orphans>>

-----------------------------------------------------------------------------
(* The queues *)

\* The outbox relay delivers at least once.
Publish(k, i) ==
  /\ at[k] = "free"
  /\ Moves(k, "main")
  /\ id' = [id EXCEPT ![k] = i]
  /\ retries' = [retries EXCEPT ![k] = 0]
  /\ published' = published \cup {i}
  /\ UNCHANGED <<by, processed, effects, Live, faults>>

\* x-message-ttl: back to the main queue, headers and all.
RetryExpires(k) ==
  /\ at[k] = "retry"
  /\ Moves(k, "main")
  /\ UNCHANGED <<id, retries, by, Tables, Live, faults>>

\* Mutation of Deliver: no prefetch limit.
DeliverUnlimited(c, k) ==
  /\ at[k] = "main" /\ c \notin deaf
  /\ Moves(k, "received")
  /\ by' = [by EXCEPT ![k] = c]
  /\ UNCHANGED <<id, retries, Tables, Live, faults>>

\* The broker hands a message to a consumer that has fewer than Prefetch
\* messages unacked.
Deliver(c, k) ==
  /\ at[k] = "main" /\ c \notin deaf
  /\ Cardinality({j \in Copies : by[j] = c}) < Prefetch
  /\ Moves(k, "received")
  /\ by' = [by EXCEPT ![k] = c]
  /\ UNCHANGED <<id, retries, Tables, Live, faults>>

-----------------------------------------------------------------------------
(* handleMessage *)

\* JSON.parse throws before the transaction begins.
ParseFails(k) ==
  /\ at[k] = "received" /\ id[k] \in Poison
  /\ Moves(k, "failed")
  /\ UNCHANGED <<id, retries, by, Tables, Live, faults>>

\* A transaction that has inserted the id is open.
Inserted(i) ==
  \/ \E j \in Copies : at[j] = "inserted" /\ id[j] = i
  \/ \E o \in orphans : o.stage = "inserted" /\ o.id = i

\* Mutation of InsertProcessed: the conflict is not noticed.
InsertAlways(k) ==
  /\ at[k] = "received" /\ id[k] \notin Poison
  /\ ~Inserted(id[k])
  /\ Moves(k, "inserted")
  /\ UNCHANGED <<id, retries, by, Tables, Live, faults>>

\* INSERT INTO processed_messages ... ON CONFLICT DO NOTHING waits for another
\* transaction that has inserted the id.  A conflict ends the transaction
\* without effect.
InsertProcessed(k) ==
  /\ at[k] = "received" /\ id[k] \notin Poison
  /\ ~Inserted(id[k])
  /\ Moves(k, IF id[k] \in processed THEN "done" ELSE "inserted")
  /\ UNCHANGED <<id, retries, by, Tables, Live, faults>>

Processed(i) ==
  /\ processed' = processed \cup {i}
  /\ effects' = [effects EXCEPT ![i] = @ + 1]
  /\ UNCHANGED published

\* processTransferEvent and COMMIT.
Commit(k) ==
  /\ at[k] = "inserted"
  /\ Moves(k, "done")
  /\ Processed(id[k])
  /\ UNCHANGED <<id, retries, by, Live, faults>>

\* The transaction fails; or it commits and the acknowledgement is lost.
TransactionFails(k) ==
  /\ at[k] \in {"received", "inserted"} /\ id[k] \notin Poison
  /\ Fault
  /\ Moves(k, "failed")
  /\ UNCHANGED Tables \/ (at[k] = "inserted" /\ Processed(id[k]))
  /\ UNCHANGED <<id, retries, by, Live>>

Ack(k) ==
  /\ at[k] = "done"
  /\ Moves(k, "free")
  /\ by' = [by EXCEPT ![k] = None]
  /\ id' = [id EXCEPT ![k] = None]
  /\ retries' = [retries EXCEPT ![k] = 0]
  /\ UNCHANGED <<Tables, Live, faults>>

-----------------------------------------------------------------------------
(* handleFailedMessage *)

\* Mutation of NextQueue: one retry too many.
NextQueueLate(k) == IF retries[k] > MaxRetries THEN "dlq" ELSE "retry"

NextQueue(k) == IF retries[k] >= MaxRetries THEN "dlq" ELSE "retry"

\* Mutations of HandleFailed: a message that has used up its retries is only
\* acked; x-retry-count is not increased.
HandleFailedDrops(k) ==
  /\ at[k] = "failed"
  /\ by' = [by EXCEPT ![k] = None]
  /\ IF retries[k] >= MaxRetries
       THEN /\ Moves(k, "free")
            /\ id' = [id EXCEPT ![k] = None]
            /\ retries' = [retries EXCEPT ![k] = 0]
       ELSE /\ Moves(k, "retry")
            /\ retries' = [retries EXCEPT ![k] = @ + 1]
            /\ UNCHANGED id
  /\ UNCHANGED <<Tables, Live, faults>>

HandleFailedUncounted(k) ==
  /\ at[k] = "failed"
  /\ Moves(k, NextQueue(k))
  /\ by' = [by EXCEPT ![k] = None]
  /\ UNCHANGED <<id, retries, Tables, Live, faults>>

\* The copy goes on to the retry queue or the dead letter queue, with
\* x-retry-count increased, and the original is acked.
HandleFailed(k) ==
  /\ at[k] = "failed"
  /\ Moves(k, NextQueue(k))
  /\ retries' = [retries EXCEPT ![k] = @ + 1]
  /\ by' = [by EXCEPT ![k] = None]
  /\ UNCHANGED <<id, Tables, Live, faults>>

\* Where the copies are once everything c has not acked is redelivered.
Redelivered(c) == [k \in Copies |-> IF by[k] = c THEN "main" ELSE at[k]]
Released(c)    == [k \in Copies |-> IF by[k] = c THEN None ELSE by[k]]

-----------------------------------------------------------------------------
(* The connection and the process *)

\* The process ends, and another one takes its place.
Renewed(c) ==
  /\ deaf' = deaf \ {c}
  /\ orphans' = {o \in orphans : o.by # c}

\* The process lives on, and so do its handlers but those of handled, as long
\* as all of them are in their transactions.
Deafened(c, handled) ==
  LET running == {k \in Copies : by[k] = c} \ handled
  IN  /\ \A k \in running : at[k] \in {"received", "inserted"} /\ id[k] \notin Poison
      /\ deaf' = deaf \cup {c}
      /\ orphans' = orphans \cup
                      {[by |-> c, id |-> id[k], stage |-> at[k]] : k \in running}

\* A process dies and its open transactions are rolled back, or the broker
\* closes its connection.  What it has not acked is delivered again.
Crash(c) ==
  /\ Fault
  /\ \/ (\E k \in Copies : by[k] = c) /\ Renewed(c)
     \/ c \notin deaf /\ Deafened(c, {})
  /\ at' = Redelivered(c)
  /\ by' = Released(c)
  /\ UNCHANGED <<id, retries, Tables>>

\* The same, when the new copy n is in its queue and the ack of k has not got
\* to the broker.
CrashBeforeAck(c, k, n) ==
  /\ Fault
  /\ at[k] = "failed" /\ by[k] = c /\ at[n] = "free"
  /\ Renewed(c) \/ Deafened(c, {k})
  /\ at' = [Redelivered(c) EXCEPT ![n] = NextQueue(k)]
  /\ by' = Released(c)
  /\ id' = [id EXCEPT ![n] = id[k]]
  /\ retries' = [retries EXCEPT ![n] = retries[k] + 1]
  /\ UNCHANGED Tables

\* An orphan goes on with its transaction as any handler does.
Goes(o, stage) ==
  /\ orphans' = (orphans \ {o}) \cup {[o EXCEPT !.stage = stage]}
  /\ UNCHANGED <<at, id, retries, by, deaf, faults>>

OrphanInserts(o) ==
  /\ o.stage = "received" /\ ~Inserted(o.id)
  /\ Goes(o, IF o.id \in processed THEN "done" ELSE "inserted")
  /\ UNCHANGED Tables

OrphanCommits(o) ==
  /\ o.stage = "inserted"
  /\ Processed(o.id)
  /\ Goes(o, "done")

\* Its ack on the closed channel throws, and so does handleFailedMessage: the
\* unhandled rejection ends the process.
OrphanEnds(o) ==
  /\ o.stage = "done"
  /\ Renewed(o.by)
  /\ UNCHANGED <<at, id, retries, by, Tables, faults>>

OrphanStep(o) == OrphanInserts(o) \/ OrphanCommits(o) \/ OrphanEnds(o)

\* Somebody restarts a worker that hears nothing any more.
Restart(c) ==
  /\ c \in deaf
  /\ Renewed(c)
  /\ UNCHANGED <<at, id, retries, by, Tables, faults>>

-----------------------------------------------------------------------------
(* AdminMessagingService *)

\* peekTransferDlq: channel.get without ack, nack with requeue in the end.
PeekGet(k) ==
  /\ at[k] = "dlq"
  /\ Moves(k, "peeked")
  /\ UNCHANGED <<id, retries, by, Tables, Live, faults>>

PeekEnds(k) ==
  /\ at[k] = "peeked"
  /\ Moves(k, "dlq")
  /\ UNCHANGED <<id, retries, by, Tables, Live, faults>>

\* replayTransferDlq: get, publish with x-retry-count 0, ack.
ReplayGet(k) ==
  /\ at[k] = "dlq"
  /\ Moves(k, "replaying")
  /\ UNCHANGED <<id, retries, by, Tables, Live, faults>>

Replay(k) ==
  /\ at[k] = "replaying"
  /\ Moves(k, "main")
  /\ retries' = [retries EXCEPT ![k] = 0]
  /\ UNCHANGED <<id, by, Tables, Live, faults>>

\* The connection breaks: the message returns to the dead letter queue, and
\* its replayed copy n may already be in the main queue.
ReplayBreaks(k) ==
  /\ at[k] = "replaying"
  /\ Fault
  /\ \/ Moves(k, "dlq") /\ UNCHANGED <<id, retries>>
     \/ \E n \in Copies :
          /\ at[n] = "free"
          /\ at' = [at EXCEPT ![k] = "dlq", ![n] = "main"]
          /\ id' = [id EXCEPT ![n] = id[k]]
          /\ retries' = [retries EXCEPT ![n] = 0]
  /\ UNCHANGED <<by, Tables, Live>>

-----------------------------------------------------------------------------
\* What the handler of a delivered copy does next.
Handle(k) ==
  ParseFails(k) \/ InsertProcessed(k) \/ Commit(k) \/ Ack(k) \/ HandleFailed(k)

Admin(k) == PeekGet(k) \/ PeekEnds(k) \/ ReplayGet(k) \/ Replay(k)

Consume ==
  \/ \E k \in Copies :
       \/ \E c \in Consumers : Deliver(c, k)
       \/ RetryExpires(k) \/ Handle(k) \/ Admin(k)
       \/ TransactionFails(k) \/ ReplayBreaks(k)
  \/ \E o \in orphans : OrphanStep(o)
  \/ \E c \in Consumers :
       Crash(c) \/ Restart(c) \/ \E k, n \in Copies : CrashBeforeAck(c, k, n)

Next == (\E k \in Copies, i \in Ids : Publish(k, i)) \/ Consume

Spec == Init /\ [][Next]_vars

\* The broker delivers, the retry TTL runs out, a handler that can go on does
\* and an admin request comes to its end.  Nobody has to restart a deaf worker.
Fairness ==
  /\ \A c \in Consumers :
       WF_vars(\E o \in orphans : o.by = c /\ OrphanStep(o))
  /\ \A k \in Copies :
       /\ SF_vars(\E c \in Consumers : Deliver(c, k))
       /\ WF_vars(RetryExpires(k))
       /\ WF_vars(Handle(k))
       /\ WF_vars(PeekEnds(k) \/ Replay(k))

FairSpec == Spec /\ Fairness

-----------------------------------------------------------------------------
(* Properties *)

\* Every variable keeps its type; a copy has a consumer just while it is being
\* handled, one with a connection and within its prefetch; who has orphans is
\* deaf.
TypeOK ==
  /\ at \in [Copies -> Places]
  /\ id \in [Copies -> Ids \cup {None}]
  /\ retries \in [Copies -> 0..MaxRetries + 1]
  /\ by \in [Copies -> Consumers \cup {None}]
  /\ published \subseteq Ids /\ processed \subseteq published
  /\ effects \in [Ids -> Nat]
  /\ deaf \subseteq Consumers
  /\ orphans \subseteq [by: deaf, id: Ids, stage: {"received", "inserted", "done"}]
  /\ faults \in 0..MaxFaults
  /\ \A k \in Copies : /\ at[k] \in Handling <=> by[k] # None
                       /\ at[k] = "free" <=> id[k] = None
                       /\ by[k] \notin deaf
  /\ \A c \in Consumers : Cardinality({k \in Copies : by[k] = c}) <= Prefetch

\* The consumer is idempotent: however often a message is duplicated,
\* redelivered, retried or replayed, its effect is committed at most once, in
\* the transaction that records the message as processed.
EffectOnce ==
  \A i \in Ids : effects[i] = IF i \in processed THEN 1 ELSE 0

\* FR-08: a crash loses no message.  What was published and is not processed
\* is in a queue or in the hands of somebody who has not acked it.
NeverLost ==
  \A i \in published : i \in processed \/ \E k \in Copies : id[k] = i

\* NFR-03: retries are limited.  A message is only handled with at most
\* MaxRetries retries behind it, and is in the dead letter queue exactly when
\* it has one failure more.
RetriesBounded ==
  \A k \in Copies :
    at[k] \in {"dlq", "peeked", "replaying"} <=> retries[k] = MaxRetries + 1

\* Every published message is processed or gets into the dead letter queue,
\* unless the connections of all workers have been closed by the broker.
EveryMessageSettles ==
  \A i \in Ids : i \in published ~>
    \/ i \in processed
    \/ \E k \in Copies : id[k] = i /\ at[k] = "dlq"
    \/ Consumers = deaf
=============================================================================
