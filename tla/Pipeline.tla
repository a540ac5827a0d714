------------------------------ MODULE Pipeline ------------------------------
(***************************************************************************)
(* The whole way of a transfer, from its COMMIT to the effect of its event *)
(* in the processing worker: the atomic operations on the tables (Bank,    *)
(* which TransferLedger implements), the outbox workers (OutboxRelay) and  *)
(* the queues with their consumers (MessageProcessing).                    *)
(*                                                                         *)
(* Two steps are taken together.  The transaction that stores a transfer   *)
(* inserts its row of outbox_events; and what an outbox worker's channel   *)
(* delivers is a message in the main queue.  The set of the events that    *)
(* have reached the main queue is one variable of both sides, arrived.     *)
(***************************************************************************)
EXTENDS BankTables

CONSTANTS
  Number,          \* created_at of the event each request would write
  Workers,         \* outbox worker processes
  BatchLimit,      \* pickEvents(10)
  BrokerRestarts,  \* the broker may close a connection in an orderly way
  RelayFaults,     \* bound on the failures of the outbox workers
  Copies,          \* names for the copies that exist at a time
  Consumers,       \* processing worker processes
  Prefetch,        \* channel.prefetch(5)
  MaxRetries,      \* PROCESSING_MAX_RETRIES
  ConsumerFaults,  \* bound on the failures of the processing workers
  None             \* nothing, nobody

VARIABLES
  accounts, transfers, ledger, outbox,
  status, lease, due, late, pc, batch, current, channel, buffer, unsent, relayFaults,
  arrived,
  at, id, retries, by, processed, effects, deaf, orphans, consumerFaults

Events == {Number[r] : r \in Requests}

Bank == INSTANCE Bank

\* The components, with what is proved about them.
Relay == INSTANCE OutboxRelayProofs
           WITH MaxFaults <- RelayFaults, faults <- relayFaults

\* Every message is the JSON.stringify of an event.
Worker == INSTANCE MessageProcessingProofs
            WITH Ids <- Events, Poison <- {}, published <- arrived,
                 MaxFaults <- ConsumerFaults, faults <- consumerFaults

ASSUME PipelineAssumption ==
  /\ Number \in [Requests -> Nat]
  /\ \A q, r \in Requests : Number[q] = Number[r] => q = r
  /\ Relay!RelayAssumption
  /\ Worker!ProcessingAssumption

tables   == <<accounts, transfers, ledger, outbox>>
relaying == <<status, lease, due, late, pc, batch, current, channel, buffer, unsent,
              relayFaults>>
handling == <<at, id, retries, by, processed, effects, deaf, orphans, consumerFaults>>
vars     == <<tables, relaying, arrived, handling>>

Init == Bank!Init /\ Relay!Init /\ Worker!Init

-----------------------------------------------------------------------------
\* Mutations of Transfer: the event is not written in the transaction, or it
\* stays when the transaction is rolled back.
TransferWithoutEvent(r, i, body) ==
  /\ Bank!Transfer(r, i[1], i[2], body)
  /\ UNCHANGED <<relaying, arrived, handling>>

TransferRolledBack(r, i, body) ==
  /\ Bank!MayTransfer(i[1], body)
  /\ Relay!Create(Number[r])
  /\ UNCHANGED <<tables, handling>>

\* COMMIT of TransfersService.create: outbox.createEvent was a statement of the
\* same transaction.
Transfer(r, i, body) ==
  /\ Bank!Transfer(r, i[1], i[2], body)
  /\ Relay!Create(Number[r])
  /\ UNCHANGED handling

\* Every other operation on the tables writes no event.
Banking ==
  /\ \/ \E r \in Requests, a \in Accounts, amount \in Amounts : Bank!TopUp(r, a, amount)
     \/ \E a \in Accounts, state \in {"ACTIVE", "LOCKED"} : Bank!SetStatus(a, state)
     \/ \E u \in Users, a \in Accounts, currency \in Currencies : Bank!Open(u, a, currency)
  /\ UNCHANGED <<relaying, arrived, handling>>

Relaying(A) == A /\ UNCHANGED <<tables, handling>>

\* Mutation of Arrive: no queue is bound to the exchange.
ArriveUnbound(w, e, k) ==
  /\ Relay!Flush(w, e)
  /\ UNCHANGED <<tables, handling>>

\* A message leaves the channel of w and is the copy k in the main queue.
Arrive(w, e, k) ==
  /\ Relay!Flush(w, e)
  /\ Worker!Publish(k, e)
  /\ UNCHANGED tables

Handling(A) == A /\ UNCHANGED <<tables, relaying>>

Next ==
  \/ \E r \in Requests, i \in Index, body \in Body : Transfer(r, i, body)
  \/ Banking
  \/ Relaying(Relay!Operate)
  \/ \E w \in Workers, e \in Events, k \in Copies : Arrive(w, e, k)
  \/ Handling(Worker!Consume)

Spec == Init /\ [][Next]_vars

\* What OutboxRelay and MessageProcessing assume of the workers, the broker and
\* the database.
Fairness ==
  /\ \A w \in Workers :
       /\ WF_vars(Relaying(Relay!Work(w)))
       /\ WF_vars(\E e \in Events, k \in Copies : Arrive(w, e, k))
  /\ \A e \in Events :
       /\ WF_vars(Relaying(Relay!NoFault /\ Relay!LeaseExpires(e)))
       /\ WF_vars(Relaying(Relay!RetryDue(e)))
  /\ \A c \in Consumers :
       WF_vars(\E o \in orphans :
                 Handling(o.by = c /\ Worker!OrphanStep(o)))
  /\ \A k \in Copies :
       /\ SF_vars(\E c \in Consumers : Handling(Worker!Deliver(c, k)))
       /\ WF_vars(Handling(Worker!RetryExpires(k)))
       /\ WF_vars(Handling(Worker!Handle(k)))
       /\ WF_vars(Handling(Worker!PeekEnds(k) \/ Worker!Replay(k)))

FairSpec == Spec /\ Fairness

-----------------------------------------------------------------------------
(* Properties *)

\* The effect of a transfer's event is committed at most once, however often
\* the outbox and the queues repeat the event, and only for a transfer that is
\* stored as SUCCESS with both its ledger rows.
EffectsAreTransfers ==
  \A r \in Requests : effects[Number[r]] # 0 =>
    /\ effects[Number[r]] = 1
    /\ \E i \in Index : /\ transfers[i] # NoTransfer
                        /\ transfers[i].id = r /\ transfers[i].status = "SUCCESS"
                        /\ TransferEntries(r, transfers[i].body) \subseteq ledger

\* From the COMMIT of a transfer on, its event is always somewhere: waiting in
\* the outbox, on an open channel, in a queue or in the hands of a consumer,
\* or processed; unless a connection has broken with its message unsent on it.
TransferNeverLost ==
  \A r \in outbox :
    \/ status[Number[r]] = "waiting"
    \/ \E w \in Workers : Number[r] \in buffer[w]
    \/ Number[r] \in unsent
    \/ \E k \in Copies : id[k] = Number[r]
    \/ Number[r] \in processed

\* The pipeline implements Settlement: whatever the outbox and the queues repeat,
\* lose or delay, the effect of a transfer is committed at most once, and after
\* the transfer.  It is in the end, or the event is in the dead letter queue,
\* unless a connection broke with its unsent message and the row is marked
\* published (Relay!Lost), an outbox worker lives on for good with a channel the
\* broker has closed, or the connections of all consumers have been closed by it.
Settled == INSTANCE Settlement
             WITH stored <- outbox, effects <- [r \in Requests |-> effects[Number[r]]]
ImplementsSettlement ==
  /\ Settled!Safety
  /\ <>[](\A w \in Workers : channel[w] # "closed") =>
       \A r \in Requests :
         \/ r \in outbox ~> \/ Number[r] \in processed
                            \/ \E k \in Copies : id[k] = Number[r] /\ at[k] = "dlq"
                            \/ Consumers = deaf
         \/ <>[]Relay!Lost(Number[r])
=============================================================================
