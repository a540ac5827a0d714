---------------------------- MODULE OutboxRelay -----------------------------
(***************************************************************************)
(* The outbox workers (OutboxWorkerService), each a process of its own with*)
(* a RabbitmqPublisher, on the outbox_events table and the connection to   *)
(* RabbitMQ.  An action is one statement or one publish, with the          *)
(* JavaScript up to the next await.                                        *)
(*                                                                         *)
(* Time is abstract: a lease may be found older than 30 seconds, and a     *)
(* retry may be found due, at any moment after it was written.  attempts   *)
(* only picks the length of the delay and is left out.  An event is a      *)
(* number; created_at orders rows as the numbers are ordered, and rows are *)
(* committed in any order.                                                 *)
(***************************************************************************)
EXTENDS Integers, FiniteSets

CONSTANTS
  Events,          \* rows that may get into outbox_events
  Workers,         \* worker processes
  BatchLimit,      \* pickEvents(10)
  BrokerRestarts,  \* the broker may close a connection in an orderly way
  MaxFaults,       \* bound on the failures of a behaviour
  None             \* no event

ASSUME RelayAssumption ==
  /\ Events \subseteq Nat
  /\ BatchLimit \in Nat \ {0}
  /\ BrokerRestarts \in BOOLEAN
  /\ MaxFaults \in Nat
  /\ None \notin Events

VARIABLES
  status,   \* of each row; "published" is published_at IS NOT NULL
  lease,    \* locked_at of each row: NULL, within 30 seconds, or older
  due,      \* next_retry_at IS NULL OR next_retry_at <= NOW()
  late,     \* events whose lease has run out under a worker at work on them
  pc,       \* the statement each worker sends next
  batch,    \* the events the worker still has to publish
  current,  \* the event publishOne works on
  channel,  \* the publisher's cached channel
  buffer,   \* messages handed to the channel that are not on the broker
  unsent,   \* events whose message a connection that broke took with it
  arrived,  \* events whose message reached the transfer queue
  faults    \* failures so far

rows == <<status, lease, due>>
vars == <<rows, late, pc, batch, current, channel, buffer, unsent, arrived, faults>>

Init ==
  /\ status = [e \in Events |-> "absent"]
  /\ lease = [e \in Events |-> "null"]
  /\ due = [e \in Events |-> TRUE]
  /\ late = {}
  /\ pc = [w \in Workers |-> "pick"]
  /\ batch = [w \in Workers |-> {}]
  /\ current = [w \in Workers |-> None]
  /\ channel = [w \in Workers |-> "none"]
  /\ buffer = [w \in Workers |-> {}]
  /\ unsent = {}
  /\ arrived = {}
  /\ faults = 0

Fault == faults < MaxFaults /\ faults' = faults + 1
NoFault == UNCHANGED faults

GoTo(w, statement) == pc' = [pc EXCEPT ![w] = statement]

-----------------------------------------------------------------------------
(* The table *)

\* OutboxService.createEvent, committed with its transfer.
Create(e) ==
  /\ status[e] = "absent"
  /\ status' = [status EXCEPT ![e] = "waiting"]
  /\ UNCHANGED <<lease, due, late, pc, batch, current, channel, buffer, unsent, arrived, faults>>

\* FOR UPDATE: the rows of a pick transaction that has not committed.
RowLocked(e) == \E w \in Workers : pc[w] = "commit" /\ e \in batch[w]

\* Time passes.  That a lease gets old while a live worker still counts on it
\* is a failure: a batch that takes longer than its leases last.
LeaseExpires(e) ==
  /\ lease[e] = "fresh"
  /\ IF \E w \in Workers : e \in batch[w]
     THEN Fault /\ late' = late \cup {e}
     ELSE NoFault /\ UNCHANGED late
  /\ lease' = [lease EXCEPT ![e] = "expired"]
  /\ UNCHANGED <<status, due, pc, batch, current, channel, buffer, unsent, arrived>>

RetryDue(e) ==
  /\ ~due[e]
  /\ due' = [due EXCEPT ![e] = TRUE]
  /\ UNCHANGED <<status, lease, late, pc, batch, current, channel, buffer, unsent, arrived, faults>>

-----------------------------------------------------------------------------
(* OutboxWorkerService.start and pickEvents *)

\* Mutation of Eligible: locked_at is not looked at.
EligibleLeased(e) == status[e] = "waiting" /\ due[e] /\ ~RowLocked(e)

\* Mutation of Eligible: a lease lasts forever.
EligibleNeverLeased(e) ==
  status[e] = "waiting" /\ due[e] /\ lease[e] = "null" /\ ~RowLocked(e)

\* The WHERE of pickEvents, FOR UPDATE SKIP LOCKED.
Eligible(e) ==
  status[e] = "waiting" /\ due[e] /\ lease[e] # "fresh" /\ ~RowLocked(e)

\* ORDER BY created_at ASC LIMIT n.
Oldest(n, S) == {e \in S : Cardinality({d \in S : d < e}) < n}

\* The UPDATE ... RETURNING of a pick transaction; without rows: sleep(1000).
Pick(w) ==
  /\ pc[w] = "pick"
  /\ LET picked == Oldest(BatchLimit, {e \in Events : Eligible(e)})
     IN  /\ batch' = [batch EXCEPT ![w] = picked]
         /\ GoTo(w, IF picked = {} THEN "sleep" ELSE "commit")
  /\ UNCHANGED <<rows, late, current, channel, buffer, unsent, arrived, faults>>

Leased(w) == lease' = [e \in Events |-> IF e \in batch[w] THEN "fresh" ELSE lease[e]]

\* Mutation of CommitPick: published_at is set when the event is picked.
CommitPickMarks(w) ==
  /\ pc[w] = "commit"
  /\ status' = [e \in Events |-> IF e \in batch[w] THEN "published" ELSE status[e]]
  /\ Leased(w)
  /\ GoTo(w, "publish")
  /\ UNCHANGED <<due, late, batch, current, channel, buffer, unsent, arrived, faults>>

\* COMMIT: the leases are taken.
CommitPick(w) ==
  /\ pc[w] = "commit"
  /\ Leased(w)
  /\ GoTo(w, "publish")
  /\ UNCHANGED <<status, due, late, batch, current, channel, buffer, unsent, arrived, faults>>

\* Mutation of LoopError: the batch is kept.
LoopErrorKeepsBatch(w) ==
  /\ GoTo(w, "sleep")
  /\ current' = [current EXCEPT ![w] = None]
  /\ UNCHANGED <<late, batch, channel, buffer, unsent, arrived>>

\* The catch of start: the rest of the batch is dropped, sleep(2000).
LoopError(w) ==
  /\ GoTo(w, "sleep")
  /\ batch' = [batch EXCEPT ![w] = {}]
  /\ current' = [current EXCEPT ![w] = None]
  /\ UNCHANGED <<late, channel, buffer, unsent, arrived>>

\* The pick transaction fails, or only the answer to its COMMIT is lost.
PickFails(w) ==
  /\ pc[w] = "commit"
  /\ Fault
  /\ Leased(w) \/ UNCHANGED lease
  /\ LoopError(w)
  /\ UNCHANGED <<status, due>>

Wake(w) ==
  /\ pc[w] = "sleep"
  /\ GoTo(w, "pick")
  /\ UNCHANGED <<rows, late, batch, current, channel, buffer, unsent, arrived, faults>>

-----------------------------------------------------------------------------
(* publishOne and RabbitmqPublisher.publish *)

\* getChannel: the cached channel, whatever became of it, or a new one.
Usable(w) == channel[w] \in {"none", "open"}

\* channel.publish returns true.
Publish(w) ==
  /\ pc[w] = "publish" /\ Usable(w)
  /\ \E e \in batch[w] :
       /\ current' = [current EXCEPT ![w] = e]
       /\ buffer' = [buffer EXCEPT ![w] = @ \cup {e}]
  /\ channel' = [channel EXCEPT ![w] = "open"]
  /\ GoTo(w, "mark")
  /\ UNCHANGED <<rows, late, batch, unsent, arrived, faults>>

\* The connection is refused; or the channel takes the message and returns
\* false, which the publisher reports as an error.
PublishFails(w) ==
  /\ pc[w] = "publish" /\ Usable(w)
  /\ Fault
  /\ \E e \in batch[w] :
       /\ current' = [current EXCEPT ![w] = e]
       /\ \/ channel[w] = "none" /\ UNCHANGED <<channel, buffer>>
          \/ /\ buffer' = [buffer EXCEPT ![w] = @ \cup {e}]
             /\ channel' = [channel EXCEPT ![w] = "open"]
  /\ GoTo(w, "failed")
  /\ UNCHANGED <<rows, late, batch, unsent, arrived>>

\* Publishing on a closed channel throws, every time.
PublishOnClosed(w) ==
  /\ pc[w] = "publish" /\ ~Usable(w)
  /\ \E e \in batch[w] : current' = [current EXCEPT ![w] = e]
  /\ GoTo(w, "failed")
  /\ UNCHANGED <<rows, late, batch, channel, buffer, unsent, arrived, faults>>

\* The loop goes on to the next event of the batch or picks again.
Proceed(w) ==
  /\ batch' = [batch EXCEPT ![w] = @ \ {current[w]}]
  /\ current' = [current EXCEPT ![w] = None]
  /\ GoTo(w, IF batch[w] = {current[w]} THEN "pick" ELSE "publish")
  /\ UNCHANGED <<late, channel, buffer, unsent, arrived>>

MarkPublished(e) ==
  /\ status' = [status EXCEPT ![e] = "published"]
  /\ lease' = [lease EXCEPT ![e] = "null"]
  /\ UNCHANGED due

\* UPDATE ... SET published_at = NOW(), locked_at = NULL.
Mark(w) ==
  /\ pc[w] = "mark" /\ ~RowLocked(current[w])
  /\ MarkPublished(current[w])
  /\ Proceed(w)
  /\ NoFault

\* The UPDATE throws, its effect may have taken place.
MarkFails(w) ==
  /\ pc[w] = "mark" /\ ~RowLocked(current[w])
  /\ Fault
  /\ MarkPublished(current[w]) \/ UNCHANGED rows
  /\ GoTo(w, "failed")
  /\ UNCHANGED <<late, batch, current, channel, buffer, unsent, arrived>>

ScheduleRetry(e) ==
  /\ due' = [due EXCEPT ![e] = FALSE]
  /\ lease' = [lease EXCEPT ![e] = "null"]
  /\ UNCHANGED status

\* The catch of publishOne: UPDATE ... SET next_retry_at, locked_at = NULL.
RecordFailure(w) ==
  /\ pc[w] = "failed" /\ ~RowLocked(current[w])
  /\ ScheduleRetry(current[w])
  /\ Proceed(w)
  /\ NoFault

\* That UPDATE throws too: the error leaves publishOne.
RecordFailureFails(w) ==
  /\ pc[w] = "failed" /\ ~RowLocked(current[w])
  /\ Fault
  /\ ScheduleRetry(current[w]) \/ UNCHANGED rows
  /\ LoopError(w)

-----------------------------------------------------------------------------
(* The connection and the process *)

\* A message of the channel reaches the queue the publisher has bound.
Flush(w, e) ==
  /\ e \in buffer[w]
  /\ buffer' = [buffer EXCEPT ![w] = @ \ {e}]
  /\ arrived' = arrived \cup {e}
  /\ UNCHANGED <<rows, late, pc, batch, current, channel, unsent, faults>>

\* Nothing waits for publisher confirms, and nobody reads the buffer back: what
\* the channel still holds is gone with the connection.
Disconnect(w, state) ==
  /\ unsent' = unsent \cup buffer[w]
  /\ buffer' = [buffer EXCEPT ![w] = {}]
  /\ channel' = [channel EXCEPT ![w] = state]

\* An orderly close by the broker: amqplib closes the channel and raises no
\* error, and this.channel is never reset.
BrokerCloses(w) ==
  /\ BrokerRestarts /\ channel[w] = "open"
  /\ Fault
  /\ Disconnect(w, "closed")
  /\ UNCHANGED <<rows, late, pc, batch, current, arrived>>

\* The process dies, by a signal or by the unhandled error of a connection
\* that breaks; its open transaction is rolled back.
Crash(w) ==
  /\ pc[w] # "down"
  /\ Fault
  /\ Disconnect(w, "none")
  /\ GoTo(w, "down")
  /\ batch' = [batch EXCEPT ![w] = {}]
  /\ current' = [current EXCEPT ![w] = None]
  /\ UNCHANGED <<rows, late, arrived>>

Restart(w) ==
  /\ pc[w] = "down"
  /\ GoTo(w, "pick")
  /\ UNCHANGED <<rows, late, batch, current, channel, buffer, unsent, arrived, faults>>

-----------------------------------------------------------------------------
Work(w) ==
  \/ Pick(w) \/ CommitPick(w) \/ Wake(w) \/ Publish(w) \/ PublishOnClosed(w)
  \/ Mark(w) \/ RecordFailure(w) \/ Restart(w)

Misfortune(w) ==
  \/ PickFails(w) \/ PublishFails(w) \/ MarkFails(w) \/ RecordFailureFails(w)
  \/ BrokerCloses(w) \/ Crash(w)

Operate ==
  \/ \E e \in Events : LeaseExpires(e) \/ RetryDue(e)
  \/ \E w \in Workers : Work(w) \/ Misfortune(w)

Next ==
  \/ \E e \in Events : Create(e)
  \/ Operate
  \/ \E w \in Workers, e \in Events : Flush(w, e)

Spec == Init /\ [][Next]_vars

\* A worker that can go on does, whoever restarts it included; messages on an
\* open connection get through; leases nobody works under get old and retries
\* get due.
Fairness ==
  /\ \A w \in Workers : WF_vars(Work(w)) /\ WF_vars(\E e \in Events : Flush(w, e))
  /\ \A e \in Events : WF_vars(NoFault /\ LeaseExpires(e)) /\ WF_vars(RetryDue(e))

FairSpec == Spec /\ Fairness

-----------------------------------------------------------------------------
(* Properties *)

\* Every variable keeps its type; a worker has a batch just while it works on
\* one, a current event just while publishOne does, and unsent messages only
\* on an open channel.
TypeOK ==
  /\ status \in [Events -> {"absent", "waiting", "published"}]
  /\ lease \in [Events -> {"null", "fresh", "expired"}]
  /\ due \in [Events -> BOOLEAN]
  /\ late \subseteq Events
  /\ pc \in [Workers -> {"pick", "commit", "publish", "mark", "failed", "sleep", "down"}]
  /\ batch \in [Workers -> SUBSET Events]
  /\ current \in [Workers -> Events \cup {None}]
  /\ channel \in [Workers -> {"none", "open", "closed"}]
  /\ buffer \in [Workers -> SUBSET Events]
  /\ unsent \subseteq Events
  /\ arrived \subseteq Events
  /\ faults \in 0..MaxFaults
  /\ \A w \in Workers :
       /\ batch[w] = {} <=> pc[w] \in {"pick", "sleep", "down"}
       /\ IF pc[w] \in {"mark", "failed"} THEN current[w] \in batch[w] ELSE current[w] = None
       /\ buffer[w] # {} => channel[w] = "open"

\* An event is marked published without being in the queue or on its way there
\* only if a connection has broken with its message unsent on it: nothing else,
\* no crash, failed statement, expired lease or second worker, loses an event.
OnlyUnsentLost ==
  \A e \in Events : status[e] = "published" =>
    e \in arrived \cup unsent \/ \E w \in Workers : e \in buffer[w]

\* NFR-03, "Outbox event khong duoc mat sau khi DB commit": an event is only
\* marked published when its message is in the queue or on its way there.
EventNeverLost ==
  \A e \in Events : status[e] = "published" =>
    e \in arrived \/ \E w \in Workers : e \in buffer[w]

\* Unless its lease has run out under a worker, an event of a batch is nobody
\* else's and still unpublished (but for an UPDATE whose answer was lost): SKIP
\* LOCKED and locked_at keep workers from publishing an event twice.
BatchIsOwn ==
  \A w \in Workers : \A e \in batch[w] \ late :
    /\ \A v \in Workers \ {w} : e \notin batch[v]
    /\ status[e] = "waiting" \/ (pc[w] = "failed" /\ current[w] = e)

\* A row that nobody will pick again, and whose message is nowhere.
Lost(e) == /\ status[e] = "published" /\ e \notin arrived
           /\ \A w \in Workers : e \notin buffer[w]

\* The relay implements at-least-once delivery of committed events, but for the
\* events it loses by OnlyUnsentLost.  The part that says "eventually" is kept
\* unless a worker lives on for good with a channel the broker has closed: it
\* takes events and can never publish them.
Delivered == INSTANCE Delivery
               WITH committed <- {e \in Events : status[e] # "absent"}
ImplementsDelivery ==
  /\ Delivered!Safety
  /\ <>[](\A w \in Workers : channel[w] # "closed") =>
       \A e \in Events : Delivered!Promise(e) \/ <>[]Lost(e)
=============================================================================
