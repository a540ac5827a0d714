------------------------- MODULE OutboxRelayProofs --------------------------
(***************************************************************************)
(* The relay keeps its types, a batch is its worker's own while its leases *)
(* hold, no event is lost but with a connection that breaks, and the relay *)
(* does what Delivery allows: for any number of events and workers, any    *)
(* batch limit and any bound on failures.                                  *)
(***************************************************************************)
EXTENDS OutboxRelay, TLAPS

\* The types hold at the start.
LEMMA InitTypes == Init => TypeOK
BY RelayAssumption, SMT DEF Init, TypeOK

\* A failure is counted within the bound.
LEMMA FaultTypes == ASSUME TypeOK, Fault PROVE faults' \in 0..MaxFaults
BY RelayAssumption, SMT DEF TypeOK, Fault

\* No step breaks the types.
LEMMA TypeStep == ASSUME TypeOK, [Next]_vars PROVE TypeOK'
<1> USE RelayAssumption DEF rows
<1>1. ASSUME NEW e \in Events, Create(e) PROVE TypeOK'
  BY <1>1, SMT DEF TypeOK, Create
<1>2. ASSUME NEW e \in Events, LeaseExpires(e) PROVE TypeOK'
  <2>1. (Fault /\ late' = late \cup {e}) \/ (faults' = faults /\ late' = late)
    BY <1>2, Zenon DEF LeaseExpires, NoFault
  <2>2. late' \subseteq Events /\ faults' \in 0..MaxFaults
    <3>1. CASE Fault /\ late' = late \cup {e}
      BY <3>1, FaultTypes, Zenon DEF TypeOK
    <3>2. CASE faults' = faults /\ late' = late BY <3>2, Zenon DEF TypeOK
    <3> QED BY <2>1, <3>1, <3>2, Zenon
  <2>3. /\ lease' = [lease EXCEPT ![e] = "expired"]
        /\ UNCHANGED <<status, due, pc, batch, current, channel, buffer, unsent, arrived>>
    BY <1>2, Zenon DEF LeaseExpires
  <2> QED BY <2>2, <2>3, SMT DEF TypeOK
<1>3. ASSUME NEW e \in Events, RetryDue(e) PROVE TypeOK'
  BY <1>3, SMT DEF TypeOK, RetryDue
<1>4. ASSUME NEW w \in Workers, Pick(w) PROVE TypeOK'
  <2> DEFINE picked == Oldest(BatchLimit, {e \in Events : Eligible(e)})
  <2>1. picked \in SUBSET Events BY SMT DEF Oldest
  <2>2. /\ batch' = [batch EXCEPT ![w] = picked]
        /\ pc' = [pc EXCEPT ![w] = IF picked = {} THEN "sleep" ELSE "commit"]
        /\ pc[w] = "pick"
        /\ UNCHANGED <<rows, late, current, channel, buffer, unsent, arrived, faults>>
    BY <1>4, SMT DEF Pick, GoTo
  <2> HIDE DEF picked
  <2>3. CASE picked = {} BY <2>2, <2>3, SMT DEF TypeOK
  <2>4. CASE picked # {}
    <3>1. pc' = [pc EXCEPT ![w] = "commit"] BY <2>2, <2>4, Zenon
    <3>2. batch' \in [Workers -> SUBSET Events] BY <2>1, <2>2, SMT DEF TypeOK
    <3> QED BY <2>2, <2>4, <3>1, <3>2, SMT DEF TypeOK
  <2> QED BY <2>3, <2>4
<1>5. ASSUME NEW w \in Workers, CommitPick(w) PROVE TypeOK'
  BY <1>5, SMT DEF TypeOK, CommitPick, GoTo, Leased
<1>6. ASSUME NEW w \in Workers, Wake(w) PROVE TypeOK'
  BY <1>6, SMT DEF TypeOK, Wake, GoTo
<1>7. ASSUME NEW w \in Workers, Publish(w) PROVE TypeOK'
  BY <1>7, SMT DEF TypeOK, Publish, GoTo
<1>8. ASSUME NEW w \in Workers, PublishOnClosed(w) PROVE TypeOK'
  BY <1>8, SMT DEF TypeOK, PublishOnClosed, GoTo
<1>9. ASSUME NEW w \in Workers, Mark(w) PROVE TypeOK'
  BY <1>9, SMT DEF TypeOK, Mark, MarkPublished, Proceed, NoFault, GoTo
<1>10. ASSUME NEW w \in Workers, RecordFailure(w) PROVE TypeOK'
  BY <1>10, SMT DEF TypeOK, RecordFailure, ScheduleRetry, Proceed, NoFault, GoTo
<1>11. ASSUME NEW w \in Workers, Restart(w) PROVE TypeOK'
  BY <1>11, SMT DEF TypeOK, Restart, GoTo
<1>12. ASSUME NEW w \in Workers, PickFails(w) PROVE TypeOK'
  BY <1>12, FaultTypes, SMT DEF TypeOK, PickFails, Leased, LoopError, GoTo
<1>13. ASSUME NEW w \in Workers, PublishFails(w) PROVE TypeOK'
  BY <1>13, FaultTypes, SMT DEF TypeOK, PublishFails, GoTo
<1>14. ASSUME NEW w \in Workers, MarkFails(w) PROVE TypeOK'
  BY <1>14, FaultTypes, SMT DEF TypeOK, MarkFails, MarkPublished, GoTo
<1>15. ASSUME NEW w \in Workers, RecordFailureFails(w) PROVE TypeOK'
  <2>1. CASE ScheduleRetry(current[w])
    BY <1>15, <2>1, FaultTypes, SMT DEF TypeOK, RecordFailureFails, ScheduleRetry, LoopError, GoTo
  <2>2. CASE UNCHANGED rows
    BY <1>15, <2>2, FaultTypes, SMT DEF TypeOK, RecordFailureFails, LoopError, GoTo
  <2> QED BY <1>15, <2>1, <2>2, Zenon DEF RecordFailureFails
<1>16. ASSUME NEW w \in Workers, BrokerCloses(w) PROVE TypeOK'
  <2>1. faults' \in 0..MaxFaults BY <1>16, FaultTypes, Zenon DEF BrokerCloses
  <2>2. unsent' \subseteq Events
    <3>1. unsent' = unsent \cup buffer[w] BY <1>16, Zenon DEF BrokerCloses, Disconnect
    <3>2. unsent \subseteq Events /\ buffer[w] \subseteq Events BY SMT DEF TypeOK
    <3> QED BY <3>1, <3>2
  <2> QED BY <1>16, <2>1, <2>2, SMT DEF TypeOK, BrokerCloses, Disconnect
<1>17. ASSUME NEW w \in Workers, Crash(w) PROVE TypeOK'
  <2>1. faults' \in 0..MaxFaults BY <1>17, FaultTypes, Zenon DEF Crash
  <2>2. unsent' \subseteq Events
    <3>1. unsent' = unsent \cup buffer[w] BY <1>17, Zenon DEF Crash, Disconnect
    <3>2. unsent \subseteq Events /\ buffer[w] \subseteq Events BY SMT DEF TypeOK
    <3> QED BY <3>1, <3>2
  <2> QED BY <1>17, <2>1, <2>2, SMT DEF TypeOK, Crash, Disconnect, GoTo
<1>18. ASSUME NEW w \in Workers, NEW e \in Events, Flush(w, e) PROVE TypeOK'
  BY <1>18, SMT DEF TypeOK, Flush
<1>19. CASE UNCHANGED vars BY <1>19, SMT DEF TypeOK, vars
<1> QED
  BY <1>1, <1>2, <1>3, <1>4, <1>5, <1>6, <1>7, <1>8, <1>9, <1>10, <1>11, <1>12, <1>13,
     <1>14, <1>15, <1>16, <1>17, <1>18, <1>19 DEF Next, Operate, Work, Misfortune

-----------------------------------------------------------------------------
\* Every variable keeps its type and every worker's state is of one piece:
\* a batch while it works on one, a current event while publishOne has it.
THEOREM TypeCorrect == Spec => []TypeOK
<1>1. TypeOK /\ [Next]_vars => TypeOK' BY TypeStep
<1> QED BY InitTypes, <1>1, PTL DEF Spec

-----------------------------------------------------------------------------
(* Batches *)

\* While an event is in a batch its row is locked or freshly leased, but for
\* the event whose UPDATE has taken place without an answer.
LeaseHeld ==
  \A w \in Workers : \A e \in batch[w] \ late :
    \/ pc[w] = "commit"
    \/ lease[e] = "fresh"
    \/ pc[w] = "failed" /\ current[w] = e /\ status[e] = "published"

Own == LeaseHeld /\ BatchIsOwn

\* SKIP LOCKED and the leases keep batches apart in every step.
LEMMA OwnStep == ASSUME TypeOK, TypeOK', Own, [Next]_vars PROVE Own'
<1> USE RelayAssumption DEF rows, Own
<1>1. ASSUME NEW e \in Events, Create(e) PROVE Own'
  BY <1>1, SMT DEF TypeOK, Create, LeaseHeld, BatchIsOwn
<1>2. ASSUME NEW e \in Events, LeaseExpires(e) PROVE Own'
  BY <1>2, SMT DEF TypeOK, LeaseExpires, NoFault, LeaseHeld, BatchIsOwn
<1>3. ASSUME NEW e \in Events, RetryDue(e) PROVE Own'
  BY <1>3, SMT DEF TypeOK, RetryDue, LeaseHeld, BatchIsOwn
<1>4. ASSUME NEW w \in Workers, Pick(w) PROVE Own'
  <2> DEFINE picked == Oldest(BatchLimit, {e \in Events : Eligible(e)})
  <2>1. \A e \in picked : e \in Events /\ Eligible(e) BY SMT DEF Oldest
  <2>2. /\ batch' = [batch EXCEPT ![w] = picked]
        /\ pc' = [pc EXCEPT ![w] = IF picked = {} THEN "sleep" ELSE "commit"]
        /\ pc[w] = "pick"
        /\ UNCHANGED <<status, lease, late, current>>
    BY <1>4, SMT DEF Pick, GoTo
  <2> HIDE DEF picked
  <2>3. /\ batch'[w] = picked /\ pc'[w] = IF picked = {} THEN "sleep" ELSE "commit"
        /\ \A v \in Workers \ {w} : batch'[v] = batch[v] /\ pc'[v] = pc[v]
    BY <2>2, SMT DEF TypeOK
  <2>4. LeaseHeld' BY <2>2, <2>3, SMT DEF LeaseHeld
  <2>5. \A v \in Workers \ {w} : \A e \in batch[v] \ late : e \notin picked
    BY <2>1, SMT DEF LeaseHeld, Eligible, RowLocked
  <2>6. \A e \in picked \ late : \A v \in Workers \ {w} : e \notin batch[v]
    BY <2>5
  <2>7. \A e \in picked : status[e] = "waiting" BY <2>1, SMT DEF Eligible
  <2>8. BatchIsOwn' BY <2>2, <2>3, <2>5, <2>6, <2>7, SMT DEF BatchIsOwn
  <2> QED BY <2>4, <2>8
<1>5. ASSUME NEW w \in Workers, CommitPick(w) PROVE Own'
  BY <1>5, SMT DEF TypeOK, CommitPick, GoTo, Leased, LeaseHeld, BatchIsOwn
<1>6. ASSUME NEW w \in Workers, Wake(w) PROVE Own'
  BY <1>6, SMT DEF TypeOK, Wake, GoTo, LeaseHeld, BatchIsOwn
<1>7. ASSUME NEW w \in Workers, Publish(w) PROVE Own'
  BY <1>7, SMT DEF TypeOK, Publish, GoTo, LeaseHeld, BatchIsOwn
<1>8. ASSUME NEW w \in Workers, PublishOnClosed(w) PROVE Own'
  BY <1>8, SMT DEF TypeOK, PublishOnClosed, GoTo, LeaseHeld, BatchIsOwn
<1>9. ASSUME NEW w \in Workers, Mark(w) PROVE Own'
  BY <1>9, SMT DEF TypeOK, Mark, MarkPublished, Proceed, GoTo, LeaseHeld, BatchIsOwn
<1>10. ASSUME NEW w \in Workers, RecordFailure(w) PROVE Own'
  BY <1>10, SMT DEF TypeOK, RecordFailure, ScheduleRetry, Proceed, GoTo, LeaseHeld, BatchIsOwn
<1>11. ASSUME NEW w \in Workers, Restart(w) PROVE Own'
  BY <1>11, SMT DEF TypeOK, Restart, GoTo, LeaseHeld, BatchIsOwn
<1>12. ASSUME NEW w \in Workers, PickFails(w) PROVE Own'
  BY <1>12, SMT DEF TypeOK, PickFails, Leased, LoopError, GoTo, LeaseHeld, BatchIsOwn
<1>13. ASSUME NEW w \in Workers, PublishFails(w) PROVE Own'
  BY <1>13, SMT DEF TypeOK, PublishFails, GoTo, LeaseHeld, BatchIsOwn
<1>14. ASSUME NEW w \in Workers, MarkFails(w) PROVE Own'
  BY <1>14, SMT DEF TypeOK, MarkFails, MarkPublished, GoTo, LeaseHeld, BatchIsOwn
<1>15. ASSUME NEW w \in Workers, RecordFailureFails(w) PROVE Own'
  BY <1>15, SMT DEF TypeOK, RecordFailureFails, ScheduleRetry, LoopError, GoTo,
                    LeaseHeld, BatchIsOwn
<1>16. ASSUME NEW w \in Workers, BrokerCloses(w) PROVE Own'
  BY <1>16, SMT DEF TypeOK, BrokerCloses, Disconnect, LeaseHeld, BatchIsOwn
<1>17. ASSUME NEW w \in Workers, Crash(w) PROVE Own'
  BY <1>17, SMT DEF TypeOK, Crash, Disconnect, GoTo, LeaseHeld, BatchIsOwn
<1>18. ASSUME NEW w \in Workers, NEW e \in Events, Flush(w, e) PROVE Own'
  BY <1>18, SMT DEF TypeOK, Flush, LeaseHeld, BatchIsOwn
<1>19. CASE UNCHANGED vars BY <1>19, SMT DEF vars, LeaseHeld, BatchIsOwn
<1> QED
  BY <1>1, <1>2, <1>3, <1>4, <1>5, <1>6, <1>7, <1>8, <1>9, <1>10, <1>11, <1>12, <1>13,
     <1>14, <1>15, <1>16, <1>17, <1>18, <1>19 DEF Next, Operate, Work, Misfortune

\* Batches are apart, always.
LEMMA AlwaysOwn == Spec => []Own
<1>1. Init => Own BY SMT DEF Init, Own, LeaseHeld, BatchIsOwn
<1>2. TypeOK /\ TypeOK' /\ Own /\ [Next]_vars => Own' BY OwnStep
<1> QED BY TypeCorrect, <1>1, <1>2, PTL DEF Spec

\* SKIP LOCKED and locked_at: unless its lease has run out under a worker, an
\* event of a batch is in no other batch and not published before.
THEOREM BatchAlwaysOwn == Spec => []BatchIsOwn
<1>1. Own => BatchIsOwn BY DEF Own
<1> QED BY AlwaysOwn, <1>1, PTL

-----------------------------------------------------------------------------
(* Delivery *)

\* Workers, connections and the queue only have events of committed rows.
Created ==
  /\ \A w \in Workers : \A e \in batch[w] \cup buffer[w] : status[e] # "absent"
  /\ \A e \in arrived : status[e] # "absent"

\* Nobody picks, publishes or delivers what is not committed.
LEMMA CreatedStep == ASSUME TypeOK, TypeOK', Created, [Next]_vars PROVE Created'
<1> USE RelayAssumption DEF rows
<1>1. ASSUME NEW e \in Events, Create(e) PROVE Created'
  BY <1>1, SMT DEF TypeOK, Create, Created
<1>2. ASSUME NEW e \in Events, LeaseExpires(e) PROVE Created'
  BY <1>2, SMT DEF TypeOK, LeaseExpires, Created
<1>3. ASSUME NEW e \in Events, RetryDue(e) PROVE Created'
  BY <1>3, SMT DEF TypeOK, RetryDue, Created
<1>4. ASSUME NEW w \in Workers, Pick(w) PROVE Created'
  BY <1>4, SMT DEF TypeOK, Pick, GoTo, Oldest, Eligible, Created
<1>5. ASSUME NEW w \in Workers, CommitPick(w) PROVE Created'
  BY <1>5, SMT DEF TypeOK, CommitPick, GoTo, Leased, Created
<1>6. ASSUME NEW w \in Workers, Wake(w) PROVE Created'
  BY <1>6, SMT DEF TypeOK, Wake, GoTo, Created
<1>7. ASSUME NEW w \in Workers, Publish(w) PROVE Created'
  BY <1>7, SMT DEF TypeOK, Publish, GoTo, Created
<1>8. ASSUME NEW w \in Workers, PublishOnClosed(w) PROVE Created'
  BY <1>8, SMT DEF TypeOK, PublishOnClosed, GoTo, Created
<1>9. ASSUME NEW w \in Workers, Mark(w) PROVE Created'
  BY <1>9, SMT DEF TypeOK, Mark, MarkPublished, Proceed, GoTo, Created
<1>10. ASSUME NEW w \in Workers, RecordFailure(w) PROVE Created'
  BY <1>10, SMT DEF TypeOK, RecordFailure, ScheduleRetry, Proceed, GoTo, Created
<1>11. ASSUME NEW w \in Workers, Restart(w) PROVE Created'
  BY <1>11, SMT DEF TypeOK, Restart, GoTo, Created
<1>12. ASSUME NEW w \in Workers, PickFails(w) PROVE Created'
  BY <1>12, SMT DEF TypeOK, PickFails, Leased, LoopError, GoTo, Created
<1>13. ASSUME NEW w \in Workers, PublishFails(w) PROVE Created'
  BY <1>13, SMT DEF TypeOK, PublishFails, GoTo, Created
<1>14. ASSUME NEW w \in Workers, MarkFails(w) PROVE Created'
  BY <1>14, SMT DEF TypeOK, MarkFails, MarkPublished, GoTo, Created
<1>15. ASSUME NEW w \in Workers, RecordFailureFails(w) PROVE Created'
  BY <1>15, SMT DEF TypeOK, RecordFailureFails, ScheduleRetry, LoopError, GoTo, Created
<1>16. ASSUME NEW w \in Workers, BrokerCloses(w) PROVE Created'
  BY <1>16, SMT DEF TypeOK, BrokerCloses, Disconnect, Created
<1>17. ASSUME NEW w \in Workers, Crash(w) PROVE Created'
  BY <1>17, SMT DEF TypeOK, Crash, Disconnect, GoTo, Created
<1>18. ASSUME NEW w \in Workers, NEW e \in Events, Flush(w, e) PROVE Created'
  BY <1>18, SMT DEF TypeOK, Flush, Created
<1>19. CASE UNCHANGED vars BY <1>19, SMT DEF vars, Created
<1> QED
  BY <1>1, <1>2, <1>3, <1>4, <1>5, <1>6, <1>7, <1>8, <1>9, <1>10, <1>11, <1>12, <1>13,
     <1>14, <1>15, <1>16, <1>17, <1>18, <1>19 DEF Next, Operate, Work, Misfortune

\* Only committed events are at work, always.
LEMMA AlwaysCreated == Spec => []Created
<1>1. Init => Created BY SMT DEF Init, Created
<1>2. TypeOK /\ TypeOK' /\ Created /\ [Next]_vars => Created' BY CreatedStep
<1> QED BY TypeCorrect, <1>1, <1>2, PTL DEF Spec

\* The message of an event about to be marked is in the queue, on its way, or
\* has gone down with the connection since channel.publish returned.
InFlight ==
  \A w \in Workers : pc[w] = "mark" => current[w] \in arrived \cup unsent \cup buffer[w]

Kept == InFlight /\ OnlyUnsentLost

\* Only what the channel has taken is marked published, and only a connection
\* that breaks drops it.
LEMMA KeptStep ==
  ASSUME TypeOK, TypeOK', Kept, [Next]_vars
  PROVE  Kept'
<1> USE RelayAssumption DEF rows, Kept
<1>1. ASSUME NEW e \in Events, Create(e) PROVE Kept'
  BY <1>1, SMT DEF TypeOK, Create, InFlight, OnlyUnsentLost
<1>2. ASSUME NEW e \in Events, LeaseExpires(e) PROVE Kept'
  BY <1>2, SMT DEF TypeOK, LeaseExpires, InFlight, OnlyUnsentLost
<1>3. ASSUME NEW e \in Events, RetryDue(e) PROVE Kept'
  BY <1>3, SMT DEF TypeOK, RetryDue, InFlight, OnlyUnsentLost
<1>4. ASSUME NEW w \in Workers, Pick(w) PROVE Kept'
  BY <1>4, SMT DEF TypeOK, Pick, GoTo, Oldest, Eligible, InFlight, OnlyUnsentLost
<1>5. ASSUME NEW w \in Workers, CommitPick(w) PROVE Kept'
  BY <1>5, SMT DEF TypeOK, CommitPick, GoTo, Leased, InFlight, OnlyUnsentLost
<1>6. ASSUME NEW w \in Workers, Wake(w) PROVE Kept'
  BY <1>6, SMT DEF TypeOK, Wake, GoTo, InFlight, OnlyUnsentLost
<1>7. ASSUME NEW w \in Workers, Publish(w) PROVE Kept'
  BY <1>7, SMT DEF TypeOK, Publish, GoTo, InFlight, OnlyUnsentLost
<1>8. ASSUME NEW w \in Workers, PublishOnClosed(w) PROVE Kept'
  BY <1>8, SMT DEF TypeOK, PublishOnClosed, GoTo, InFlight, OnlyUnsentLost
<1>9. ASSUME NEW w \in Workers, Mark(w) PROVE Kept'
  BY <1>9, SMT DEF TypeOK, Mark, MarkPublished, Proceed, GoTo, InFlight, OnlyUnsentLost
<1>10. ASSUME NEW w \in Workers, RecordFailure(w) PROVE Kept'
  BY <1>10, SMT DEF TypeOK, RecordFailure, ScheduleRetry, Proceed, GoTo, InFlight,
                    OnlyUnsentLost
<1>11. ASSUME NEW w \in Workers, Restart(w) PROVE Kept'
  BY <1>11, SMT DEF TypeOK, Restart, GoTo, InFlight, OnlyUnsentLost
<1>12. ASSUME NEW w \in Workers, PickFails(w) PROVE Kept'
  BY <1>12, SMT DEF TypeOK, PickFails, Leased, LoopError, GoTo, InFlight, OnlyUnsentLost
<1>13. ASSUME NEW w \in Workers, PublishFails(w) PROVE Kept'
  BY <1>13, SMT DEF TypeOK, PublishFails, GoTo, InFlight, OnlyUnsentLost
<1>14. ASSUME NEW w \in Workers, MarkFails(w) PROVE Kept'
  BY <1>14, SMT DEF TypeOK, MarkFails, MarkPublished, GoTo, InFlight, OnlyUnsentLost
<1>15. ASSUME NEW w \in Workers, RecordFailureFails(w) PROVE Kept'
  BY <1>15, SMT DEF TypeOK, RecordFailureFails, ScheduleRetry, LoopError, GoTo,
                    InFlight, OnlyUnsentLost
<1>16. ASSUME NEW w \in Workers, BrokerCloses(w) PROVE Kept'
  BY <1>16, SMT DEF TypeOK, BrokerCloses, Disconnect, InFlight, OnlyUnsentLost
<1>17. ASSUME NEW w \in Workers, Crash(w) PROVE Kept'
  BY <1>17, SMT DEF TypeOK, Crash, Disconnect, GoTo, InFlight, OnlyUnsentLost
<1>18. ASSUME NEW w \in Workers, NEW e \in Events, Flush(w, e) PROVE Kept'
  BY <1>18, SMT DEF TypeOK, Flush, InFlight, OnlyUnsentLost
<1>19. CASE UNCHANGED vars
  <2>1. UNCHANGED <<status, pc, current, buffer, unsent, arrived>> BY <1>19, SMT DEF vars
  <2> QED BY <2>1, Zenon DEF InFlight, OnlyUnsentLost
<1> QED
  BY <1>1, <1>2, <1>3, <1>4, <1>5, <1>6, <1>7, <1>8, <1>9, <1>10, <1>11, <1>12, <1>13,
     <1>14, <1>15, <1>16, <1>17, <1>18, <1>19 DEF Next, Operate, Work, Misfortune

\* Crashes, failures, expired leases and second workers lose no event: what is
\* marked published has arrived, or is on its way, or went down with a
\* connection that broke.
THEOREM NoEventLost == Spec => []OnlyUnsentLost
<1>1. Init => Kept BY SMT DEF Init, Kept, InFlight, OnlyUnsentLost
<1>2. TypeOK /\ TypeOK' /\ Kept /\ [Next]_vars => Kept' BY KeptStep
<1>3. Kept => OnlyUnsentLost BY DEF Kept
<1> QED BY TypeCorrect, <1>1, <1>2, <1>3, PTL DEF Spec

\* The workers and time neither commit an event nor take one back, and let no
\* message arrive.
LEMMA OperateKeepsRows ==
  ASSUME TypeOK, Created, Operate
  PROVE  /\ arrived' = arrived
         /\ \A d \in Events : status'[d] # "absent" <=> status[d] # "absent"
<1>1. ASSUME NEW w \in Workers, Mark(w) \/ MarkFails(w)
      PROVE  /\ arrived' = arrived
             /\ \A d \in Events : status'[d] # "absent" <=> status[d] # "absent"
  <2>1. status[current[w]] # "absent" /\ current[w] \in Events
    BY <1>1, SMT DEF TypeOK, Mark, MarkFails, Created
  <2>2. /\ arrived' = arrived
        /\ status' = status \/ status' = [status EXCEPT ![current[w]] = "published"]
    BY <1>1, SMT DEF Mark, MarkFails, Proceed, MarkPublished, rows
  <2> QED BY <2>1, <2>2, SMT DEF TypeOK
<1>2. ASSUME NEW e \in Events, LeaseExpires(e) \/ RetryDue(e)
      PROVE  UNCHANGED <<status, arrived>>
  BY <1>2, SMT DEF LeaseExpires, RetryDue
<1>3. ASSUME NEW w \in Workers,
             \/ Pick(w) \/ CommitPick(w) \/ Wake(w) \/ Publish(w) \/ PublishOnClosed(w)
             \/ RecordFailure(w) \/ Restart(w)
      PROVE  UNCHANGED <<status, arrived>>
  BY <1>3, SMT DEF Pick, CommitPick, Wake, Publish, PublishOnClosed, RecordFailure,
                   ScheduleRetry, Proceed, Restart, rows
<1>4. ASSUME NEW w \in Workers,
             \/ PickFails(w) \/ PublishFails(w) \/ RecordFailureFails(w)
             \/ BrokerCloses(w) \/ Crash(w)
      PROVE  UNCHANGED <<status, arrived>>
  BY <1>4, SMT DEF PickFails, PublishFails, RecordFailureFails, BrokerCloses, Crash,
                   ScheduleRetry, LoopError, rows
<1> QED BY <1>1, <1>2, <1>3, <1>4 DEF Operate, Work, Misfortune

\* Every step is a commit, an arrival or a stutter of Delivery.
LEMMA DeliveredStep ==
  ASSUME TypeOK, Created, [Next]_vars
  PROVE  [Delivered!Next]_<<{e \in Events : status[e] # "absent"}, arrived>>
<1> DEFINE rowsOf == {e \in Events : status[e] # "absent"}
<1>1. ASSUME NEW e \in Events, Create(e) PROVE Delivered!Commit(e)
  <2>1. e \notin rowsOf /\ arrived' = arrived BY <1>1, SMT DEF Create
  <2>2. \A d \in Events : status'[d] # "absent" <=> status[d] # "absent" \/ d = e
    BY <1>1, SMT DEF TypeOK, Create
  <2>3. rowsOf' = rowsOf \cup {e} BY <2>2, SMT
  <2> QED BY <2>1, <2>3 DEF Delivered!Commit
<1>2. ASSUME NEW w \in Workers, NEW e \in Events, Flush(w, e) PROVE Delivered!Arrive(e)
  <2>1. e \in rowsOf BY <1>2, SMT DEF Flush, Created
  <2>2. arrived' = arrived \cup {e} /\ status' = status BY <1>2, SMT DEF Flush, rows
  <2> QED BY <2>1, <2>2 DEF Delivered!Arrive
<1>3. CASE Operate
  <2>1. rowsOf' = rowsOf BY <1>3, OperateKeepsRows, SMT
  <2> QED BY <1>3, <2>1, OperateKeepsRows
<1>4. CASE UNCHANGED vars BY <1>4 DEF vars, rows
<1> QED BY <1>1, <1>2, <1>3, <1>4 DEF Next, Delivered!Next

\* Safety half of the refinement: a step of the relay commits one event, lets
\* the message of a committed event arrive, or changes nothing of Delivery.
THEOREM RefinesDelivery == Spec => Delivered!Safety
<1>1. Init => Delivered!Init BY SMT DEF Init, Delivered!Init
<1>2. TypeOK /\ Created /\ [Next]_vars
        => [Delivered!Next]_<<{e \in Events : status[e] # "absent"}, arrived>>
  BY DeliveredStep
<1> QED BY TypeCorrect, AlwaysCreated, <1>1, <1>2, PTL DEF Spec, Delivered!Safety
=============================================================================
