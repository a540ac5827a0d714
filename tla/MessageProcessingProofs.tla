----------------------- MODULE MessageProcessingProofs ----------------------
(***************************************************************************)
(* Messages are bounded in their retries, never lost and take effect at    *)
(* most once: for any messages, copies and consumers, any prefetch, retry  *)
(* limit and bound on failures.                                            *)
(***************************************************************************)
EXTENDS MessageProcessing, FiniteSetTheorems, TLAPS

-----------------------------------------------------------------------------
(* Types *)

\* TypeOK but for the prefetch and the tables.
Types ==
  /\ at \in [Copies -> Places]
  /\ id \in [Copies -> Ids \cup {None}]
  /\ retries \in [Copies -> 0..MaxRetries + 1]
  /\ by \in [Copies -> Consumers \cup {None}]
  /\ effects \in [Ids -> Nat]
  /\ deaf \subseteq Consumers
  /\ orphans \subseteq [by: deaf, id: Ids, stage: {"received", "inserted", "done"}]
  /\ faults \in 0..MaxFaults
  /\ \A k \in Copies : /\ at[k] \in Handling <=> by[k] # None
                       /\ at[k] = "free" <=> id[k] = None
                       /\ by[k] \notin deaf

Sound == Types /\ RetriesBounded

\* Types and the bound on retries only need each other.
LEMMA SoundStep == ASSUME Sound, [Next]_vars PROVE Sound'
<1> USE ProcessingAssumption DEF Tables, Live, Fault, Sound
<1>1. ASSUME NEW k \in Copies, NEW i \in Ids, Publish(k, i) PROVE Sound'
  BY <1>1, SMT DEF Publish, Moves, Types, RetriesBounded, Places, Handling
<1>2. ASSUME NEW k \in Copies, RetryExpires(k) PROVE Sound'
  BY <1>2, SMT DEF RetryExpires, Moves, Types, RetriesBounded, Places, Handling
<1>3. ASSUME NEW c \in Consumers, NEW k \in Copies, Deliver(c, k) PROVE Sound'
  BY <1>3, SMT DEF Deliver, Moves, Types, RetriesBounded, Places, Handling
<1>4. ASSUME NEW k \in Copies, ParseFails(k) PROVE Sound'
  BY <1>4, SMT DEF ParseFails, Moves, Types, RetriesBounded, Places, Handling
<1>5. ASSUME NEW k \in Copies, InsertProcessed(k) PROVE Sound'
  BY <1>5, SMT DEF InsertProcessed, Moves, Types, RetriesBounded, Places, Handling
<1>6. ASSUME NEW k \in Copies, Commit(k) PROVE Sound'
  BY <1>6, SMT DEF Commit, Moves, Processed, Types, RetriesBounded, Places, Handling
<1>7. ASSUME NEW k \in Copies, TransactionFails(k) PROVE Sound'
  BY <1>7, SMT DEF TransactionFails, Moves, Processed, Types, RetriesBounded, Places,
                    Handling
<1>8. ASSUME NEW k \in Copies, Ack(k) PROVE Sound'
  BY <1>8, SMT DEF Ack, Moves, Types, RetriesBounded, Places, Handling
<1>9. ASSUME NEW k \in Copies, HandleFailed(k) PROVE Sound'
  BY <1>9, SMT DEF HandleFailed, Moves, NextQueue, Types, RetriesBounded, Places, Handling
<1>10. ASSUME NEW c \in Consumers, Crash(c) PROVE Sound'
  BY <1>10, SMT DEF Crash, Renewed, Deafened, Redelivered, Released, Types,
                    RetriesBounded, Places, Handling
<1>11. ASSUME NEW c \in Consumers, NEW k \in Copies, NEW n \in Copies, CrashBeforeAck(c, k, n)
       PROVE  Sound'
  BY <1>11, SMT DEF CrashBeforeAck, NextQueue, Renewed, Deafened, Redelivered, Released,
                    Types, RetriesBounded, Places, Handling
<1>12. ASSUME NEW o \in orphans, OrphanInserts(o) PROVE Sound'
  BY <1>12, SMT DEF OrphanInserts, Goes, Types, RetriesBounded, Places, Handling
<1>13. ASSUME NEW o \in orphans, OrphanCommits(o) PROVE Sound'
  BY <1>13, SMT DEF OrphanCommits, Goes, Processed, Types, RetriesBounded, Places,
                    Handling
<1>13a. ASSUME NEW o \in orphans, OrphanEnds(o) PROVE Sound'
  BY <1>13a, SMT DEF OrphanEnds, Renewed, Types, RetriesBounded, Places,
                    Handling
<1>14. ASSUME NEW c \in Consumers, Restart(c) PROVE Sound'
  BY <1>14, SMT DEF Restart, Renewed, Types, RetriesBounded, Places, Handling
<1>15. ASSUME NEW k \in Copies, PeekGet(k) PROVE Sound'
  BY <1>15, SMT DEF PeekGet, Moves, Types, RetriesBounded, Places, Handling
<1>16. ASSUME NEW k \in Copies, PeekEnds(k) PROVE Sound'
  BY <1>16, SMT DEF PeekEnds, Moves, Types, RetriesBounded, Places, Handling
<1>17. ASSUME NEW k \in Copies, ReplayGet(k) PROVE Sound'
  BY <1>17, SMT DEF ReplayGet, Moves, Types, RetriesBounded, Places, Handling
<1>18. ASSUME NEW k \in Copies, Replay(k) PROVE Sound'
  BY <1>18, SMT DEF Replay, Moves, Types, RetriesBounded, Places, Handling
<1>19. ASSUME NEW k \in Copies, ReplayBreaks(k) PROVE Sound'
  BY <1>19, SMT DEF ReplayBreaks, Moves, Types, RetriesBounded, Places, Handling
<1>20. CASE UNCHANGED vars BY <1>20, SMT DEF vars, Types, RetriesBounded, Places, Handling
<1> QED
  BY <1>1, <1>2, <1>3, <1>4, <1>5, <1>6, <1>7, <1>8, <1>9, <1>10, <1>11, <1>12, <1>13,
     <1>13a, <1>14, <1>15, <1>16, <1>17, <1>18, <1>19, <1>20 DEF Next, Consume,
         OrphanStep, Handle, Admin

\* NFR-03, for every retry limit: a message is handled with at most MaxRetries
\* retries behind it, and is in the dead letter queue after one failure more.
THEOREM RetriesAlwaysBounded == Spec => []RetriesBounded
<1>1. Init => Sound
  BY ProcessingAssumption, SMT DEF Init, Sound, Types, RetriesBounded, Places, Handling
<1>2. Sound /\ [Next]_vars => Sound' BY SoundStep
<1>3. Sound => RetriesBounded BY DEF Sound
<1> QED BY <1>1, <1>2, <1>3, PTL DEF Spec

-----------------------------------------------------------------------------
(* Prefetch *)

InHands(c) == {k \in Copies : by[k] = c}

PrefetchHeld == \A c \in Consumers : Cardinality(InHands(c)) <= Prefetch

\* A copy gets a consumer by being delivered only.
LEMMA HandsStep ==
  ASSUME Sound, [Next]_vars,
         ~\E c \in Consumers, k \in Copies : Deliver(c, k)
  PROVE  \A j \in Copies : by'[j] \in {by[j], None}
<1> DEFINE Kept == \A j \in Copies : by'[j] \in {by[j], None}
<1> USE ProcessingAssumption DEF Tables, Live, Fault, Sound
<1>1. ASSUME NEW k \in Copies, NEW i \in Ids, Publish(k, i) PROVE Kept
  BY <1>1, SMT DEF Publish, Moves, Types
<1>2. ASSUME NEW k \in Copies, RetryExpires(k) PROVE Kept
  BY <1>2, SMT DEF RetryExpires, Moves, Types
<1>3. ASSUME NEW c \in Consumers, NEW k \in Copies, Deliver(c, k) PROVE Kept
  BY <1>3
<1>4. ASSUME NEW k \in Copies, ParseFails(k) PROVE Kept
  BY <1>4, SMT DEF ParseFails, Moves, Types
<1>5. ASSUME NEW k \in Copies, InsertProcessed(k) PROVE Kept
  BY <1>5, SMT DEF InsertProcessed, Moves, Types
<1>6. ASSUME NEW k \in Copies, Commit(k) PROVE Kept
  BY <1>6, SMT DEF Commit, Moves, Processed, Types
<1>7. ASSUME NEW k \in Copies, TransactionFails(k) PROVE Kept
  BY <1>7, SMT DEF TransactionFails, Moves, Processed, Types
<1>8. ASSUME NEW k \in Copies, Ack(k) PROVE Kept
  BY <1>8, SMT DEF Ack, Moves, Types
<1>9. ASSUME NEW k \in Copies, HandleFailed(k) PROVE Kept
  BY <1>9, SMT DEF HandleFailed, Moves, NextQueue, Types
<1>10. ASSUME NEW c \in Consumers, Crash(c) PROVE Kept
  BY <1>10, SMT DEF Crash, Renewed, Deafened, Redelivered, Released, Types
<1>11. ASSUME NEW c \in Consumers, NEW k \in Copies, NEW n \in Copies, CrashBeforeAck(c, k, n)
       PROVE  Kept
  BY <1>11, SMT DEF CrashBeforeAck, NextQueue, Renewed, Deafened, Redelivered, Released,
                    Types
<1>12. ASSUME NEW o \in orphans, OrphanInserts(o) PROVE Kept
  BY <1>12, SMT DEF OrphanInserts, Goes, Types
<1>13. ASSUME NEW o \in orphans, OrphanCommits(o) PROVE Kept
  BY <1>13, SMT DEF OrphanCommits, Goes, Processed, Types
<1>13a. ASSUME NEW o \in orphans, OrphanEnds(o) PROVE Kept
  BY <1>13a, SMT DEF OrphanEnds, Renewed, Types
<1>14. ASSUME NEW c \in Consumers, Restart(c) PROVE Kept
  BY <1>14, SMT DEF Restart, Renewed, Types
<1>15. ASSUME NEW k \in Copies, PeekGet(k) PROVE Kept
  BY <1>15, SMT DEF PeekGet, Moves, Types
<1>16. ASSUME NEW k \in Copies, PeekEnds(k) PROVE Kept
  BY <1>16, SMT DEF PeekEnds, Moves, Types
<1>17. ASSUME NEW k \in Copies, ReplayGet(k) PROVE Kept
  BY <1>17, SMT DEF ReplayGet, Moves, Types
<1>18. ASSUME NEW k \in Copies, Replay(k) PROVE Kept
  BY <1>18, SMT DEF Replay, Moves, Types
<1>19. ASSUME NEW k \in Copies, ReplayBreaks(k) PROVE Kept
  BY <1>19, SMT DEF ReplayBreaks, Moves, Types
<1>20. CASE UNCHANGED vars BY <1>20, SMT DEF vars, Types
<1> QED
  BY <1>1, <1>2, <1>3, <1>4, <1>5, <1>6, <1>7, <1>8, <1>9, <1>10, <1>11, <1>12, <1>13,
     <1>13a, <1>14, <1>15, <1>16, <1>17, <1>18, <1>19, <1>20 DEF Next, Consume,
         OrphanStep, Handle, Admin

\* Only a delivery fills the hands of a consumer, one copy at a time.
LEMMA PrefetchStep ==
  ASSUME Sound, PrefetchHeld, [Next]_vars PROVE PrefetchHeld'
<1>1. \A c : IsFiniteSet(InHands(c)) /\ Cardinality(InHands(c)) \in Nat
  BY ProcessingAssumption, FS_Subset, FS_CardinalityType DEF InHands
<1>2. CASE \E d \in Consumers, k \in Copies : Deliver(d, k)
  <2>1. PICK d \in Consumers, k \in Copies : Deliver(d, k) BY <1>2
  <2>2. by' = [by EXCEPT ![k] = d] /\ at[k] = "main" /\ Cardinality(InHands(d)) < Prefetch
    BY <2>1 DEF Deliver, InHands
  <2>3. by[k] = None BY <2>2, SMT DEF Sound, Types, Handling
  <2>4. InHands(d)' = InHands(d) \cup {k} /\ \A c \in Consumers \ {d} : InHands(c)' = InHands(c)
    <3>1. d # None /\ \A j \in Copies : by'[j] = IF j = k THEN d ELSE by[j]
      BY <2>2, ProcessingAssumption, SMT DEF Sound, Types
    <3>2. InHands(d)' = InHands(d) \cup {k} BY <3>1, SMT DEF InHands
    <3>3. \A c \in Consumers \ {d} : InHands(c)' = InHands(c)
      BY <2>3, <3>1, ProcessingAssumption, SMT DEF InHands
    <3> QED BY <3>2, <3>3
  <2>5. Cardinality(InHands(d)') <= Prefetch
    <3>1. Cardinality(InHands(d) \cup {k}) \in {Cardinality(InHands(d)), Cardinality(InHands(d)) + 1}
      BY <1>1, FS_AddElement
    <3>2. Cardinality(InHands(d)') = Cardinality(InHands(d) \cup {k}) BY <2>4
    <3> QED BY <1>1, <2>2, <3>1, <3>2, ProcessingAssumption, SMT
  <2>6. \A c \in Consumers \ {d} : Cardinality(InHands(c)') = Cardinality(InHands(c))
    BY <2>4
  <2> QED BY <2>5, <2>6 DEF PrefetchHeld
<1>3. CASE ~\E c \in Consumers, k \in Copies : Deliver(c, k)
  <2> SUFFICES ASSUME NEW c \in Consumers PROVE Cardinality(InHands(c)') <= Prefetch
    BY DEF PrefetchHeld
  <2>1. \A j \in Copies : by'[j] \in {by[j], None} BY <1>3, HandsStep
  <2>2. InHands(c)' \in SUBSET InHands(c)
    BY <2>1, ProcessingAssumption, SMT DEF InHands
  <2>3. Cardinality(InHands(c)') <= Cardinality(InHands(c)) /\ Cardinality(InHands(c)') \in Nat
    BY <1>1, <2>2, FS_Subset, FS_CardinalityType
  <2> QED BY <1>1, <2>3, ProcessingAssumption, SMT DEF PrefetchHeld
<1> QED BY <1>2, <1>3

-----------------------------------------------------------------------------
(* Messages and their effects *)

\* Every message at work was published; only committed effects are recorded.
Known ==
  /\ \A k \in Copies : id[k] # None => id[k] \in published
  /\ \A o \in orphans : o.id \in published
  /\ published \subseteq Ids /\ processed \subseteq published

\* One transaction at most has inserted a message, and none that is processed;
\* a copy is about to be acked when its message is.
OneInserts ==
  /\ \A k \in Copies : at[k] = "inserted" => id[k] \notin processed
  /\ \A o \in orphans : o.stage = "inserted" => o.id \notin processed
  /\ \A j, k \in Copies :
       at[j] = "inserted" /\ at[k] = "inserted" /\ id[j] = id[k] => j = k
  /\ \A o \in orphans : o.stage = "inserted" =>
       /\ \A k \in Copies : at[k] = "inserted" => id[k] # o.id
       /\ \A p \in orphans : p.stage = "inserted" /\ p.id = o.id => p = o
  /\ \A k \in Copies : at[k] = "done" => id[k] \in processed

\* No step makes up a message.
LEMMA KnownStep == ASSUME Sound, Known, [Next]_vars PROVE Known'
<1> USE ProcessingAssumption DEF Tables, Live, Fault, Sound
<1>1. ASSUME NEW k \in Copies, NEW i \in Ids, Publish(k, i) PROVE Known'
  BY <1>1, SMT DEF Publish, Moves, Types, Known
<1>2. ASSUME NEW k \in Copies, RetryExpires(k) PROVE Known'
  BY <1>2, SMT DEF RetryExpires, Moves, Types, Known
<1>3. ASSUME NEW c \in Consumers, NEW k \in Copies, Deliver(c, k) PROVE Known'
  BY <1>3, SMT DEF Deliver, Moves, Types, Known
<1>4. ASSUME NEW k \in Copies, ParseFails(k) PROVE Known'
  BY <1>4, SMT DEF ParseFails, Moves, Types, Known
<1>5. ASSUME NEW k \in Copies, InsertProcessed(k) PROVE Known'
  BY <1>5, SMT DEF InsertProcessed, Moves, Types, Known
<1>6. ASSUME NEW k \in Copies, Commit(k) PROVE Known'
  BY <1>6, SMT DEF Commit, Moves, Processed, Types, Known
<1>7. ASSUME NEW k \in Copies, TransactionFails(k) PROVE Known'
  BY <1>7, SMT DEF TransactionFails, Moves, Processed, Types, Known
<1>8. ASSUME NEW k \in Copies, Ack(k) PROVE Known'
  BY <1>8, SMT DEF Ack, Moves, Types, Known
<1>9. ASSUME NEW k \in Copies, HandleFailed(k) PROVE Known'
  BY <1>9, SMT DEF HandleFailed, Moves, NextQueue, Types, Known
<1>10. ASSUME NEW c \in Consumers, Crash(c) PROVE Known'
  BY <1>10, SMT DEF Crash, Renewed, Deafened, Redelivered, Released, Types, Known
<1>11. ASSUME NEW c \in Consumers, NEW k \in Copies, NEW n \in Copies, CrashBeforeAck(c, k, n)
       PROVE  Known'
  BY <1>11, SMT DEF CrashBeforeAck, NextQueue, Renewed, Deafened, Redelivered, Released,
                    Types, Known
<1>12. ASSUME NEW o \in orphans, OrphanInserts(o) PROVE Known'
  BY <1>12, SMT DEF OrphanInserts, Goes, Types, Known
<1>13. ASSUME NEW o \in orphans, OrphanCommits(o) PROVE Known'
  BY <1>13, SMT DEF OrphanCommits, Goes, Processed, Types, Known
<1>13a. ASSUME NEW o \in orphans, OrphanEnds(o) PROVE Known'
  BY <1>13a, SMT DEF OrphanEnds, Renewed, Types, Known
<1>14. ASSUME NEW c \in Consumers, Restart(c) PROVE Known'
  BY <1>14, SMT DEF Restart, Renewed, Types, Known
<1>15. ASSUME NEW k \in Copies, PeekGet(k) PROVE Known'
  BY <1>15, SMT DEF PeekGet, Moves, Types, Known
<1>16. ASSUME NEW k \in Copies, PeekEnds(k) PROVE Known'
  BY <1>16, SMT DEF PeekEnds, Moves, Types, Known
<1>17. ASSUME NEW k \in Copies, ReplayGet(k) PROVE Known'
  BY <1>17, SMT DEF ReplayGet, Moves, Types, Known
<1>18. ASSUME NEW k \in Copies, Replay(k) PROVE Known'
  BY <1>18, SMT DEF Replay, Moves, Types, Known
<1>19. ASSUME NEW k \in Copies, ReplayBreaks(k) PROVE Known'
  BY <1>19, SMT DEF ReplayBreaks, Moves, Types, Known
<1>20. CASE UNCHANGED vars BY <1>20, SMT DEF vars, Types, Known
<1> QED
  BY <1>1, <1>2, <1>3, <1>4, <1>5, <1>6, <1>7, <1>8, <1>9, <1>10, <1>11, <1>12, <1>13,
     <1>13a, <1>14, <1>15, <1>16, <1>17, <1>18, <1>19, <1>20 DEF Next, Consume,
         OrphanStep, Handle, Admin

\* The unique index lets one transaction insert a message.
LEMMA OneInsertsStep ==
  ASSUME Sound, Known, OneInserts, [Next]_vars PROVE OneInserts'
<1> USE ProcessingAssumption DEF Tables, Live, Fault, Sound
<1>1. ASSUME NEW k \in Copies, NEW i \in Ids, Publish(k, i) PROVE OneInserts'
  BY <1>1, SMT DEF Publish, Moves, Inserted, Types, Known, OneInserts
<1>2. ASSUME NEW k \in Copies, RetryExpires(k) PROVE OneInserts'
  BY <1>2, SMT DEF RetryExpires, Moves, Inserted, Types, Known, OneInserts
<1>3. ASSUME NEW c \in Consumers, NEW k \in Copies, Deliver(c, k) PROVE OneInserts'
  BY <1>3, SMT DEF Deliver, Moves, Inserted, Types, Known, OneInserts
<1>4. ASSUME NEW k \in Copies, ParseFails(k) PROVE OneInserts'
  BY <1>4, SMT DEF ParseFails, Moves, Inserted, Types, Known, OneInserts
<1>5. ASSUME NEW k \in Copies, InsertProcessed(k) PROVE OneInserts'
  BY <1>5, SMT DEF InsertProcessed, Moves, Inserted, Types, Known, OneInserts
<1>6. ASSUME NEW k \in Copies, Commit(k) PROVE OneInserts'
  BY <1>6, SMT DEF Commit, Moves, Processed, Inserted, Types, Known, OneInserts
<1>7. ASSUME NEW k \in Copies, TransactionFails(k) PROVE OneInserts'
  BY <1>7, SMT DEF TransactionFails, Moves, Processed, Inserted, Types, Known, OneInserts
<1>8. ASSUME NEW k \in Copies, Ack(k) PROVE OneInserts'
  BY <1>8, SMT DEF Ack, Moves, Inserted, Types, Known, OneInserts
<1>9. ASSUME NEW k \in Copies, HandleFailed(k) PROVE OneInserts'
  BY <1>9, SMT DEF HandleFailed, Moves, NextQueue, Inserted, Types, Known, OneInserts
<1>10. ASSUME NEW c \in Consumers, Crash(c) PROVE OneInserts'
  BY <1>10, SMT DEF Crash, Renewed, Deafened, Redelivered, Released, Inserted, Types,
                    Known, OneInserts
<1>11. ASSUME NEW c \in Consumers, NEW k \in Copies, NEW n \in Copies, CrashBeforeAck(c, k, n)
       PROVE  OneInserts'
  BY <1>11, SMT DEF CrashBeforeAck, NextQueue, Renewed, Deafened, Redelivered, Released,
                    Inserted, Types, Known, OneInserts
<1>12. ASSUME NEW o \in orphans, OrphanInserts(o) PROVE OneInserts'
  BY <1>12, SMT DEF OrphanInserts, Goes, Inserted, Types, Known, OneInserts
<1>13. ASSUME NEW o \in orphans, OrphanCommits(o) PROVE OneInserts'
  BY <1>13, SMT DEF OrphanCommits, Goes, Processed, Inserted, Types, Known, OneInserts
<1>13a. ASSUME NEW o \in orphans, OrphanEnds(o) PROVE OneInserts'
  BY <1>13a, SMT DEF OrphanEnds, Renewed, Inserted, Types, Known, OneInserts
<1>14. ASSUME NEW c \in Consumers, Restart(c) PROVE OneInserts'
  BY <1>14, SMT DEF Restart, Renewed, Inserted, Types, Known, OneInserts
<1>15. ASSUME NEW k \in Copies, PeekGet(k) PROVE OneInserts'
  BY <1>15, SMT DEF PeekGet, Moves, Inserted, Types, Known, OneInserts
<1>16. ASSUME NEW k \in Copies, PeekEnds(k) PROVE OneInserts'
  BY <1>16, SMT DEF PeekEnds, Moves, Inserted, Types, Known, OneInserts
<1>17. ASSUME NEW k \in Copies, ReplayGet(k) PROVE OneInserts'
  BY <1>17, SMT DEF ReplayGet, Moves, Inserted, Types, Known, OneInserts
<1>18. ASSUME NEW k \in Copies, Replay(k) PROVE OneInserts'
  BY <1>18, SMT DEF Replay, Moves, Inserted, Types, Known, OneInserts
<1>19. ASSUME NEW k \in Copies, ReplayBreaks(k) PROVE OneInserts'
  BY <1>19, SMT DEF ReplayBreaks, Moves, Inserted, Types, Known, OneInserts
<1>20. CASE UNCHANGED vars BY <1>20, SMT DEF vars, Inserted, Types, Known, OneInserts
<1> QED
  BY <1>1, <1>2, <1>3, <1>4, <1>5, <1>6, <1>7, <1>8, <1>9, <1>10, <1>11, <1>12, <1>13,
     <1>13a, <1>14, <1>15, <1>16, <1>17, <1>18, <1>19, <1>20 DEF Next, Consume,
         OrphanStep, Handle, Admin

\* An effect is committed with the row that says so, by the one who has inserted it.
LEMMA EffectStep ==
  ASSUME Sound, Known, OneInserts, EffectOnce, [Next]_vars PROVE EffectOnce'
<1> USE ProcessingAssumption DEF Tables, Live, Fault, Sound
<1>1. ASSUME NEW k \in Copies, NEW i \in Ids, Publish(k, i) PROVE EffectOnce'
  BY <1>1, SMT DEF Publish, Moves, Types, Known, OneInserts, EffectOnce
<1>2. ASSUME NEW k \in Copies, RetryExpires(k) PROVE EffectOnce'
  BY <1>2, SMT DEF RetryExpires, Moves, Types, Known, OneInserts, EffectOnce
<1>3. ASSUME NEW c \in Consumers, NEW k \in Copies, Deliver(c, k) PROVE EffectOnce'
  BY <1>3, SMT DEF Deliver, Moves, Types, Known, OneInserts, EffectOnce
<1>4. ASSUME NEW k \in Copies, ParseFails(k) PROVE EffectOnce'
  BY <1>4, SMT DEF ParseFails, Moves, Types, Known, OneInserts, EffectOnce
<1>5. ASSUME NEW k \in Copies, InsertProcessed(k) PROVE EffectOnce'
  BY <1>5, SMT DEF InsertProcessed, Moves, Types, Known, OneInserts, EffectOnce
<1>6. ASSUME NEW k \in Copies, Commit(k) PROVE EffectOnce'
  BY <1>6, SMT DEF Commit, Moves, Processed, Types, Known, OneInserts, EffectOnce
<1>7. ASSUME NEW k \in Copies, TransactionFails(k) PROVE EffectOnce'
  BY <1>7, SMT DEF TransactionFails, Moves, Processed, Types, Known, OneInserts, EffectOnce
<1>8. ASSUME NEW k \in Copies, Ack(k) PROVE EffectOnce'
  BY <1>8, SMT DEF Ack, Moves, Types, Known, OneInserts, EffectOnce
<1>9. ASSUME NEW k \in Copies, HandleFailed(k) PROVE EffectOnce'
  BY <1>9, SMT DEF HandleFailed, Moves, NextQueue, Types, Known, OneInserts, EffectOnce
<1>10. ASSUME NEW c \in Consumers, Crash(c) PROVE EffectOnce'
  BY <1>10, SMT DEF Crash, Renewed, Deafened, Redelivered, Released, Types, Known,
                    OneInserts, EffectOnce
<1>11. ASSUME NEW c \in Consumers, NEW k \in Copies, NEW n \in Copies, CrashBeforeAck(c, k, n)
       PROVE  EffectOnce'
  BY <1>11, SMT DEF CrashBeforeAck, NextQueue, Renewed, Deafened, Redelivered, Released,
                    Types, Known, OneInserts, EffectOnce
<1>12. ASSUME NEW o \in orphans, OrphanInserts(o) PROVE EffectOnce'
  BY <1>12, SMT DEF OrphanInserts, Goes, Types, Known, OneInserts, EffectOnce
<1>13. ASSUME NEW o \in orphans, OrphanCommits(o) PROVE EffectOnce'
  BY <1>13, SMT DEF OrphanCommits, Goes, Processed, Types, Known, OneInserts, EffectOnce
<1>13a. ASSUME NEW o \in orphans, OrphanEnds(o) PROVE EffectOnce'
  BY <1>13a, SMT DEF OrphanEnds, Renewed, Types, Known, OneInserts, EffectOnce
<1>14. ASSUME NEW c \in Consumers, Restart(c) PROVE EffectOnce'
  BY <1>14, SMT DEF Restart, Renewed, Types, Known, OneInserts, EffectOnce
<1>15. ASSUME NEW k \in Copies, PeekGet(k) PROVE EffectOnce'
  BY <1>15, SMT DEF PeekGet, Moves, Types, Known, OneInserts, EffectOnce
<1>16. ASSUME NEW k \in Copies, PeekEnds(k) PROVE EffectOnce'
  BY <1>16, SMT DEF PeekEnds, Moves, Types, Known, OneInserts, EffectOnce
<1>17. ASSUME NEW k \in Copies, ReplayGet(k) PROVE EffectOnce'
  BY <1>17, SMT DEF ReplayGet, Moves, Types, Known, OneInserts, EffectOnce
<1>18. ASSUME NEW k \in Copies, Replay(k) PROVE EffectOnce'
  BY <1>18, SMT DEF Replay, Moves, Types, Known, OneInserts, EffectOnce
<1>19. ASSUME NEW k \in Copies, ReplayBreaks(k) PROVE EffectOnce'
  BY <1>19, SMT DEF ReplayBreaks, Moves, Types, Known, OneInserts, EffectOnce
<1>20. CASE UNCHANGED vars BY <1>20, SMT DEF vars, Types, Known, OneInserts, EffectOnce
<1> QED
  BY <1>1, <1>2, <1>3, <1>4, <1>5, <1>6, <1>7, <1>8, <1>9, <1>10, <1>11, <1>12, <1>13,
     <1>13a, <1>14, <1>15, <1>16, <1>17, <1>18, <1>19, <1>20 DEF Next, Consume,
         OrphanStep, Handle, Admin

\* The last copy of a message is given up only when it is processed.
LEMMA NeverLostStep ==
  ASSUME Sound, Known, OneInserts, NeverLost, [Next]_vars PROVE NeverLost'
<1> USE ProcessingAssumption DEF Tables, Live, Fault, Sound
<1>1. ASSUME NEW k \in Copies, NEW i \in Ids, Publish(k, i) PROVE NeverLost'
  BY <1>1, SMT DEF Publish, Moves, Types, Known, OneInserts, NeverLost
<1>2. ASSUME NEW k \in Copies, RetryExpires(k) PROVE NeverLost'
  BY <1>2, SMT DEF RetryExpires, Moves, Types, Known, OneInserts, NeverLost
<1>3. ASSUME NEW c \in Consumers, NEW k \in Copies, Deliver(c, k) PROVE NeverLost'
  BY <1>3, SMT DEF Deliver, Moves, Types, Known, OneInserts, NeverLost
<1>4. ASSUME NEW k \in Copies, ParseFails(k) PROVE NeverLost'
  BY <1>4, SMT DEF ParseFails, Moves, Types, Known, OneInserts, NeverLost
<1>5. ASSUME NEW k \in Copies, InsertProcessed(k) PROVE NeverLost'
  BY <1>5, SMT DEF InsertProcessed, Moves, Types, Known, OneInserts, NeverLost
<1>6. ASSUME NEW k \in Copies, Commit(k) PROVE NeverLost'
  BY <1>6, SMT DEF Commit, Moves, Processed, Types, Known, OneInserts, NeverLost
<1>7. ASSUME NEW k \in Copies, TransactionFails(k) PROVE NeverLost'
  BY <1>7, SMT DEF TransactionFails, Moves, Processed, Types, Known, OneInserts, NeverLost
<1>8. ASSUME NEW k \in Copies, Ack(k) PROVE NeverLost'
  BY <1>8, SMT DEF Ack, Moves, Types, Known, OneInserts, NeverLost
<1>9. ASSUME NEW k \in Copies, HandleFailed(k) PROVE NeverLost'
  BY <1>9, SMT DEF HandleFailed, Moves, NextQueue, Types, Known, OneInserts, NeverLost
<1>10. ASSUME NEW c \in Consumers, Crash(c) PROVE NeverLost'
  BY <1>10, SMT DEF Crash, Renewed, Deafened, Redelivered, Released, Types, Known,
                    OneInserts, NeverLost
<1>11. ASSUME NEW c \in Consumers, NEW k \in Copies, NEW n \in Copies, CrashBeforeAck(c, k, n)
       PROVE  NeverLost'
  BY <1>11, SMT DEF CrashBeforeAck, NextQueue, Renewed, Deafened, Redelivered, Released,
                    Types, Known, OneInserts, NeverLost
<1>12. ASSUME NEW o \in orphans, OrphanInserts(o) PROVE NeverLost'
  BY <1>12, SMT DEF OrphanInserts, Goes, Types, Known, OneInserts, NeverLost
<1>13. ASSUME NEW o \in orphans, OrphanCommits(o) PROVE NeverLost'
  BY <1>13, SMT DEF OrphanCommits, Goes, Processed, Types, Known, OneInserts, NeverLost
<1>13a. ASSUME NEW o \in orphans, OrphanEnds(o) PROVE NeverLost'
  BY <1>13a, SMT DEF OrphanEnds, Renewed, Types, Known, OneInserts, NeverLost
<1>14. ASSUME NEW c \in Consumers, Restart(c) PROVE NeverLost'
  BY <1>14, SMT DEF Restart, Renewed, Types, Known, OneInserts, NeverLost
<1>15. ASSUME NEW k \in Copies, PeekGet(k) PROVE NeverLost'
  BY <1>15, SMT DEF PeekGet, Moves, Types, Known, OneInserts, NeverLost
<1>16. ASSUME NEW k \in Copies, PeekEnds(k) PROVE NeverLost'
  BY <1>16, SMT DEF PeekEnds, Moves, Types, Known, OneInserts, NeverLost
<1>17. ASSUME NEW k \in Copies, ReplayGet(k) PROVE NeverLost'
  BY <1>17, SMT DEF ReplayGet, Moves, Types, Known, OneInserts, NeverLost
<1>18. ASSUME NEW k \in Copies, Replay(k) PROVE NeverLost'
  BY <1>18, SMT DEF Replay, Moves, Types, Known, OneInserts, NeverLost
<1>19. ASSUME NEW k \in Copies, ReplayBreaks(k) PROVE NeverLost'
  BY <1>19, SMT DEF ReplayBreaks, Moves, Types, Known, OneInserts, NeverLost
<1>20. CASE UNCHANGED vars BY <1>20, SMT DEF vars, Types, Known, OneInserts, NeverLost
<1> QED
  BY <1>1, <1>2, <1>3, <1>4, <1>5, <1>6, <1>7, <1>8, <1>9, <1>10, <1>11, <1>12, <1>13,
     <1>13a, <1>14, <1>15, <1>16, <1>17, <1>18, <1>19, <1>20 DEF Next, Consume,
         OrphanStep, Handle, Admin

IInv == Sound /\ PrefetchHeld /\ Known /\ OneInserts /\ EffectOnce /\ NeverLost

\* The inductive invariant, always.
LEMMA AlwaysIInv == Spec => []IInv
<1>1. Init => PrefetchHeld
  <2> SUFFICES ASSUME Init, NEW c \in Consumers PROVE Cardinality(InHands(c)) <= Prefetch
    BY DEF PrefetchHeld
  <2>1. InHands(c) = {} BY ProcessingAssumption, SMT DEF InHands, Init
  <2> QED BY <2>1, FS_EmptySet, ProcessingAssumption, SMT
<1>2. Init => Known /\ OneInserts /\ EffectOnce /\ NeverLost
  BY ProcessingAssumption, SMT DEF Init, Known, OneInserts, EffectOnce, NeverLost
<1>3. IInv /\ [Next]_vars => IInv'
  BY SoundStep, PrefetchStep, KnownStep, OneInsertsStep, EffectStep, NeverLostStep DEF IInv
<1>4. Init => Sound
  BY ProcessingAssumption, SMT DEF Init, Sound, Types, RetriesBounded, Places, Handling
<1>5. Init => IInv BY <1>1, <1>2, <1>4 DEF IInv
<1> QED BY <1>3, <1>5, PTL DEF Spec

\* Every variable keeps its type, the prefetch included.
THEOREM TypeCorrect == Spec => []TypeOK
<1>1. IInv => TypeOK BY SMT DEF IInv, Sound, Types, Known, PrefetchHeld, InHands, TypeOK
<1> QED BY <1>1, AlwaysIInv, PTL

\* The idempotent consumer, for any number of copies, consumers and failures:
\* the effect of a message is committed once when it is recorded as processed,
\* and never otherwise.
THEOREM EffectAlwaysOnce == Spec => []EffectOnce
<1>1. IInv => EffectOnce BY DEF IInv
<1> QED BY <1>1, AlwaysIInv, PTL

\* FR-08, whatever fails: a published message is processed or still somewhere.
THEOREM MessageNeverLost == Spec => []NeverLost
<1>1. IInv => NeverLost BY DEF IInv
<1> QED BY <1>1, AlwaysIInv, PTL

\* Only Publish adds to the published messages.
LEMMA ConsumePublishesNothing == Consume => published' = published
<1> USE DEF Tables, Processed
<1>1. ASSUME NEW k \in Copies, RetryExpires(k) \/ \E c \in Consumers : Deliver(c, k)
      PROVE  published' = published
  BY <1>1 DEF Deliver, RetryExpires
<1>2. ASSUME NEW k \in Copies, Handle(k) \/ Admin(k) PROVE published' = published
  BY <1>2 DEF Handle, Admin, ParseFails, InsertProcessed, Commit, Ack, HandleFailed,
              PeekGet, PeekEnds, ReplayGet, Replay
<1>3. ASSUME NEW k \in Copies, TransactionFails(k) \/ ReplayBreaks(k)
      PROVE  published' = published
  BY <1>3 DEF TransactionFails, ReplayBreaks
<1>4. ASSUME NEW o \in orphans, OrphanInserts(o) \/ OrphanCommits(o) \/ OrphanEnds(o)
      PROVE  published' = published
  BY <1>4 DEF OrphanInserts, OrphanCommits, OrphanEnds
<1>5. ASSUME NEW c \in Consumers,
             Crash(c) \/ Restart(c) \/ \E k, n \in Copies : CrashBeforeAck(c, k, n)
      PROVE  published' = published
  BY <1>5 DEF Crash, Restart, CrashBeforeAck
<1> QED BY <1>1, <1>2, <1>3, <1>4, <1>5 DEF Consume, OrphanStep

\* Every step of a consumer leaves the effects alone or commits that of a
\* published message which had none.
LEMMA ConsumeEffects ==
  ASSUME IInv, Consume
  PROVE  \/ effects' = effects
         \/ \E i \in published : effects[i] = 0 /\ effects' = [effects EXCEPT ![i] = 1]
<1> USE DEF IInv, Sound
<1>1. ASSUME NEW i \in published, i \notin processed, Processed(i)
      PROVE  effects[i] = 0 /\ effects' = [effects EXCEPT ![i] = 1]
  <2>1. i \in Ids BY <1>1 DEF Known
  <2>2. effects[i] = 0 BY <1>1, <2>1 DEF EffectOnce
  <2> QED BY <1>1, <2>1, <2>2, SMT DEF Processed
<1>2. ASSUME NEW k \in Copies, Commit(k) \/ TransactionFails(k), effects' # effects
      PROVE  id[k] \in published \ processed /\ Processed(id[k])
  <2>1. at[k] = "inserted" /\ Processed(id[k])
    BY <1>2 DEF Commit, TransactionFails, Tables
  <2>2. id[k] # None /\ id[k] \notin processed BY <2>1 DEF Types, OneInserts
  <2> QED BY <2>1, <2>2 DEF Known
<1>3. ASSUME NEW o \in orphans, OrphanCommits(o)
      PROVE  o.id \in published \ processed /\ Processed(o.id)
  BY <1>3 DEF OrphanCommits, OneInserts, Known
<1>4. ASSUME NEW k \in Copies,
             \/ \E c \in Consumers : Deliver(c, k)
             \/ RetryExpires(k) \/ Admin(k) \/ ReplayBreaks(k)
             \/ ParseFails(k) \/ InsertProcessed(k) \/ Ack(k) \/ HandleFailed(k)
      PROVE  effects' = effects
  BY <1>4 DEF Deliver, RetryExpires, Admin, PeekGet, PeekEnds, ReplayGet, Replay,
              ReplayBreaks, ParseFails, InsertProcessed, Ack, HandleFailed, Tables
<1>5. ASSUME NEW o \in orphans, OrphanInserts(o) \/ OrphanEnds(o)
      PROVE  effects' = effects
  BY <1>5 DEF OrphanInserts, OrphanEnds, Tables
<1>6. ASSUME NEW c \in Consumers,
             Crash(c) \/ Restart(c) \/ \E k, n \in Copies : CrashBeforeAck(c, k, n)
      PROVE  effects' = effects
  BY <1>6 DEF Crash, Restart, CrashBeforeAck, Tables
<1> QED BY <1>1, <1>2, <1>3, <1>4, <1>5, <1>6 DEF Consume, OrphanStep, Handle
=============================================================================
