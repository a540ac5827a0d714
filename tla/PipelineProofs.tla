--------------------------- MODULE PipelineProofs ---------------------------
(***************************************************************************)
(* What holds of the pipeline as a whole follows from what is proved of its*)
(* parts.  Every behaviour of Pipeline is a behaviour of each part; the    *)
(* only invariant that is new is that the rows of outbox_events are those  *)
(* of the stored transfers.                                                *)
(***************************************************************************)
EXTENDS Pipeline, TLAPS

-----------------------------------------------------------------------------
(* The parts *)

\* No step of the queues or of the outbox workers touches the tables.
LEMMA BankStep == [Next]_vars => [Bank!Next]_(Bank!tables)
<1> SUFFICES ASSUME [Next]_vars PROVE Bank!Next \/ UNCHANGED Bank!tables
  OBVIOUS
<1> USE DEF Bank!tables, tables
<1>1. ASSUME NEW r \in Requests, NEW i \in Index, NEW body \in Body, Transfer(r, i, body)
      PROVE  Bank!Next
  BY <1>1 DEF Transfer, Bank!Next, Bank!Index, Index, Bank!Body, Body
<1>2. CASE Banking BY <1>2 DEF Banking, Bank!Next
<1>3. CASE Relaying(Relay!Operate) BY <1>3 DEF Relaying
<1>4. ASSUME NEW w \in Workers, NEW e \in Events, NEW k \in Copies, Arrive(w, e, k)
      PROVE  UNCHANGED tables
  BY <1>4 DEF Arrive
<1>5. CASE Handling(Worker!Consume) BY <1>5 DEF Handling
<1>6. CASE UNCHANGED vars BY <1>6 DEF vars
<1> QED BY <1>1, <1>2, <1>3, <1>4, <1>5, <1>6 DEF Next

\* The outbox workers see a transfer as the creation of its event, and nothing
\* of the other operations on the tables or of the consumers.
LEMMA RelayStep == [Next]_vars => [Relay!Next]_(Relay!vars)
<1> SUFFICES ASSUME [Next]_vars PROVE Relay!Next \/ UNCHANGED Relay!vars
  OBVIOUS
<1> USE DEF Relay!vars, Relay!rows, relaying
<1>1. ASSUME NEW r \in Requests, NEW i \in Index, NEW body \in Body, Transfer(r, i, body)
      PROVE  Relay!Next
  <2>1. Number[r] \in Events BY DEF Events
  <2> QED BY <1>1, <2>1 DEF Transfer, Relay!Next
<1>2. CASE Banking BY <1>2 DEF Banking
<1>3. CASE Relaying(Relay!Operate) BY <1>3 DEF Relaying, Relay!Next
<1>4. ASSUME NEW w \in Workers, NEW e \in Events, NEW k \in Copies, Arrive(w, e, k)
      PROVE  Relay!Next
  BY <1>4 DEF Arrive, Relay!Next
<1>5. CASE Handling(Worker!Consume)
  BY <1>5, Worker!ConsumePublishesNothing, PipelineAssumption DEF Handling
<1>6. CASE UNCHANGED vars BY <1>6 DEF vars
<1> QED BY <1>1, <1>2, <1>3, <1>4, <1>5, <1>6 DEF Next

\* The rows of outbox_events are those of the stored transfers, each of which
\* has both its rows in the ledger.
Stored(r, i) ==
  /\ transfers[i] # NoTransfer
  /\ transfers[i].id = r /\ transfers[i].status = "SUCCESS"
  /\ TransferEntries(r, transfers[i].body) \subseteq ledger

EventsOfTransfers ==
  /\ transfers \in [Index -> TransferRow \cup {NoTransfer}]
  /\ outbox \subseteq Requests
  /\ \A r \in Requests : r \in outbox <=> status[Number[r]] # "absent"
  /\ \A r \in outbox : \E i \in Index : Stored(r, i)

\* The consumers see the arrival of a message, and nothing of the tables or of
\* the outbox workers.
LEMMA WorkerStep ==
  ASSUME Relay!TypeOK, Relay!Created, [Next]_vars
  PROVE  [Worker!Next]_(Worker!vars)
<1> USE DEF Worker!vars, handling
<1>1. ASSUME NEW r \in Requests, NEW i \in Index, NEW body \in Body, Transfer(r, i, body)
      PROVE  UNCHANGED Worker!vars
  BY <1>1 DEF Transfer, Relay!Create
<1>2. CASE Banking BY <1>2 DEF Banking
<1>3. CASE Relaying(Relay!Operate)
  BY <1>3, Relay!OperateKeepsRows, PipelineAssumption DEF Relaying
<1>4. ASSUME NEW w \in Workers, NEW e \in Events, NEW k \in Copies, Arrive(w, e, k)
      PROVE  Worker!Next
  BY <1>4 DEF Arrive, Worker!Next
<1>5. CASE Handling(Worker!Consume) BY <1>5 DEF Handling, Worker!Next
<1>6. CASE UNCHANGED vars BY <1>6 DEF vars
<1> QED BY <1>1, <1>2, <1>3, <1>4, <1>5, <1>6 DEF Next

\* The pipeline is an execution of the banking core, of the outbox relay and of
\* the processing workers at once: nothing the queues do can break what is
\* proved of the tables, and no operation of a request what is proved of the
\* delivery.
THEOREM PipelineIsItsParts == Spec => Bank!Spec /\ Relay!Spec /\ Worker!Spec
<1>1. Init => Bank!Init /\ Relay!Init /\ Worker!Init BY DEF Init
<1>2. Spec => Bank!Spec BY <1>1, BankStep, PTL DEF Spec, Bank!Spec
<1>3. Spec => Relay!Spec BY <1>1, RelayStep, PTL DEF Spec, Relay!Spec
<1>4. Spec => []Relay!TypeOK /\ []Relay!Created
  BY <1>3, Relay!TypeCorrect, Relay!AlwaysCreated, PipelineAssumption, PTL
<1>5. Relay!TypeOK /\ Relay!Created /\ [Next]_vars => [Worker!Next]_(Worker!vars)
  BY WorkerStep
<1>6. Spec => Worker!Spec BY <1>1, <1>4, <1>5, PTL DEF Spec, Worker!Spec
<1> QED BY <1>2, <1>3, <1>6

-----------------------------------------------------------------------------
(* The outbox table and the tables of the transfers *)

\* A stored transfer stays, and so do its ledger rows.
LEMMA BankKeepsStored ==
  ASSUME transfers \in [Index -> TransferRow \cup {NoTransfer}],
         [Bank!Next]_(Bank!tables), NEW r \in Requests, NEW i \in Index, Stored(r, i)
  PROVE  Stored(r, i)'
<1>1. transfers'[i] = transfers[i] /\ ledger \subseteq ledger'
  <2>1. ASSUME NEW q \in Requests, NEW j \in Index, NEW body \in Body,
               Bank!Transfer(q, j[1], j[2], body)
        PROVE  transfers'[i] = transfers[i] /\ ledger \subseteq ledger'
    <3>1. j = <<j[1], j[2]>> BY DEF Index
    <3>2. transfers[j] = NoTransfer BY <2>1, <3>1 DEF Bank!Transfer
    <3>3. i # j BY <3>2 DEF Stored
    <3> QED BY <2>1, <3>1, <3>3 DEF Bank!Transfer
  <2>2. ASSUME NEW q \in Requests, NEW a \in Accounts, NEW amount \in Amounts,
               Bank!TopUp(q, a, amount)
        PROVE  transfers'[i] = transfers[i] /\ ledger \subseteq ledger'
    BY <2>2 DEF Bank!TopUp
  <2>3. ASSUME NEW a \in Accounts, \/ \E state \in {"ACTIVE", "LOCKED"} : Bank!SetStatus(a, state)
                                   \/ \E u \in Users, c \in Currencies : Bank!Open(u, a, c)
        PROVE  transfers'[i] = transfers[i] /\ ledger \subseteq ledger'
    BY <2>3 DEF Bank!SetStatus, Bank!Open
  <2>4. CASE UNCHANGED Bank!tables BY <2>4 DEF Bank!tables
  <2> QED BY <2>1, <2>2, <2>3, <2>4 DEF Bank!Next, Bank!Index, Index, Bank!Body, Body
<1> QED BY <1>1 DEF Stored

LEMMA EventsStep ==
  ASSUME Relay!TypeOK, Relay!Created, EventsOfTransfers, [Next]_vars
  PROVE  EventsOfTransfers'
<1> USE DEF EventsOfTransfers
<1>0. \A r \in Requests : Number[r] \in Events BY DEF Events
<1>1. \A r \in Requests, i \in Index : Stored(r, i) => Stored(r, i)'
  BY BankKeepsStored, BankStep
<1>2. ASSUME NEW r \in Requests, NEW i \in Index, NEW body \in Body, Transfer(r, i, body)
      PROVE  EventsOfTransfers'
  <2>1. i \in Users \X Keys /\ i = <<i[1], i[2]>> BY DEF Index
  <2>2. /\ outbox' = outbox \cup {r}
        /\ ledger' = ledger \cup Bank!TransferEntries(r, body)
        /\ transfers' = [transfers EXCEPT ![i] = [id |-> r, body |-> body, status |-> "SUCCESS"]]
        /\ status' = [status EXCEPT ![Number[r]] = "waiting"]
    BY <1>2, <2>1 DEF Transfer, Bank!Transfer, Relay!Create
  <2>3. transfers' \in [Index -> TransferRow \cup {NoTransfer}]
    BY <2>2 DEF TransferRow
  <2>4. \A q \in Requests : q \in outbox' <=> status'[Number[q]] # "absent"
    BY <1>0, <2>2, PipelineAssumption DEF Relay!TypeOK
  <2>5. Stored(r, i)'
    <3>1. transfers'[i] = [id |-> r, body |-> body, status |-> "SUCCESS"] BY <2>2
    <3>2. transfers'[i] # NoTransfer BY <3>1, TablesAssumption DEF TransferRow
    <3>3. Bank!TransferEntries(r, body) = TransferEntries(r, body)
      BY DEF Bank!TransferEntries, TransferEntries, Bank!Entry, Entry
    <3> QED BY <2>2, <3>1, <3>2, <3>3 DEF Stored
  <2>6. \A q \in outbox' : \E j \in Index : Stored(q, j)' BY <1>1, <2>2, <2>5
  <2> QED BY <2>2, <2>3, <2>4, <2>6
<1>3. ASSUME UNCHANGED <<transfers, outbox, status>> PROVE EventsOfTransfers'
  BY <1>1, <1>3
<1>4. CASE Banking
  BY <1>3, <1>4 DEF Banking, relaying, Bank!TopUp, Bank!SetStatus, Bank!Open
<1>5. CASE Relaying(Relay!Operate)
  <2>1. \A e \in Events : status'[e] # "absent" <=> status[e] # "absent"
    BY <1>5, Relay!OperateKeepsRows, PipelineAssumption DEF Relaying
  <2>2. UNCHANGED <<transfers, outbox>> BY <1>5 DEF Relaying, tables
  <2> QED BY <1>0, <1>1, <2>1, <2>2
<1>6. ASSUME NEW w \in Workers, NEW e \in Events, NEW k \in Copies, Arrive(w, e, k)
      PROVE  EventsOfTransfers'
  BY <1>3, <1>6 DEF Arrive, tables, Relay!Flush, Relay!rows
<1>7. CASE Handling(Worker!Consume) BY <1>3, <1>7 DEF Handling, tables, relaying
<1>8. CASE UNCHANGED vars BY <1>3, <1>8 DEF vars, tables, relaying
<1> QED BY <1>2, <1>4, <1>5, <1>6, <1>7, <1>8 DEF Next

LEMMA AlwaysEventsOfTransfers == Spec => []EventsOfTransfers
<1>1. Init => EventsOfTransfers
  BY DEF Init, Bank!Init, Bank!Index, Relay!Init, EventsOfTransfers, Events, Index
<1>2. Relay!TypeOK /\ Relay!Created /\ EventsOfTransfers /\ [Next]_vars => EventsOfTransfers'
  BY EventsStep
<1>3. Spec => []Relay!TypeOK /\ []Relay!Created
  BY PipelineIsItsParts, Relay!TypeCorrect, Relay!AlwaysCreated, PipelineAssumption, PTL
<1> QED BY <1>1, <1>2, <1>3, PTL DEF Spec

-----------------------------------------------------------------------------
(* From one end to the other *)

\* The effect of an event is committed at most once, and only for a transfer
\* that is stored whole: what is processed has arrived, what has arrived is in
\* the outbox, and what is in the outbox is stored.
THEOREM EffectsAlwaysTransfers == Spec => []EffectsAreTransfers
<1>1. Relay!Created /\ Worker!TypeOK /\ Worker!EffectOnce /\ EventsOfTransfers
        => EffectsAreTransfers
  <2> SUFFICES ASSUME Relay!Created, Worker!TypeOK, Worker!EffectOnce, EventsOfTransfers,
                      NEW r \in Requests, effects[Number[r]] # 0
               PROVE  /\ effects[Number[r]] = 1
                      /\ \E i \in Index : Stored(r, i)
    BY DEF EffectsAreTransfers, Stored
  <2>1. Number[r] \in Events BY DEF Events
  <2>2. effects[Number[r]] = 1 /\ Number[r] \in processed BY <2>1 DEF Worker!EffectOnce
  <2>3. Number[r] \in arrived BY <2>2 DEF Worker!TypeOK
  <2>4. status[Number[r]] # "absent" BY <2>3 DEF Relay!Created
  <2> QED BY <2>2, <2>4 DEF EventsOfTransfers
<1> QED BY <1>1, PipelineIsItsParts, Relay!AlwaysCreated, Worker!TypeCorrect,
           Worker!EffectAlwaysOnce, AlwaysEventsOfTransfers, PipelineAssumption, PTL

\* No failure of an outbox worker, a consumer or the database loses the event of
\* a stored transfer, and of the broker's none but a connection that breaks with
\* the unsent message: the relay keeps it until it has arrived, the queues from
\* then on.
THEOREM TransfersNeverLost == Spec => []TransferNeverLost
<1>1. Relay!TypeOK /\ Relay!OnlyUnsentLost /\ Worker!NeverLost /\ EventsOfTransfers
        => TransferNeverLost
  <2> SUFFICES ASSUME Relay!TypeOK, Relay!OnlyUnsentLost, Worker!NeverLost, EventsOfTransfers,
                      NEW r \in outbox, status[Number[r]] # "waiting"
               PROVE  \/ \E w \in Workers : Number[r] \in buffer[w]
                      \/ Number[r] \in unsent
                      \/ \E k \in Copies : id[k] = Number[r]
                      \/ Number[r] \in processed
    BY DEF TransferNeverLost
  <2>1. r \in Requests /\ Number[r] \in Events BY DEF EventsOfTransfers, Events
  <2>2. status[Number[r]] = "published" BY <2>1 DEF EventsOfTransfers, Relay!TypeOK
  <2>3. Number[r] \in arrived \cup unsent \/ \E w \in Workers : Number[r] \in buffer[w]
    BY <2>1, <2>2 DEF Relay!OnlyUnsentLost
  <2> QED BY <2>3 DEF Worker!NeverLost
<1>2. Spec => []Relay!OnlyUnsentLost
  BY PipelineIsItsParts, Relay!NoEventLost, PipelineAssumption
<1> QED BY <1>1, <1>2, PipelineIsItsParts, Relay!TypeCorrect, Worker!MessageNeverLost,
           AlwaysEventsOfTransfers, PipelineAssumption, PTL

-----------------------------------------------------------------------------
(* The promise *)

\* A step stores one transfer, commits the effect of one stored transfer that
\* had none, or changes nothing of Settlement.
LEMMA SettledStep ==
  ASSUME Relay!TypeOK, Relay!Created, Worker!IInv, EventsOfTransfers, [Next]_vars
  PROVE  [Settled!Next]_<<outbox, [r \in Requests |-> effects[Number[r]]]>>
<1> DEFINE effectOf == [r \in Requests |-> effects[Number[r]]]
<1>1. ASSUME NEW r \in Requests, NEW i \in Index, NEW body \in Body, Transfer(r, i, body)
      PROVE  Settled!Store(r)
  <2>1. status[Number[r]] = "absent" /\ outbox' = outbox \cup {r} /\ effects' = effects
    BY <1>1 DEF Transfer, Bank!Transfer, Relay!Create, handling
  <2>2. r \notin outbox BY <2>1 DEF EventsOfTransfers
  <2> QED BY <2>1, <2>2 DEF Settled!Store
<1>2. CASE Handling(Worker!Consume)
  <2>1. outbox' = outbox BY <1>2 DEF Handling, tables
  <2>2. CASE effects' = effects BY <2>1, <2>2
  <2>3. ASSUME NEW e \in arrived, effects[e] = 0, effects' = [effects EXCEPT ![e] = 1]
        PROVE  \E r \in Requests : Settled!Take(r)
    <3>1. e \in Events /\ status[e] # "absent" BY DEF Relay!TypeOK, Relay!Created
    <3>2. PICK r \in Requests : e = Number[r] BY <3>1 DEF Events
    <3>3. r \in outbox BY <3>1, <3>2 DEF EventsOfTransfers
    <3>4. effects \in [Events -> Nat] BY DEF Worker!IInv, Worker!Sound, Worker!Types
    <3>5. effectOf' = [effectOf EXCEPT ![r] = 1]
      <4>1. \A q \in Requests : Number[q] \in Events /\ (Number[q] = e => q = r)
        BY <3>2, PipelineAssumption DEF Events
      <4>2. \A q \in Requests : effects'[Number[q]] = IF q = r THEN 1 ELSE effects[Number[q]]
        BY <2>3, <3>2, <3>4, <4>1
      <4> QED BY <4>2
    <3> QED BY <2>1, <2>3, <3>2, <3>3, <3>5 DEF Settled!Take
  <2> QED BY <1>2, <2>2, <2>3, Worker!ConsumeEffects, PipelineAssumption
          DEF Handling, Settled!Next
<1>3. ASSUME UNCHANGED <<outbox, effects>> PROVE UNCHANGED <<outbox, effectOf>> BY <1>3
<1>4. CASE Banking
  BY <1>3, <1>4 DEF Banking, handling, Bank!TopUp, Bank!SetStatus, Bank!Open
<1>5. CASE Relaying(Relay!Operate) BY <1>3, <1>5 DEF Relaying, tables, handling
<1>6. ASSUME NEW w \in Workers, NEW e \in Events, NEW k \in Copies, Arrive(w, e, k)
      PROVE  UNCHANGED <<outbox, effectOf>>
  BY <1>3, <1>6 DEF Arrive, tables, Worker!Publish
<1>7. CASE UNCHANGED vars BY <1>3, <1>7 DEF vars, tables, handling
<1> QED BY <1>1, <1>2, <1>4, <1>5, <1>6, <1>7 DEF Next, Settled!Next

\* The safety half of the promise, from the transfer's COMMIT to the consumer's:
\* the effect of a transfer is committed once, and after the transfer.
THEOREM RefinesSettlement == Spec => Settled!Safety
<1>1. Init => Settled!Init
  BY DEF Init, Bank!Init, Worker!Init, Settled!Init, Events
<1>2. Relay!TypeOK /\ Relay!Created /\ Worker!IInv /\ EventsOfTransfers /\ [Next]_vars
        => [Settled!Next]_<<outbox, [r \in Requests |-> effects[Number[r]]]>>
  BY SettledStep
<1>3. Spec => []Relay!TypeOK /\ []Relay!Created /\ []Worker!IInv
  BY PipelineIsItsParts, Relay!TypeCorrect, Relay!AlwaysCreated, Worker!AlwaysIInv,
     PipelineAssumption, PTL
<1> QED BY <1>1, <1>2, <1>3, AlwaysEventsOfTransfers, PTL DEF Spec, Settled!Safety
=============================================================================
