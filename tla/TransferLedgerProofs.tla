------------------------ MODULE TransferLedgerProofs ------------------------
(***************************************************************************)
(* Proofs about TransferLedger for every set of accounts, users, keys,     *)
(* requests and commands, every pool size, with and without foreign keys.  *)
(***************************************************************************)
EXTENDS TransferLedger, TLAPS, FiniteSetTheorems, WellFoundedInduction

USE TablesAssumption, LedgerAssumption

Inv == TypeOK /\ LockDiscipline

-----------------------------------------------------------------------------
(* Types *)

Tx == [row: TransferRow \cup {NoTransfer}, delta: [Accounts -> Int],
       entries: SUBSET LedgerRow, events: SUBSET Requests,
       answer: TransferRow \cup {NoTransfer}]

\* The parts of a command have their types.
LEMMA CommandTypes ==
  ASSUME TypeOK, NEW r \in Requests
  PROVE  /\ cmd[r] \in Command
         /\ cmd[r].user \in Users /\ cmd[r].key \in Keys /\ Key(r) \in Index
         /\ cmd[r].src \in Ids /\ cmd[r].dst \in Ids
         /\ cmd[r].src \in Nat /\ cmd[r].dst \in Nat
         /\ Source(r) \in Accounts /\ Target(r) \in Accounts
         /\ cmd[r].amount \in Amounts /\ cmd[r].amount \in Nat \ {0}
         /\ cmd[r].currency \in Currencies
         /\ FirstRow(r) \in Accounts /\ SecondRow(r) \in Accounts
         /\ Payload(r) \in Body
         /\ TransferEntries(r, Payload(r)) \in SUBSET LedgerRow
<1>1. cmd[r] \in Command BY DEF TypeOK
<1>2. /\ cmd[r].user \in Users /\ cmd[r].key \in Keys
      /\ cmd[r].src \in Ids /\ cmd[r].dst \in Ids
      /\ cmd[r].amount \in Amounts /\ cmd[r].currency \in Currencies
  BY <1>1 DEF Command
<1>3. Key(r) \in Index BY <1>2 DEF Key, Index
<1>4. cmd[r].amount \in Nat \ {0} BY <1>2
<1>5. /\ Source(r) \in Accounts /\ Target(r) \in Accounts
      /\ FirstRow(r) \in Accounts /\ SecondRow(r) \in Accounts
  BY <1>2 DEF Source, Target, First, FirstRow, Second, SecondRow
<1>6. Payload(r) \in Body BY <1>2 DEF Payload, Body
<1>7. TransferEntries(r, Payload(r)) \in SUBSET LedgerRow
  BY <1>2, <1>4, <1>5 DEF TransferEntries, Entry, Payload, LedgerRow, Source, Target
<1>8. cmd[r].src \in Nat /\ cmd[r].dst \in Nat BY <1>2
<1> QED BY <1>1, <1>2, <1>3, <1>4, <1>5, <1>6, <1>7, <1>8

\* Changing one account of a delta keeps its type.
LEMMA DeltaType ==
  ASSUME NEW f \in [Accounts -> Int], NEW a \in Accounts, NEW n \in Int
  PROVE  /\ [f EXCEPT ![a] = @ + n] \in [Accounts -> Int]
         /\ [f EXCEPT ![a] = @ - n] \in [Accounts -> Int]
<1>1. f[a] + n \in Int /\ f[a] - n \in Int OBVIOUS
<1> QED BY <1>1

\* NoTx is an empty transaction.
LEMMA NoTxType == NoTx \in Tx
BY DEF NoTx, NoChange, Tx

\* Ending a request keeps every type but those of the tables.
LEMMA FinishTypes ==
  ASSUME TypeOK, NEW r \in Requests, NEW code \in Codes,
         NEW answer \in TransferRow \cup {NoTransfer},
         Finish(r, code, answer),
         accounts' \in [Accounts -> AccountRow],
         transfers' \in [Index -> TransferRow \cup {NoTransfer}],
         ledger' \subseteq LedgerRow, outbox' \subseteq Requests
  PROVE  TypeOK'
<1>1. cmd' \in [Requests -> Commands] BY DEF Finish, TypeOK
<1>2. pc' \in [Requests -> Statements] BY DEF Finish, TypeOK, GoTo, Statements
<1>3. seen' \in [Requests -> AccountRow \cup {NoRow}] BY DEF Finish, TypeOK
<1>4. tx' \in [Requests -> Tx] BY NoTxType DEF Finish, TypeOK, Tx
<1>5. held' \in [Accounts -> Requests \cup {Nobody}] BY DEF Finish, TypeOK
<1>6. shared' \in [Accounts -> SUBSET Requests] BY DEF Finish, TypeOK
<1>7. keyLock' \in [Index -> Requests \cup {Nobody}] BY DEF Finish, TypeOK
<1>8. reply' \in [Requests -> [code: Codes, transfer: TransferRow \cup {NoTransfer}]]
  BY DEF Finish, TypeOK
<1> QED BY <1>1, <1>2, <1>3, <1>4, <1>5, <1>6, <1>7, <1>8 DEF TypeOK, Tx

\* A ROLLBACK keeps every type.
LEMMA RollbackTypes ==
  ASSUME TypeOK, NEW r \in Requests, NEW code \in Codes, Rollback(r, code)
  PROVE  TypeOK'
<1>1. /\ accounts' \in [Accounts -> AccountRow]
      /\ transfers' \in [Index -> TransferRow \cup {NoTransfer}]
      /\ ledger' \subseteq LedgerRow /\ outbox' \subseteq Requests
  BY DEF Rollback, tables, TypeOK
<1> QED BY <1>1, FinishTypes DEF Rollback

\* One private write keeps the types when the value has its field's type.
LEMMA WriteTypes ==
  ASSUME TypeOK, NEW r \in Requests, NEW field \in {"row", "delta", "entries"},
         NEW value, NEW next \in Statements, Write(r, field, value, next),
         [tx[r] EXCEPT ![field] = value] \in Tx
  PROVE  TypeOK'
<1>1. tx' \in [Requests -> Tx] BY DEF Write, TypeOK, Tx
<1>2. pc' \in [Requests -> Statements] BY DEF Write, GoTo, TypeOK
<1> QED BY <1>1, <1>2 DEF Write, TypeOK, Tx, tables, locks

\* The statements of TransfersService.create keep every type.
LEMMA TransferStepTypes ==
  ASSUME Inv, NEW r \in Requests, TransferStep(r)
  PROVE  TypeOK'
<1> TypeOK BY DEF Inv
<1> USE CommandTypes
<1>0. tx[r] \in Tx /\ tx \in [Requests -> Tx] BY DEF TypeOK, Tx
<1>1. CASE Insert(r)
  <2>1. CASE transfers[Key(r)] = NoTransfer
    <3> DEFINE row == [id |-> r, body |-> Payload(r), status |-> "PROCESSING"]
    <3>1. row \in TransferRow BY DEF TransferRow
    <3>2. tx' \in [Requests -> Tx]
      <4>1. tx' = [tx EXCEPT ![r] = [@ EXCEPT !.row = row]] BY <1>1, <2>1 DEF Insert
      <4> HIDE DEF row
      <4>2. [tx[r] EXCEPT !.row = row] \in Tx BY <1>0, <3>1 DEF Tx
      <4> QED BY <1>0, <4>1, <4>2
    <3>3. keyLock' \in [Index -> Requests \cup {Nobody}] BY <1>1, <2>1 DEF Insert, TypeOK
    <3>4. pc' \in [Requests -> Statements] BY <1>1, <2>1 DEF Insert, GoTo, Statements, TypeOK
    <3> QED BY <1>1, <2>1, <3>2, <3>3, <3>4 DEF Insert, TypeOK, Tx, tables
  <2>2. CASE transfers[Key(r)] # NoTransfer
    <3>1. pc' \in [Requests -> Statements] BY <1>1, <2>2 DEF Insert, GoTo, Statements, TypeOK
    <3> QED BY <1>1, <2>2, <3>1 DEF Insert, TypeOK, tables
  <2> QED BY <2>1, <2>2
<1>2. ASSUME NEW s \in Statements, NEW a \in Accounts, NEW next \in Statements,
             ForeignKey(r, s, a, next)
      PROVE  TypeOK'
  <2>1. CASE Rollback(r, "500") BY <2>1, RollbackTypes DEF Codes
  <2>2. CASE /\ KeyShare(r, a) /\ GoTo(r, next)
             /\ UNCHANGED <<tables, cmd, seen, tx, held, keyLock, reply>>
    <3>1. shared' \in [Accounts -> SUBSET Requests] BY <2>2 DEF KeyShare, TypeOK
    <3>2. pc' \in [Requests -> Statements] BY <2>2 DEF GoTo, TypeOK
    <3> QED BY <2>2, <3>1, <3>2 DEF TypeOK, tables
  <2> QED BY <1>2, <2>1, <2>2 DEF ForeignKey
<1>3. CASE CheckForeignKeys(r) BY <1>2, <1>3 DEF CheckForeignKeys, Statements
<1>4. CASE Existing(r)
  <2>1. CASE Rollback(r, "409") BY <2>1, RollbackTypes DEF Codes
  <2>2. CASE /\ keyLock' = [keyLock EXCEPT ![Key(r)] = r]
             /\ tx' = [tx EXCEPT ![r].answer = transfers[Key(r)]]
             /\ GoTo(r, "commit")
             /\ UNCHANGED <<tables, cmd, seen, held, shared, reply>>
    <3>1. tx' \in [Requests -> Tx] BY <1>0, <2>2 DEF Tx, TypeOK
    <3>2. keyLock' \in [Index -> Requests \cup {Nobody}] BY <2>2 DEF TypeOK
    <3>3. pc' \in [Requests -> Statements] BY <2>2 DEF GoTo, Statements, TypeOK
    <3> QED BY <2>2, <3>1, <3>2, <3>3 DEF TypeOK, Tx, tables
  <2> QED BY <1>4, <2>1, <2>2 DEF Existing
<1>5. CASE LockFirst(r)
  <2>1. CASE Rollback(r, "404") BY <2>1, RollbackTypes DEF Codes
  <2>2. CASE /\ ForUpdate(r, FirstRow(r))
             /\ seen' = [seen EXCEPT ![r] = accounts[FirstRow(r)]]
             /\ GoTo(r, "lockSecond")
             /\ UNCHANGED <<tables, cmd, tx, shared, keyLock, reply>>
    <3>1. held' \in [Accounts -> Requests \cup {Nobody}] BY <2>2 DEF ForUpdate, TypeOK
    <3>2. seen' \in [Requests -> AccountRow \cup {NoRow}] BY <2>2 DEF TypeOK
    <3>3. pc' \in [Requests -> Statements] BY <2>2 DEF GoTo, Statements, TypeOK
    <3> QED BY <2>2, <3>1, <3>2, <3>3 DEF TypeOK, tables
  <2> QED BY <1>5, <2>1, <2>2 DEF LockFirst
<1>6. CASE LockSecond(r)
  <2> DEFINE code == Verdict(r, seen[r], accounts[SecondRow(r)])
  <2>1. code \in Codes BY DEF Verdict, Codes
  <2>2. CASE Rollback(r, code) BY <2>1, <2>2, RollbackTypes
  <2>3. CASE /\ ForUpdate(r, SecondRow(r)) /\ GoTo(r, "debit")
             /\ UNCHANGED <<tables, cmd, seen, tx, shared, keyLock, reply>>
    <3>1. held' \in [Accounts -> Requests \cup {Nobody}] BY <2>3 DEF ForUpdate, TypeOK
    <3>2. pc' \in [Requests -> Statements] BY <2>3 DEF GoTo, Statements, TypeOK
    <3> QED BY <2>3, <3>1, <3>2 DEF TypeOK, tables
  <2> QED BY <1>6, <2>2, <2>3 DEF LockSecond
<1>7. CASE Debit(r)
  <2>1. tx[r].delta \in [Accounts -> Int] /\ cmd[r].amount \in Int BY <1>0 DEF Tx
  <2>2. [tx[r].delta EXCEPT ![Source(r)] = @ - cmd[r].amount] \in [Accounts -> Int]
    BY <2>1, DeltaType
  <2> QED BY <1>0, <1>7, <2>2, WriteTypes DEF Debit, Tx, Statements
<1>8. CASE Credit(r)
  <2>1. tx[r].delta \in [Accounts -> Int] /\ cmd[r].amount \in Int BY <1>0 DEF Tx
  <2>2. [tx[r].delta EXCEPT ![Target(r)] = @ + cmd[r].amount] \in [Accounts -> Int]
    BY <2>1, DeltaType
  <2> QED BY <1>0, <1>8, <2>2, WriteTypes DEF Credit, Tx, Statements
<1>9. CASE Entries(r) BY <1>0, <1>9, WriteTypes DEF Entries, Tx, Statements
<1>10. CASE Success(r)
  <2>1. pc[r] = "success" /\ WritesOf(r) BY <1>10 DEF Success, At, Inv, LockDiscipline
  <2>2. tx[r].row = Stored(r, "PROCESSING") BY <2>1 DEF WritesOf, Written
  <2>3. [tx[r].row EXCEPT !.status = "SUCCESS"] \in TransferRow
    BY <2>2 DEF Stored, TransferRow
  <2> QED BY <1>0, <1>10, <2>3, WriteTypes DEF Success, Tx, Statements
<1>11. CASE Event(r)
  <2>1. pc[r] = "event" /\ WritesOf(r) BY <1>11 DEF Event, At, Inv, LockDiscipline
  <2>2. tx[r].row = Stored(r, "SUCCESS") BY <2>1 DEF WritesOf, Written
  <2>3. tx[r].row \in TransferRow /\ tx[r].row.id = r BY <2>2 DEF Stored, TransferRow
  <2>4. tx' \in [Requests -> Tx]
    <3>1. tx' = [tx EXCEPT ![r] = [tx[r] EXCEPT !.events = {r}, !.answer = tx[r].row]]
      BY <1>0, <1>11, <2>3 DEF Event
    <3>2. [tx[r] EXCEPT !.events = {r}, !.answer = tx[r].row] \in Tx
      BY <1>0, <2>3 DEF Tx
    <3> QED BY <1>0, <3>1, <3>2
  <2>5. pc' \in [Requests -> Statements] BY <1>11 DEF Event, GoTo, Statements, TypeOK
  <2> QED BY <1>11, <2>4, <2>5 DEF Event, TypeOK, Tx, tables, locks
<1> QED BY <1>1, <1>3, <1>4, <1>5, <1>6, <1>7, <1>8, <1>9, <1>10, <1>11 DEF TransferStep

-----------------------------------------------------------------------------
(* What a COMMIT does *)

\* A balance change of zero leaves a row as it is.
LEMMA SameRow ==
  ASSUME NEW row \in AccountRow PROVE [row EXCEPT !.balance = @ + 0] = row
BY DEF AccountRow

\* The row a transfer stores is a row.
LEMMA StoredType ==
  ASSUME TypeOK, NEW r \in Requests, NEW status \in {"PROCESSING", "SUCCESS"}
  PROVE  Stored(r, status) \in TransferRow /\ Stored(r, status) # NoTransfer
<1>1. Payload(r) \in Body BY CommandTypes
<1>2. Stored(r, status) \in TransferRow BY <1>1 DEF Stored, TransferRow
<1> QED BY <1>2

\* The COMMIT of a request is, on the tables, one operation of Bank or, when
\* it returns a stored result, nothing.
LEMMA CommitEffect ==
  ASSUME Inv, NEW r \in Requests, Commit(r)
  PROVE  \/ cmd[r].op = "topup" /\ Bank!TopUp(r, Target(r), cmd[r].amount)
         \/ /\ cmd[r].op = "transfer" /\ tx[r].row # NoTransfer
            /\ Bank!Transfer(r, cmd[r].user, cmd[r].key, Payload(r))
         \/ cmd[r].op = "transfer" /\ tx[r].row = NoTransfer /\ UNCHANGED tables
<1> TypeOK BY DEF Inv
<1>0. /\ Source(r) \in Accounts /\ Target(r) \in Accounts
      /\ cmd[r].amount \in Nat /\ Key(r) \in Index
  BY CommandTypes
<1>1. pc[r] = "commit" BY DEF Commit, At
<1>2. /\ RightOperation(r) /\ OwnsKey(r) /\ ReadsStand(r) /\ WritesOf(r)
      /\ Untraced(r)
  BY <1>1 DEF Inv, LockDiscipline
<1>3. /\ accounts \in [Accounts -> AccountRow]
      /\ accounts' = [a \in Accounts |->
                        [accounts[a] EXCEPT !.balance = @ + tx[r].delta[a]]]
  BY DEF Commit, TypeOK
<1>4. Bank!Fresh(r) BY <1>2 DEF Untraced, Bank!Fresh
<1>5. CASE cmd[r].op = "topup"
  <2>1. /\ Written(r, NoTransfer, Paid(r), {TopUpRow(r)}, {}, NoTransfer)
        /\ accounts[Target(r)].status = "ACTIVE"
    BY <1>1, <1>2, <1>5 DEF WritesOf, ReadsStand
  <2>2. accounts' = [accounts EXCEPT ![Target(r)].balance = @ + cmd[r].amount]
    <3>1. \A a \in Accounts : tx[r].delta[a] = IF a = Target(r) THEN cmd[r].amount ELSE 0
      <4>1. tx[r].delta = Paid(r) BY <2>1 DEF Written
      <4>2. \A a \in Accounts : NoChange[a] = 0 BY DEF NoChange
      <4>3. \A a \in Accounts : Paid(r)[a] = IF a = Target(r) THEN 0 + cmd[r].amount ELSE 0
        BY <1>0, <4>2 DEF Paid, NoChange
      <4> QED BY <1>0, <4>1, <4>3
    <3>2. \A a \in Accounts \ {Target(r)} : accounts'[a] = accounts[a]
      BY <1>3, <3>1, SameRow
    <3>3. accounts'[Target(r)] = [accounts[Target(r)] EXCEPT !.balance = @ + cmd[r].amount]
      BY <1>0, <1>3, <3>1
    <3> QED BY <1>0, <1>3, <3>2, <3>3
  <2>3. ledger' = ledger \cup {TopUpRow(r)} /\ UNCHANGED <<transfers, outbox>>
    BY <2>1 DEF Commit, Written
  <2> QED BY <1>4, <1>5, <2>1, <2>2, <2>3 DEF Bank!TopUp, TopUpRow, Bank!Entry, Entry
<1>6. CASE cmd[r].op = "transfer" /\ tx[r].row = NoTransfer
  <2>1. Written(r, NoTransfer, NoChange, {}, {}, transfers[Key(r)])
    <3>1. Stored(r, "SUCCESS") # NoTransfer BY StoredType
    <3>2. \A delta, rows, events, answer :
            ~ Written(r, Stored(r, "SUCCESS"), delta, rows, events, answer)
      BY <1>6, <3>1 DEF Written
    <3> QED BY <1>1, <1>2, <1>6, <3>2 DEF WritesOf
  <2>2. accounts' = accounts
    <3>1. \A a \in Accounts : tx[r].delta[a] = 0 BY <2>1 DEF Written, NoChange
    <3> QED BY <1>3, <3>1, SameRow
  <2>3. UNCHANGED <<transfers, ledger, outbox>> BY <2>1 DEF Commit, Written
  <2> QED BY <1>6, <2>2, <2>3 DEF tables
<1>7. CASE cmd[r].op = "transfer" /\ tx[r].row # NoTransfer
  <2> DEFINE settled == Stored(r, "SUCCESS")
  <2>0. Written(r, settled, Moved(r), TransferEntries(r, Payload(r)), {r}, settled)
    BY <1>1, <1>2, <1>7 DEF WritesOf, Written
  <2>1. /\ Written(r, settled, Moved(r), TransferEntries(r, Payload(r)), {r}, settled)
        /\ Settling(r) /\ HasInserted(r) /\ HasChecked(r)
    BY <1>1, <1>2, <1>7, <2>0 DEF Settling, HasInserted, HasChecked
  <2>2. transfers[Key(r)] = NoTransfer /\ Bank!MayTransfer(cmd[r].user, Payload(r))
    BY <1>2, <2>1 DEF OwnsKey, ReadsStand
  <2>3. accounts' = [a \in Accounts |->
                       [accounts[a] EXCEPT !.balance = @ + Bank!Change(Payload(r), a)]]
    <3>1. \A a \in Accounts : tx[r].delta[a] = Bank!Change(Payload(r), a)
      <4>1. tx[r].delta = Moved(r) BY <2>1 DEF Written
      <4>2. \A a \in Accounts : NoChange[a] = 0 BY DEF NoChange
      <4>3. \A a \in Accounts : Debited(r)[a] = IF a = Source(r) THEN 0 - cmd[r].amount ELSE 0
        BY <1>0, <4>2 DEF Debited, NoChange
      <4>4. \A a \in Accounts : Moved(r)[a] = IF a = Target(r)
                                            THEN Debited(r)[a] + cmd[r].amount
                                            ELSE Debited(r)[a]
        BY <1>0 DEF Moved, Debited, NoChange
      <4>5. \A a \in Accounts :
              Bank!Change(Payload(r), a) = (IF a = Target(r) THEN cmd[r].amount ELSE 0)
                                           - (IF a = Source(r) THEN cmd[r].amount ELSE 0)
        BY DEF Bank!Change, Payload, Source, Target
      <4> QED BY <1>0, <4>1, <4>3, <4>4, <4>5
    <3> QED BY <1>3, <3>1
  <2>4. /\ transfers' = [transfers EXCEPT ![Key(r)] = settled]
        /\ ledger' = ledger \cup TransferEntries(r, Payload(r))
        /\ outbox' = outbox \cup {r}
    BY <2>1, <1>7 DEF Commit, Written
  <2>5. Bank!Transfer(r, cmd[r].user, cmd[r].key, Payload(r))
    <3>1. Bank!TransferEntries(r, Payload(r)) = TransferEntries(r, Payload(r))
      BY DEF Bank!TransferEntries, TransferEntries, Bank!Entry, Entry
    <3> QED BY <1>4, <2>2, <2>3, <2>4, <3>1 DEF Bank!Transfer, Key, Stored
  <2> QED BY <1>7, <2>5
<1> QED BY <1>1, <1>2, <1>5, <1>6, <1>7 DEF RightOperation

\* What a transfer does to the row of each account, also where the two ids of
\* the request are spellings of one account.
LEMMA TransferMoves ==
  ASSUME TypeOK, NEW r \in Requests,
         Bank!Transfer(r, cmd[r].user, cmd[r].key, Payload(r))
  PROVE  /\ accounts' \in [Accounts -> AccountRow]
         /\ \A a \in Accounts :
              /\ accounts'[a].balance
                   = accounts[a].balance + ((IF a = Target(r) THEN cmd[r].amount ELSE 0)
                                            - (IF a = Source(r) THEN cmd[r].amount ELSE 0))
              /\ accounts'[a].status = accounts[a].status
              /\ accounts'[a].owner = accounts[a].owner
              /\ accounts'[a].currency = accounts[a].currency
              /\ a \notin {Source(r), Target(r)} => accounts'[a] = accounts[a]
         /\ \A a \in {Source(r), Target(r)} :
              accounts[a].status = "ACTIVE" /\ accounts[a].currency = cmd[r].currency
<1> DEFINE change(a) == (IF a = Target(r) THEN cmd[r].amount ELSE 0)
                          - (IF a = Source(r) THEN cmd[r].amount ELSE 0)
<1>0. cmd[r].amount \in Nat BY CommandTypes
<1>1. /\ RowOf[Payload(r).src] = Source(r) /\ RowOf[Payload(r).dst] = Target(r)
      /\ Payload(r).amount = cmd[r].amount /\ Payload(r).currency = cmd[r].currency
  BY DEF Payload, Source, Target
<1>2. accounts' = [a \in Accounts |-> [accounts[a] EXCEPT !.balance = @ + change(a)]]
  BY <1>1 DEF Bank!Transfer, Bank!Change
<1>3. \A a \in {Source(r), Target(r)} :
        accounts[a].status = "ACTIVE" /\ accounts[a].currency = cmd[r].currency
  BY <1>1 DEF Bank!Transfer, Bank!MayTransfer
<1>4. \A a \in Accounts : /\ change(a) \in Int
                          /\ a \notin {Source(r), Target(r)} => change(a) = 0
  BY <1>0
<1>5. \A a \in Accounts : accounts[a] \in AccountRow BY DEF TypeOK
<1> HIDE DEF change
<1>6. accounts' \in [Accounts -> AccountRow] BY <1>2, <1>4, <1>5 DEF AccountRow
<1>7. \A a \in Accounts : /\ accounts'[a].balance = accounts[a].balance + change(a)
                          /\ accounts'[a].status = accounts[a].status
                          /\ accounts'[a].owner = accounts[a].owner
                          /\ accounts'[a].currency = accounts[a].currency
  BY <1>2, <1>5 DEF AccountRow
<1>8. \A a \in Accounts : a \notin {Source(r), Target(r)} => accounts'[a] = accounts[a]
  BY <1>2, <1>4, <1>5, SameRow
<1> QED BY <1>3, <1>6, <1>7, <1>8 DEF change

\* A COMMIT keeps every type.
LEMMA CommitTypes ==
  ASSUME Inv, NEW r \in Requests, Commit(r)
  PROVE  TypeOK'
<1> TypeOK BY DEF Inv
<1>0. /\ Source(r) \in Accounts /\ Target(r) \in Accounts
      /\ cmd[r].amount \in Nat \ {0} /\ Key(r) \in Index /\ Payload(r) \in Body
      /\ TransferEntries(r, Payload(r)) \in SUBSET LedgerRow
  BY CommandTypes
<1>1. /\ accounts \in [Accounts -> AccountRow] /\ tx[r] \in Tx
      /\ transfers \in [Index -> TransferRow \cup {NoTransfer}]
      /\ ledger \subseteq LedgerRow /\ outbox \subseteq Requests
  BY DEF TypeOK, Tx
<1>2. accounts' \in [Accounts -> AccountRow]
  <2>1. CASE Bank!TopUp(r, Target(r), cmd[r].amount)
    <3>1. [accounts[Target(r)] EXCEPT !.balance = @ + cmd[r].amount] \in AccountRow
      BY <1>0, <1>1 DEF AccountRow
    <3> QED BY <1>0, <1>1, <2>1, <3>1 DEF Bank!TopUp
  <2>2. CASE Bank!Transfer(r, cmd[r].user, cmd[r].key, Payload(r)) BY <2>2, TransferMoves
  <2>3. CASE UNCHANGED tables BY <1>1, <2>3 DEF tables
  <2> QED BY <2>1, <2>2, <2>3, CommitEffect
<1>3. transfers' \in [Index -> TransferRow \cup {NoTransfer}]
  BY <1>0, <1>1 DEF Commit, Tx
<1>4. ledger' \subseteq LedgerRow /\ outbox' \subseteq Requests
  BY <1>1 DEF Commit, Tx
<1>5. tx[r].answer \in TransferRow \cup {NoTransfer} BY <1>1 DEF Tx
<1> QED BY <1>2, <1>3, <1>4, <1>5, FinishTypes DEF Commit, Codes

\* The statements of AccountsService keep every type.
LEMMA AccountStepTypes ==
  ASSUME Inv, NEW r \in Requests, AccountStep(r)
  PROVE  TypeOK'
<1> TypeOK BY DEF Inv
<1>0. /\ Target(r) \in Accounts /\ cmd[r].amount \in Nat \ {0} /\ cmd[r].amount \in Int
      /\ cmd[r].user \in Users /\ cmd[r].currency \in Currencies
  BY CommandTypes
<1>1. /\ accounts \in [Accounts -> AccountRow] /\ tx[r] \in Tx
      /\ transfers \in [Index -> TransferRow \cup {NoTransfer}]
      /\ ledger \subseteq LedgerRow /\ outbox \subseteq Requests
  BY DEF TypeOK, Tx
<1>2. CASE TopUpLock(r)
  <2>1. CASE \E code \in {"404", "400"} : Rollback(r, code)
    BY <2>1, RollbackTypes DEF Codes
  <2>2. CASE /\ ForUpdate(r, Target(r))
             /\ seen' = [seen EXCEPT ![r] = accounts[Target(r)]]
             /\ GoTo(r, "topupUpdate")
             /\ UNCHANGED <<tables, cmd, tx, shared, keyLock, reply>>
    <3>1. held' \in [Accounts -> Requests \cup {Nobody}] BY <1>0, <2>2 DEF ForUpdate, TypeOK
    <3>2. seen' \in [Requests -> AccountRow \cup {NoRow}] BY <1>0, <2>2 DEF TypeOK
    <3>3. pc' \in [Requests -> Statements] BY <2>2 DEF GoTo, Statements, TypeOK
    <3> QED BY <2>2, <3>1, <3>2, <3>3 DEF TypeOK, tables
  <2>3. accounts[Target(r)].status \in {"ABSENT", "ACTIVE", "LOCKED"}
    BY <1>0, <1>1 DEF AccountRow
  <2> QED BY <1>2, <2>1, <2>2, <2>3 DEF TopUpLock
<1>3. CASE TopUpUpdate(r)
  <2>1. tx[r].delta \in [Accounts -> Int] BY <1>1 DEF Tx
  <2>2. [tx[r].delta EXCEPT ![Target(r)] = @ + cmd[r].amount] \in [Accounts -> Int]
    BY <1>0, <2>1, DeltaType
  <2> QED BY <1>1, <1>3, <2>2, WriteTypes DEF TopUpUpdate, Tx, Statements
<1>4. CASE TopUpEntry(r)
  <2>1. pc[r] = "topupEntry" /\ ReadsStand(r) BY <1>4 DEF TopUpEntry, At, Inv, LockDiscipline
  <2>2. seen[r].currency \in Currencies BY <1>0, <1>1, <2>1 DEF ReadsStand, AccountRow
  <2>3. {Entry(r, "TOPUP", Target(r), "CREDIT", cmd[r].amount, seen[r].currency)}
          \in SUBSET LedgerRow
    BY <1>0, <2>2 DEF Entry, LedgerRow
  <2> QED BY <1>1, <1>4, <2>3, WriteTypes DEF TopUpEntry, Tx, Statements
<1>5. ASSUME NEW row \in AccountRow, Autocommit(r),
             accounts' = [accounts EXCEPT ![Target(r)] = row],
             UNCHANGED <<transfers, ledger, outbox>>
      PROVE  TypeOK'
  <2>1. accounts' \in [Accounts -> AccountRow] BY <1>1, <1>5
  <2>2. transfers' = transfers /\ ledger' = ledger /\ outbox' = outbox BY <1>5
  <2>3. PICK code \in {"ok", "500"} : Finish(r, code, NoTransfer)
    BY <1>5 DEF Autocommit
  <2>4. code \in Codes BY DEF Codes
  <2> QED BY <1>1, <2>1, <2>2, <2>3, <2>4, FinishTypes
<1>6. CASE UpdateStatus(r)
  <2>1. CASE Rollback(r, "404") BY <2>1, RollbackTypes DEF Codes
  <2>2. \A status \in {"LOCKED", "ACTIVE"} :
          [accounts[Target(r)] EXCEPT !.status = status] \in AccountRow
    BY <1>0, <1>1 DEF AccountRow
  <2> QED BY <1>1, <1>5, <1>6, <2>1, <2>2 DEF UpdateStatus
<1>7. CASE InsertAccount(r)
  <2>1. CASE Rollback(r, "400") BY <2>1, RollbackTypes DEF Codes
  <2>2. [status |-> "ACTIVE", balance |-> 0, owner |-> cmd[r].user,
         currency |-> cmd[r].currency] \in AccountRow
    BY <1>0 DEF AccountRow
  <2> QED BY <1>5, <1>7, <2>1, <2>2 DEF InsertAccount
<1> QED BY <1>2, <1>3, <1>4, <1>6, <1>7 DEF AccountStep

\* Every step keeps the types.
LEMMA NextTypes ==
  ASSUME Inv, [Next]_vars
  PROVE  TypeOK'
<1> TypeOK BY DEF Inv
<1>1. ASSUME NEW r \in Requests, Step(r) \/ Fail(r) \/ DeadlockVictim(r)
      PROVE  TypeOK'
  <2>1. CASE \E code \in {"400", "403", "500", "40P01"} : Rollback(r, code)
    BY <2>1, RollbackTypes DEF Codes
  <2>2. CASE Begin(r)
    <3>1. Start(cmd[r].op) \in Statements BY DEF Start, Statements
    <3>2. CASE /\ GoTo(r, Start(cmd[r].op))
               /\ UNCHANGED <<tables, cmd, seen, tx, locks, reply>>
      <4>1. pc' \in [Requests -> Statements] BY <3>1, <3>2 DEF GoTo, TypeOK
      <4> QED BY <3>2, <4>1 DEF TypeOK, tables, locks
    <3> QED BY <2>1, <2>2, <3>2 DEF Begin
  <2>3. CASE TransferStep(r) BY <2>3, TransferStepTypes
  <2>4. CASE AccountStep(r) BY <2>4, AccountStepTypes
  <2>5. CASE Commit(r) BY <2>5, CommitTypes
  <2> QED BY <1>1, <2>1, <2>2, <2>3, <2>4, <2>5 DEF Step, Forbid, Fail, DeadlockVictim
<1>2. CASE UNCHANGED vars BY <1>2 DEF vars, tables, locks, TypeOK
<1> QED BY <1>1, <1>2 DEF Next, Terminated

-----------------------------------------------------------------------------
(* What a step of r leaves alone *)

\* Nothing the other requests have read, written or locked changes ...
OthersKept(r) ==
  /\ cmd' = cmd
  /\ \A q \in Requests \ {r} :
       /\ pc'[q] = pc[q] /\ seen'[q] = seen[q] /\ tx'[q] = tx[q] /\ reply'[q] = reply[q]
       /\ \A a \in Accounts : held[a] = q => held'[a] = q
       /\ \A i \in Index : keyLock[i] = q => keyLock'[i] = q

\* ... and neither do the rows they hold, a stored transfer, or what is
\* recorded under their names.
RowsKept(r) ==
  /\ \A q \in Requests \ {r} :
       /\ \A a \in Accounts : held[a] = q => accounts'[a] = accounts[a]
       /\ \A i \in Index : keyLock[i] = q => transfers'[i] = transfers[i]
       /\ q \notin outbox => q \notin outbox'
       /\ (\A e \in ledger : e.by # q) => (\A e \in ledger' : e.by # q)
  /\ \A i \in Index : /\ transfers[i] # NoTransfer => transfers'[i] = transfers[i]
                      /\ transfers'[i] = transfers[i] \/ transfers'[i].id = r

\* Ending a request leaves the others alone.
LEMMA FinishKeeps ==
  ASSUME TypeOK, NEW r \in Requests, NEW code, NEW answer, Finish(r, code, answer)
  PROVE  OthersKept(r)
BY DEF Finish, GoTo, OthersKept, TypeOK

\* A private write leaves the others alone.
LEMMA WriteKeeps ==
  ASSUME TypeOK, NEW r \in Requests, NEW field, NEW value, NEW next,
         Write(r, field, value, next)
  PROVE  OthersKept(r)
BY DEF Write, GoTo, OthersKept, TypeOK, locks

\* A statement that need not wait finds the row free or its own.
LEMMA FreeRow ==
  ASSUME TypeOK, NEW r \in Requests, NEW s, At(r, s)
  PROVE  /\ s = "insert" /\ transfers[Key(r)] = NoTransfer => keyLock[Key(r)] \in {r, Nobody}
         /\ s = "existing" => keyLock[Key(r)] \in {r, Nobody}
         /\ s = "lockFirst" => held[FirstRow(r)] \in {r, Nobody}
         /\ s = "lockSecond" => held[SecondRow(r)] \in {r, Nobody}
         /\ s \in {"topupLock", "setStatus"} => held[Target(r)] \in {r, Nobody}
BY DEF At, Blockers

\* Locking a row that is free leaves the others alone.
LEMMA LockKeeps ==
  ASSUME TypeOK, NEW r \in Requests, NEW a \in Accounts, held[a] \in {r, Nobody},
         ForUpdate(r, a), NEW next, GoTo(r, next),
         UNCHANGED <<cmd, tx, keyLock, reply>>,
         \A q \in Requests \ {r} : seen'[q] = seen[q]
  PROVE  OthersKept(r)
BY DEF ForUpdate, GoTo, OthersKept, TypeOK

\* No step touches what another request has read, written or locked.
LEMMA StepKeepsOthers ==
  ASSUME TypeOK, NEW r \in Requests, Step(r) \/ Fail(r) \/ DeadlockVictim(r)
  PROVE  OthersKept(r)
<1>0. /\ Key(r) \in Index /\ FirstRow(r) \in Accounts /\ SecondRow(r) \in Accounts
      /\ Target(r) \in Accounts
  BY CommandTypes
<1>1. ASSUME NEW code, Rollback(r, code) PROVE OthersKept(r)
  BY <1>1, FinishKeeps DEF Rollback
<1>2. CASE Forbid(r) \/ Fail(r) \/ DeadlockVictim(r)
  BY <1>1, <1>2 DEF Forbid, Fail, DeadlockVictim
<1>3. CASE Begin(r)
  <2>1. CASE GoTo(r, Start(cmd[r].op)) /\ UNCHANGED <<tables, cmd, seen, tx, locks, reply>>
    BY <2>1 DEF GoTo, OthersKept, TypeOK, locks
  <2> QED BY <1>1, <1>3, <2>1 DEF Begin
<1>4. CASE Insert(r)
  <2>1. CASE transfers[Key(r)] = NoTransfer
    <3>1. keyLock[Key(r)] \in {r, Nobody} BY <1>4, <2>1, FreeRow DEF Insert
    <3> QED BY <1>0, <1>4, <2>1, <3>1 DEF Insert, GoTo, OthersKept, TypeOK
  <2>2. CASE transfers[Key(r)] # NoTransfer
    BY <1>4, <2>2 DEF Insert, GoTo, OthersKept, TypeOK
  <2> QED BY <2>1, <2>2
<1>5. CASE CheckForeignKeys(r)
  <2>1. ASSUME NEW s, NEW a, NEW next, ForeignKey(r, s, a, next) PROVE OthersKept(r)
    <3>1. CASE KeyShare(r, a) /\ GoTo(r, next)
               /\ UNCHANGED <<tables, cmd, seen, tx, held, keyLock, reply>>
      BY <3>1 DEF KeyShare, GoTo, OthersKept, TypeOK
    <3> QED BY <1>1, <2>1, <3>1 DEF ForeignKey
  <2> QED BY <1>5, <2>1 DEF CheckForeignKeys
<1>6. CASE Existing(r)
  <2>1. CASE /\ keyLock' = [keyLock EXCEPT ![Key(r)] = r]
             /\ tx' = [tx EXCEPT ![r].answer = transfers[Key(r)]]
             /\ GoTo(r, "commit")
             /\ UNCHANGED <<tables, cmd, seen, held, shared, reply>>
    <3>1. keyLock[Key(r)] \in {r, Nobody} BY <1>6, FreeRow DEF Existing
    <3> QED BY <1>0, <2>1, <3>1 DEF GoTo, OthersKept, TypeOK
  <2> QED BY <1>1, <1>6, <2>1 DEF Existing
<1>7. CASE LockFirst(r)
  <2>1. held[FirstRow(r)] \in {r, Nobody} BY <1>7, FreeRow DEF LockFirst
  <2>2. CASE /\ ForUpdate(r, FirstRow(r))
             /\ seen' = [seen EXCEPT ![r] = accounts[FirstRow(r)]]
             /\ GoTo(r, "lockSecond")
             /\ UNCHANGED <<tables, cmd, tx, shared, keyLock, reply>>
    <3>1. \A q \in Requests \ {r} : seen'[q] = seen[q] BY <2>2 DEF TypeOK
    <3> QED BY <1>0, <2>1, <2>2, <3>1, LockKeeps
  <2> QED BY <1>1, <1>7, <2>2 DEF LockFirst
<1>8. CASE LockSecond(r)
  <2>1. held[SecondRow(r)] \in {r, Nobody} BY <1>8, FreeRow DEF LockSecond
  <2>2. CASE /\ ForUpdate(r, SecondRow(r)) /\ GoTo(r, "debit")
             /\ UNCHANGED <<tables, cmd, seen, tx, shared, keyLock, reply>>
    BY <1>0, <2>1, <2>2, LockKeeps
  <2> QED BY <1>1, <1>8, <2>2 DEF LockSecond
<1>9. CASE Debit(r) \/ Credit(r) \/ Entries(r) \/ Success(r) \/ TopUpUpdate(r) \/ TopUpEntry(r)
  BY <1>9, WriteKeeps DEF Debit, Credit, Entries, Success, TopUpUpdate, TopUpEntry
<1>10. CASE Event(r) BY <1>10 DEF Event, GoTo, OthersKept, TypeOK, locks
<1>11. CASE TopUpLock(r)
  <2>1. held[Target(r)] \in {r, Nobody} BY <1>11, FreeRow DEF TopUpLock
  <2>2. CASE /\ ForUpdate(r, Target(r))
             /\ seen' = [seen EXCEPT ![r] = accounts[Target(r)]]
             /\ GoTo(r, "topupUpdate")
             /\ UNCHANGED <<tables, cmd, tx, shared, keyLock, reply>>
    <3>1. \A q \in Requests \ {r} : seen'[q] = seen[q] BY <2>2 DEF TypeOK
    <3> QED BY <1>0, <2>1, <2>2, <3>1, LockKeeps
  <2>3. accounts[Target(r)].status \in {"ABSENT", "ACTIVE", "LOCKED"}
    BY <1>0 DEF TypeOK, AccountRow
  <2> QED BY <1>1, <1>11, <2>2, <2>3 DEF TopUpLock
<1>12. CASE UpdateStatus(r) \/ InsertAccount(r)
  BY <1>1, <1>12, FinishKeeps DEF UpdateStatus, InsertAccount, Autocommit
<1>13. CASE Commit(r) BY <1>13, FinishKeeps DEF Commit
<1> QED BY <1>2, <1>3, <1>4, <1>5, <1>6, <1>7, <1>8, <1>9, <1>10, <1>11, <1>12, <1>13
        DEF Step, TransferStep, AccountStep

\* Only three statements change a committed table.
LEMMA TablesChange ==
  ASSUME NEW r \in Requests, Step(r) \/ Fail(r) \/ DeadlockVictim(r),
         ~ UNCHANGED tables, TypeOK
  PROVE  \/ Commit(r)
         \/ /\ UpdateStatus(r) /\ accounts[Target(r)].status # "ABSENT"
            /\ \E status \in {"ACTIVE", "LOCKED"} :
                 accounts' = [accounts EXCEPT ![Target(r)].status = status]
            /\ UNCHANGED <<transfers, ledger, outbox>>
         \/ /\ InsertAccount(r) /\ accounts[Target(r)].status = "ABSENT"
            /\ accounts' = [accounts EXCEPT ![Target(r)] =
                              [status |-> "ACTIVE", balance |-> 0,
                               owner |-> cmd[r].user, currency |-> cmd[r].currency]]
            /\ UNCHANGED <<transfers, ledger, outbox>>
<1>1. \A code : ~ Rollback(r, code) BY DEF Rollback
<1>2. \A field, value, next : ~ Write(r, field, value, next) BY DEF Write
<1>3. ~ (Forbid(r) \/ Begin(r) \/ Fail(r) \/ DeadlockVictim(r))
  BY <1>1 DEF Forbid, Begin, Fail, DeadlockVictim
<1>4. ~ (Insert(r) \/ CheckForeignKeys(r) \/ Existing(r) \/ LockFirst(r) \/ LockSecond(r))
  BY <1>1 DEF Insert, CheckForeignKeys, ForeignKey, Existing, LockFirst, LockSecond, tables
<1>5. ~ (Debit(r) \/ Credit(r) \/ Entries(r) \/ Success(r) \/ Event(r))
  BY <1>2 DEF Debit, Credit, Entries, Success, Event, tables
<1>6. ~ TopUpLock(r)
  <2>1. Target(r) \in Accounts BY CommandTypes
  <2>2. accounts[Target(r)].status \in {"ABSENT", "ACTIVE", "LOCKED"}
    BY <2>1 DEF TypeOK, AccountRow
  <2> QED BY <1>1, <2>2 DEF TopUpLock, tables
<1>7. ~ (TopUpUpdate(r) \/ TopUpEntry(r)) BY <1>2 DEF TopUpUpdate, TopUpEntry
<1>8. CASE UpdateStatus(r) BY <1>1, <1>8 DEF UpdateStatus
<1>9. CASE InsertAccount(r) BY <1>1, <1>9 DEF InsertAccount
<1> QED BY <1>3, <1>4, <1>5, <1>6, <1>7, <1>8, <1>9 DEF Step, TransferStep, AccountStep

\* No step changes a row that another request holds.
LEMMA StepKeepsRows ==
  ASSUME Inv, NEW r \in Requests, Step(r) \/ Fail(r) \/ DeadlockVictim(r)
  PROVE  RowsKept(r)
<1> TypeOK BY DEF Inv
<1>0. /\ Key(r) \in Index /\ Target(r) \in Accounts
      /\ Source(r) \in Accounts /\ Target(r) \in Accounts
  BY CommandTypes
<1>1. CASE UNCHANGED tables BY <1>1 DEF tables, RowsKept
<1>2. ASSUME NEW a \in Accounts, NEW row,
             accounts' = [accounts EXCEPT ![a] = row], held[a] \in {r, Nobody},
             UNCHANGED <<transfers, ledger, outbox>>
      PROVE  RowsKept(r)
  BY <1>2 DEF RowsKept, TypeOK
<1>3. CASE UpdateStatus(r) /\ ~ UNCHANGED tables
  <2>1. held[Target(r)] \in {r, Nobody} BY <1>3, FreeRow DEF UpdateStatus
  <2>2. \A a \in Accounts \ {Target(r)} : accounts'[a] = accounts[a]
    BY <1>3, TablesChange DEF UpdateStatus, Rollback, TypeOK
  <2>3. UNCHANGED <<transfers, ledger, outbox>>
    BY <1>3 DEF UpdateStatus, Rollback
  <2> QED BY <2>1, <2>2, <2>3 DEF RowsKept
<1>4. CASE InsertAccount(r) /\ ~ UNCHANGED tables
  <2>1. /\ accounts[Target(r)].status = "ABSENT"
        /\ \A a \in Accounts \ {Target(r)} : accounts'[a] = accounts[a]
        /\ UNCHANGED <<transfers, ledger, outbox>>
    BY <1>4 DEF InsertAccount, Rollback, TypeOK
  <2>2. held[Target(r)] = Nobody BY <1>0, <2>1 DEF Inv, LockDiscipline
  <2> QED BY <2>1, <2>2 DEF RowsKept
<1>5. CASE Commit(r)
  <2>0. /\ pc[r] = "commit" /\ OwnsKey(r) /\ ReadsStand(r)
    BY <1>5 DEF Commit, At, Inv, LockDiscipline
  <2>1. CASE cmd[r].op = "topup" /\ Bank!TopUp(r, Target(r), cmd[r].amount)
    <3>1. held[Target(r)] = r BY <2>0, <2>1 DEF ReadsStand
    <3>2. \A a \in Accounts \ {Target(r)} : accounts'[a] = accounts[a]
      BY <2>1 DEF Bank!TopUp, TypeOK
    <3>3. \A e \in ledger' : e \in ledger \/ e.by = r BY <2>1 DEF Bank!TopUp, Bank!Entry
    <3>4. UNCHANGED <<transfers, outbox>> BY <2>1 DEF Bank!TopUp
    <3> QED BY <3>1, <3>2, <3>3, <3>4 DEF RowsKept
  <2>2. CASE /\ tx[r].row # NoTransfer
             /\ Bank!Transfer(r, cmd[r].user, cmd[r].key, Payload(r))
    <3>1. /\ held[Source(r)] = r /\ held[Target(r)] = r
          /\ keyLock[Key(r)] = r /\ transfers[Key(r)] = NoTransfer
      BY <2>0, <2>2 DEF OwnsKey, ReadsStand, HasInserted, HasChecked, Settling
    <3>2. \A a \in Accounts \ {Source(r), Target(r)} : accounts'[a] = accounts[a]
      BY <2>2, TransferMoves
    <3>3. \A e \in ledger' : e \in ledger \/ e.by = r
      BY <2>2 DEF Bank!Transfer, Bank!TransferEntries, Bank!Entry
    <3>4. /\ \A i \in Index \ {Key(r)} : transfers'[i] = transfers[i]
          /\ transfers'[Key(r)].id = r /\ outbox' = outbox \cup {r}
      BY <1>0, <2>2 DEF Bank!Transfer, Key, TypeOK
    <3> QED BY <3>1, <3>2, <3>3, <3>4 DEF RowsKept
  <2> QED BY <1>1, <1>5, <2>1, <2>2, CommitEffect
<1> QED BY <1>1, <1>3, <1>4, <1>5, TablesChange

-----------------------------------------------------------------------------
(* The lock discipline is inductive *)

Disciplined(r) ==
  /\ RightOperation(r) /\ OwnsKey(r) /\ ReadsStand(r) /\ WritesOf(r)
  /\ pc[r] # "done" => Untraced(r)

\* A step of r does not disturb the discipline of another request.
LEMMA OthersDisciplined ==
  ASSUME Inv, NEW r, OthersKept(r), RowsKept(r), NEW q \in Requests \ {r}
  PROVE  Disciplined(q)'
<1> TypeOK BY DEF Inv
<1> /\ Disciplined(q) BY DEF Inv, LockDiscipline, Disciplined
<1>0. /\ Key(q) \in Index /\ FirstRow(q) \in Accounts /\ Target(q) \in Accounts
      /\ Source(q) \in Accounts /\ Target(q) \in Accounts
  BY CommandTypes
<1>1. /\ cmd' = cmd /\ pc'[q] = pc[q] /\ seen'[q] = seen[q] /\ tx'[q] = tx[q]
      /\ \A a \in Accounts : held[a] = q => held'[a] = q /\ accounts'[a] = accounts[a]
      /\ \A i \in Index : keyLock[i] = q => keyLock'[i] = q /\ transfers'[i] = transfers[i]
      /\ \A i \in Index : transfers[i] # NoTransfer => transfers'[i] = transfers[i]
  BY DEF OthersKept, RowsKept
<1>2. /\ Key(q)' = Key(q) /\ FirstRow(q)' = FirstRow(q)
      /\ Source(q)' = Source(q) /\ Target(q)' = Target(q)
      /\ Payload(q)' = Payload(q)
      /\ HasInserted(q)' = HasInserted(q) /\ HasChecked(q)' = HasChecked(q)
  BY <1>1 DEF Key, First, FirstRow, Source, Target, Payload, HasInserted, HasChecked, Settling
<1>3. RightOperation(q)' BY <1>1 DEF Disciplined, RightOperation
<1>4. OwnsKey(q)' BY <1>0, <1>1, <1>2 DEF Disciplined, OwnsKey
<1>5. ReadsStand(q)'
  <2>1. pc[q] = "lockSecond" =>
          held'[FirstRow(q)] = q /\ seen'[q] = accounts'[FirstRow(q)]
    BY <1>0, <1>1 DEF Disciplined, ReadsStand
  <2>2. HasChecked(q) => /\ held'[Source(q)] = q /\ held'[Target(q)] = q
                         /\ Bank!MayTransfer(cmd[q].user, Payload(q))'
    <3>1. HasChecked(q) => /\ held[Source(q)] = q /\ held[Target(q)] = q
                           /\ Bank!MayTransfer(cmd[q].user, Payload(q))
      BY DEF Disciplined, ReadsStand
    <3>2. HasChecked(q) => /\ accounts'[Source(q)] = accounts[Source(q)]
                           /\ accounts'[Target(q)] = accounts[Target(q)]
      BY <1>0, <1>1, <3>1
    <3>3. Payload(q).src = cmd[q].src /\ Payload(q).dst = cmd[q].dst BY DEF Payload
    <3>4. HasChecked(q) => Bank!MayTransfer(cmd[q].user, Payload(q))'
      <4> SUFFICES ASSUME HasChecked(q) PROVE Bank!MayTransfer(cmd[q].user, Payload(q))'
        OBVIOUS
      <4> DEFINE body == Payload(q)
      <4>1. Bank!MayTransfer(cmd[q].user, body) BY <3>1
      <4>2. /\ accounts'[RowOf[body.src]] = accounts[RowOf[body.src]]
            /\ accounts'[RowOf[body.dst]] = accounts[RowOf[body.dst]]
        BY <3>2, <3>3 DEF Source, Target
      <4>3. Payload(q)' = body /\ cmd'[q].user = cmd[q].user BY <1>1, <1>2
      <4> HIDE DEF body
      <4> QED BY <4>1, <4>2, <4>3 DEF Bank!MayTransfer, Bank!CheckedAccount, Bank!Recognised
    <3> QED BY <1>0, <1>1, <3>1, <3>4
  <2>3. (\/ pc[q] \in {"topupUpdate", "topupEntry"}
         \/ pc[q] = "commit" /\ cmd[q].op = "topup")
        => /\ held'[Target(q)] = q
           /\ accounts'[Target(q)].status = "ACTIVE"
           /\ seen'[q] = accounts'[Target(q)]
    BY <1>0, <1>1 DEF Disciplined, ReadsStand
  <2> QED BY <1>1, <1>2, <2>1, <2>2, <2>3 DEF ReadsStand
<1>6. WritesOf(q)'
  <2>1. /\ Stored(q, "PROCESSING")' = Stored(q, "PROCESSING")
        /\ Stored(q, "SUCCESS")' = Stored(q, "SUCCESS")
        /\ TransferEntries(q, Payload(q))' = TransferEntries(q, Payload(q))
        /\ Debited(q)' = Debited(q) /\ Moved(q)' = Moved(q) /\ Paid(q)' = Paid(q)
    BY <1>1, <1>2 DEF Stored, Debited, Moved, Paid
  <2>2. pc[q] = "commit" /\ cmd[q].op = "topup" => TopUpRow(q)' = TopUpRow(q)
    BY <1>0, <1>1, <1>2 DEF Disciplined, ReadsStand, TopUpRow
  <2>3. transfers[Key(q)] # NoTransfer => transfers'[Key(q)] = transfers[Key(q)]
    BY <1>0, <1>1
  <2> QED BY <1>1, <1>2, <2>1, <2>2, <2>3 DEF Disciplined, WritesOf, Written
<1>7. (pc[q] # "done" => Untraced(q))'
  BY <1>1 DEF Disciplined, Untraced, RowsKept
<1> QED BY <1>3, <1>4, <1>5, <1>6, <1>7 DEF Disciplined

\* A request that has ended owes nothing.
LEMMA FinishDisciplined ==
  ASSUME TypeOK, NEW r \in Requests, NEW code, NEW answer, Finish(r, code, answer)
  PROVE  Disciplined(r)'
<1>1. pc'[r] = "done" BY DEF Finish, GoTo, TypeOK
<1> QED BY <1>1 DEF Disciplined, RightOperation, OwnsKey, ReadsStand, WritesOf,
                    HasInserted, HasChecked, Settling, Inserted, Checked

\* What does not depend on the step: the commands stay, and as long as no
\* table changes nothing is recorded under r.
LEMMA CommandsStay ==
  ASSUME TypeOK, NEW r \in Requests, cmd' = cmd
  PROVE  /\ Key(r)' = Key(r) /\ FirstRow(r)' = FirstRow(r) /\ SecondRow(r)' = SecondRow(r)
         /\ Source(r)' = Source(r) /\ Target(r)' = Target(r) /\ Payload(r)' = Payload(r)
         /\ \A status : Stored(r, status)' = Stored(r, status)
         /\ Debited(r)' = Debited(r) /\ Moved(r)' = Moved(r) /\ Paid(r)' = Paid(r)
BY DEF Key, First, FirstRow, Second, SecondRow, Source, Target, Payload, Stored, Debited, Moved, Paid

\* After the INSERT the request owns its key.
LEMMA OwnInsert ==
  ASSUME Inv, NEW r \in Requests, Insert(r)
  PROVE  Disciplined(r)'
<1> TypeOK BY DEF Inv
<1>0. Key(r) \in Index BY CommandTypes
<1>1. pc[r] = "insert" /\ cmd' = cmd BY DEF Insert, At
<1>2. /\ cmd[r].op = "transfer" /\ cmd[r].src # cmd[r].dst
      /\ Written(r, NoTransfer, NoChange, {}, {}, NoTransfer) /\ Untraced(r)
  BY <1>1 DEF Inv, LockDiscipline, RightOperation, WritesOf
<1>3. Untraced(r)' BY <1>2 DEF Insert, Untraced, tables
<1>4. CASE transfers[Key(r)] = NoTransfer
  <2>1. /\ pc'[r] \in {"fkSource", "lockFirst"} /\ keyLock'[Key(r)] = r
        /\ transfers' = transfers
    BY <1>0, <1>4 DEF Insert, GoTo, TypeOK, tables
  <2>2. tx'[r] = [tx[r] EXCEPT !.row = Stored(r, "PROCESSING")]
    BY <1>4 DEF Insert, TypeOK, Stored
  <2>3. Written(r, Stored(r, "PROCESSING"), NoChange, {}, {}, NoTransfer)'
    <3>1. Stored(r, "PROCESSING")' = Stored(r, "PROCESSING") BY <1>1, CommandsStay
    <3>2. tx[r] \in Tx BY DEF TypeOK, Tx
    <3> QED BY <1>2, <2>2, <3>1, <3>2 DEF Written, NoChange, Tx
  <2>4. RightOperation(r)' BY <1>1, <1>2, <2>1 DEF RightOperation
  <2>5. OwnsKey(r)' BY <1>1, <1>4, <2>1, CommandsStay DEF OwnsKey
  <2>6. ReadsStand(r)' BY <2>1 DEF ReadsStand, HasChecked, Checked, Settling
  <2>7. WritesOf(r)' BY <2>1, <2>3, CommandsStay DEF WritesOf
  <2> QED BY <1>3, <2>4, <2>5, <2>6, <2>7 DEF Disciplined
<1>5. CASE transfers[Key(r)] # NoTransfer
  <2>1. pc'[r] = "existing" /\ tx'[r] = tx[r]
    BY <1>5 DEF Insert, GoTo, TypeOK
  <2>2. Written(r, NoTransfer, NoChange, {}, {}, NoTransfer)'
    BY <1>2, <2>1 DEF Written, NoChange
  <2>3. RightOperation(r)' BY <1>1, <1>2, <2>1 DEF RightOperation
  <2>4. OwnsKey(r)'
    <3>1. transfers' = transfers BY DEF Insert, tables
    <3> QED BY <1>1, <1>5, <2>1, <3>1, CommandsStay DEF OwnsKey, HasInserted, Inserted, Settling
  <2>5. ReadsStand(r)' BY <2>1 DEF ReadsStand, HasChecked, Checked, Settling
  <2>6. WritesOf(r)' BY <2>1, <2>2 DEF WritesOf
  <2> QED BY <1>3, <2>3, <2>4, <2>5, <2>6 DEF Disciplined
<1> QED BY <1>4, <1>5

\* The foreign key checks and the first locking SELECT keep what the INSERT
\* has established.
LEMMA OwnUntilFirst ==
  ASSUME Inv, NEW r \in Requests, CheckForeignKeys(r) \/ LockFirst(r)
  PROVE  Disciplined(r)'
<1> TypeOK BY DEF Inv
<1>0. Key(r) \in Index /\ FirstRow(r) \in Accounts BY CommandTypes
<1>1. ASSUME NEW code, Rollback(r, code) PROVE Disciplined(r)'
  BY <1>1, FinishDisciplined DEF Rollback
<1>2. pc[r] \in {"fkSource", "fkDestination", "lockFirst"}
  BY DEF CheckForeignKeys, ForeignKey, LockFirst, At
<1>3. /\ cmd[r].op = "transfer" /\ cmd[r].src # cmd[r].dst
      /\ Written(r, Stored(r, "PROCESSING"), NoChange, {}, {}, NoTransfer)
      /\ keyLock[Key(r)] = r /\ transfers[Key(r)] = NoTransfer /\ Untraced(r)
  BY <1>2 DEF Inv, LockDiscipline, RightOperation, WritesOf, OwnsKey, HasInserted, Inserted
<1>4. ASSUME UNCHANGED <<tables, cmd, tx, keyLock>>,
             pc'[r] \in {"fkDestination", "lockFirst", "lockSecond"},
             pc'[r] = "lockSecond" => held'[FirstRow(r)] = r /\ seen'[r] = accounts[FirstRow(r)]
      PROVE  Disciplined(r)'
  <2>1. Written(r, Stored(r, "PROCESSING"), NoChange, {}, {}, NoTransfer)'
    BY <1>3, <1>4, CommandsStay DEF Written, NoChange
  <2>2. RightOperation(r)' BY <1>3, <1>4 DEF RightOperation
  <2>3. OwnsKey(r)' BY <1>3, <1>4, CommandsStay DEF OwnsKey, tables
  <2>4. ReadsStand(r)'
    BY <1>4, CommandsStay DEF ReadsStand, HasChecked, Checked, Settling, tables
  <2>5. WritesOf(r)' BY <1>4, <2>1, CommandsStay DEF WritesOf
  <2>6. Untraced(r)' BY <1>3, <1>4 DEF Untraced, tables
  <2> QED BY <2>2, <2>3, <2>4, <2>5, <2>6 DEF Disciplined
<1>5. CASE CheckForeignKeys(r)
  <2>1. ASSUME NEW s, NEW a, NEW next \in {"fkDestination", "lockFirst"},
               ForeignKey(r, s, a, next)
        PROVE  Disciplined(r)'
    <3>1. CASE KeyShare(r, a) /\ GoTo(r, next)
               /\ UNCHANGED <<tables, cmd, seen, tx, held, keyLock, reply>>
      <4>1. pc'[r] = next BY <3>1 DEF GoTo, TypeOK
      <4> QED BY <1>4, <3>1, <4>1
    <3> QED BY <1>1, <2>1, <3>1 DEF ForeignKey
  <2> QED BY <1>5, <2>1 DEF CheckForeignKeys
<1>6. CASE LockFirst(r)
  <2>1. CASE /\ ForUpdate(r, FirstRow(r))
             /\ seen' = [seen EXCEPT ![r] = accounts[FirstRow(r)]]
             /\ GoTo(r, "lockSecond")
             /\ UNCHANGED <<tables, cmd, tx, shared, keyLock, reply>>
    <3>1. /\ pc'[r] = "lockSecond" /\ held'[FirstRow(r)] = r
          /\ seen'[r] = accounts[FirstRow(r)]
      BY <1>0, <2>1 DEF GoTo, ForUpdate, TypeOK
    <3> QED BY <1>4, <2>1, <3>1
  <2> QED BY <1>1, <1>6, <2>1 DEF LockFirst
<1> QED BY <1>5, <1>6

\* A replayed key returns the stored row.
LEMMA OwnExisting ==
  ASSUME Inv, NEW r \in Requests, Existing(r)
  PROVE  Disciplined(r)'
<1> TypeOK BY DEF Inv
<1>0. Key(r) \in Index BY CommandTypes
<1>1. CASE Rollback(r, "409") BY <1>1, FinishDisciplined DEF Rollback
<1>2. CASE ~ Rollback(r, "409")
  <2>1. /\ pc[r] = "existing" /\ transfers[Key(r)].body = Payload(r)
        /\ cmd' = cmd /\ transfers' = transfers /\ pc'[r] = "commit"
        /\ tx'[r] = [tx[r] EXCEPT !.answer = transfers[Key(r)]]
        /\ UNCHANGED tables
    BY <1>2 DEF Existing, At, GoTo, TypeOK, tables
  <2>2. /\ cmd[r].op = "transfer" /\ cmd[r].src # cmd[r].dst
        /\ Written(r, NoTransfer, NoChange, {}, {}, NoTransfer) /\ Untraced(r)
    BY <2>1 DEF Inv, LockDiscipline, RightOperation, WritesOf
  <2>3. Written(r, NoTransfer, NoChange, {}, {}, transfers[Key(r)])'
    <3>1. transfers[Key(r)]' = transfers[Key(r)] BY <2>1, CommandsStay
    <3>2. tx[r] \in Tx BY DEF TypeOK, Tx
    <3> QED BY <2>1, <2>2, <3>1, <3>2 DEF Written, NoChange, Tx
  <2>4. tx'[r].row = NoTransfer BY <2>3 DEF Written
  <2>5. transfers[Key(r)] # NoTransfer BY <2>1 DEF Inv, LockDiscipline, OwnsKey
  <2>6. RightOperation(r)' BY <2>1, <2>2 DEF RightOperation, Inserted
  <2>7. OwnsKey(r)' BY <2>1, <2>4 DEF OwnsKey, HasInserted, Inserted, Settling
  <2>8. ReadsStand(r)' BY <2>1, <2>2, <2>4 DEF ReadsStand, HasChecked, Checked, Settling
  <2>9. WritesOf(r)' BY <2>1, <2>2, <2>3, <2>5, CommandsStay DEF WritesOf
  <2>10. Untraced(r)' BY <2>1, <2>2 DEF Untraced, tables
  <2> QED BY <2>6, <2>7, <2>8, <2>9, <2>10 DEF Disciplined
<1> QED BY <1>1, <1>2

\* The two locks are on the two accounts of the transfer.
LEMMA BothAccounts ==
  ASSUME TypeOK, NEW r \in Requests, cmd[r].src # cmd[r].dst
  PROVE  /\ {FirstRow(r), SecondRow(r)} = {Source(r), Target(r)}
         /\ cmd[r].src < cmd[r].dst => FirstRow(r) = Source(r) /\ SecondRow(r) = Target(r)
         /\ cmd[r].dst < cmd[r].src => FirstRow(r) = Target(r) /\ SecondRow(r) = Source(r)
         /\ cmd[r].src < cmd[r].dst \/ cmd[r].dst < cmd[r].src
BY CommandTypes DEF First, Second, FirstRow, SecondRow, Source, Target

\* Passing the checks means that the transfer may be made.
LEMMA VerdictOk ==
  ASSUME TypeOK, NEW r \in Requests, cmd[r].src # cmd[r].dst,
         Verdict(r, accounts[FirstRow(r)], accounts[SecondRow(r)]) = "ok"
  PROVE  Bank!MayTransfer(cmd[r].user, Payload(r))
<1> DEFINE source  == IF FirstRow(r) = cmd[r].src THEN accounts[FirstRow(r)]
                      ELSE accounts[SecondRow(r)]
           checked == CheckedAccount(Payload(r))
<1>0. /\ Source(r) \in Accounts /\ Target(r) \in Accounts /\ cmd[r].amount \in Nat
      /\ cmd[r].src \in Ids /\ cmd[r].dst \in Ids
  BY CommandTypes
<1>1. /\ Payload(r).src = cmd[r].src /\ Payload(r).dst = cmd[r].dst
      /\ Payload(r).amount = cmd[r].amount /\ Payload(r).currency = cmd[r].currency
  BY DEF Payload
<1>2. checked = IF cmd[r].src \in Accounts \/ cmd[r].dst < cmd[r].src
                THEN Source(r) ELSE Target(r)
  BY <1>1 DEF CheckedAccount, Recognised, Source, Target
<1>3. source = accounts[checked]
  <2>1. Source(r) = cmd[r].src <=> cmd[r].src \in Accounts BY <1>0 DEF Source
  <2>2. CASE cmd[r].src < cmd[r].dst
    <3>1. ~ (cmd[r].dst < cmd[r].src) BY <2>2, CommandTypes
    <3> QED BY <1>2, <2>1, <2>2, <3>1, BothAccounts
  <2>3. CASE cmd[r].dst < cmd[r].src
    <3>1. Target(r) = cmd[r].src => Source(r) = Target(r) BY <1>0 DEF Source
    <3> QED BY <1>2, <2>3, <3>1, BothAccounts
  <2> QED BY <2>2, <2>3, BothAccounts
<1>4. checked \in Accounts BY <1>0, <1>2
<1> HIDE DEF checked
<1>5. /\ \A row \in {accounts[FirstRow(r)], accounts[SecondRow(r)]} :
           row.currency = cmd[r].currency /\ row.status = "ACTIVE"
      /\ cmd[r].user \in Admins \/ source.owner = cmd[r].user
      /\ ~ (source.balance < cmd[r].amount)
  BY Zenon DEF Verdict
<1>6. \A a \in {Source(r), Target(r)} :
        accounts[a].currency = cmd[r].currency /\ accounts[a].status = "ACTIVE"
  BY <1>5, BothAccounts
<1>7. accounts[checked].balance \in Int BY <1>4 DEF TypeOK, AccountRow
<1> HIDE DEF source
<1>8. cmd[r].amount <= accounts[checked].balance BY <1>0, <1>3, <1>5, <1>7
<1>9. checked = Bank!CheckedAccount(Payload(r))
  BY DEF checked, CheckedAccount, Bank!CheckedAccount, Recognised, Bank!Recognised
<1> QED BY <1>1, <1>3, <1>5, <1>6, <1>8, <1>9 DEF Bank!MayTransfer, Source, Target

\* After the second SELECT ... FOR UPDATE and the checks, the request may
\* transfer.
LEMMA OwnLockSecond ==
  ASSUME Inv, NEW r \in Requests, LockSecond(r)
  PROVE  Disciplined(r)'
<1> TypeOK BY DEF Inv
<1> DEFINE code == Verdict(r, seen[r], accounts[SecondRow(r)])
<1>0. Key(r) \in Index /\ FirstRow(r) \in Accounts /\ SecondRow(r) \in Accounts BY CommandTypes
<1>1. CASE Rollback(r, code) BY <1>1, FinishDisciplined DEF Rollback
<1>2. CASE ~ Rollback(r, code)
  <2>1. /\ pc[r] = "lockSecond" /\ code = "ok" /\ ForUpdate(r, SecondRow(r))
        /\ pc'[r] = "debit" /\ UNCHANGED <<tables, cmd, seen, tx, shared, keyLock, reply>>
    BY <1>2 DEF LockSecond, At, GoTo, TypeOK
  <2>2. /\ cmd[r].op = "transfer" /\ cmd[r].src # cmd[r].dst
        /\ held[FirstRow(r)] = r /\ seen[r] = accounts[FirstRow(r)]
        /\ Written(r, Stored(r, "PROCESSING"), NoChange, {}, {}, NoTransfer)
        /\ keyLock[Key(r)] = r /\ transfers[Key(r)] = NoTransfer /\ Untraced(r)
    BY <2>1 DEF Inv, LockDiscipline, RightOperation, ReadsStand, WritesOf, OwnsKey,
                HasInserted, Inserted
  <2>3. Bank!MayTransfer(cmd[r].user, Payload(r)) BY <2>1, <2>2, VerdictOk
  <2>4. Bank!MayTransfer(cmd[r].user, Payload(r))'
    BY <2>1, <2>3, CommandsStay DEF Bank!MayTransfer, tables
  <2>5. held'[FirstRow(r)] = r /\ held'[SecondRow(r)] = r
    BY <1>0, <2>1, <2>2 DEF ForUpdate, TypeOK
  <2>6. held'[Source(r)] = r /\ held'[Target(r)] = r
    BY <2>2, <2>5, BothAccounts
  <2>7. RightOperation(r)' BY <2>1, <2>2 DEF RightOperation
  <2>8. OwnsKey(r)' BY <2>1, <2>2, CommandsStay DEF OwnsKey, tables
  <2>9. ReadsStand(r)' BY <2>1, <2>4, <2>6, CommandsStay DEF ReadsStand
  <2>10. WritesOf(r)'
    <3>1. Written(r, Stored(r, "PROCESSING"), NoChange, {}, {}, NoTransfer)'
      BY <2>1, <2>2, CommandsStay DEF Written, NoChange
    <3> QED BY <2>1, <3>1 DEF WritesOf
  <2>11. Untraced(r)' BY <2>1, <2>2 DEF Untraced, tables
  <2> QED BY <2>7, <2>8, <2>9, <2>10, <2>11 DEF Disciplined
<1> QED BY <1>1, <1>2

\* A transfer that has passed its checks and goes on privately.
LEMMA OwnPrivate ==
  ASSUME Inv, NEW r \in Requests, pc[r] \in Checked,
         UNCHANGED <<tables, cmd, locks>>,
         pc'[r] \in Checked \/ (pc'[r] = "commit" /\ tx'[r].row # NoTransfer),
         WritesOf(r)'
  PROVE  Disciplined(r)'
<1> TypeOK BY DEF Inv
<1>1. /\ cmd[r].op = "transfer" /\ cmd[r].src # cmd[r].dst
      /\ held[Source(r)] = r /\ held[Target(r)] = r
      /\ Bank!MayTransfer(cmd[r].user, Payload(r))
      /\ keyLock[Key(r)] = r /\ transfers[Key(r)] = NoTransfer /\ Untraced(r)
  BY DEF Inv, LockDiscipline, RightOperation, ReadsStand, OwnsKey, HasInserted,
         HasChecked, Inserted, Checked
<1>2. Bank!MayTransfer(cmd[r].user, Payload(r))'
  BY <1>1, CommandsStay DEF Bank!MayTransfer, tables
<1>3. RightOperation(r)' BY <1>1 DEF RightOperation, Checked
<1>4. OwnsKey(r)' BY <1>1, CommandsStay DEF OwnsKey, tables, locks, Checked
<1>5. ReadsStand(r)' BY <1>1, <1>2, CommandsStay DEF ReadsStand, locks, Checked
<1>6. Untraced(r)' BY <1>1 DEF Untraced, tables
<1> QED BY <1>3, <1>4, <1>5, <1>6 DEF Disciplined

\* The five writes of a transfer, one after the other.
LEMMA OwnTransferWrites ==
  ASSUME Inv, NEW r \in Requests,
         Debit(r) \/ Credit(r) \/ Entries(r) \/ Success(r) \/ Event(r)
  PROVE  Disciplined(r)'
<1> TypeOK BY DEF Inv
<1> DEFINE new == Stored(r, "PROCESSING")
           settled == Stored(r, "SUCCESS")
           rows == TransferEntries(r, Payload(r))
<1>0. WritesOf(r) /\ RightOperation(r) BY DEF Inv, LockDiscipline
<1>1. UNCHANGED <<tables, cmd, seen, locks, reply>>
  BY DEF Debit, Credit, Entries, Success, Event, Write
<1>2. /\ new' = new /\ settled' = settled /\ rows' = rows
      /\ Debited(r)' = Debited(r) /\ Moved(r)' = Moved(r)
  BY <1>1, CommandsStay
<1>8. UNCHANGED <<tables, cmd, locks>> BY <1>1
<1>9. tx[r] \in Tx BY DEF TypeOK, Tx
<1>3. CASE Debit(r)
  <2>1. Written(r, new, NoChange, {}, {}, NoTransfer) /\ pc[r] = "debit"
    BY <1>0, <1>3 DEF Debit, At, WritesOf
  <2>2. tx[r].delta = NoChange BY <2>1 DEF Written
  <2>3. tx'[r] = [tx[r] EXCEPT !.delta = Debited(r)] /\ pc'[r] = "credit"
    BY <1>3, <2>2 DEF Debit, Write, Debited, GoTo, TypeOK
  <2>4. Written(r, new, Debited(r), {}, {}, NoTransfer)'
    BY <1>2, <1>9, <2>1, <2>3 DEF Written, Tx, NoChange
  <2>5. WritesOf(r)' BY <2>3, <2>4 DEF WritesOf
  <2>6. pc[r] \in Checked /\ pc'[r] \in Checked BY <2>1, <2>3 DEF Checked
  <2> QED BY <1>8, <2>5, <2>6, OwnPrivate
<1>4. CASE Credit(r)
  <2>1. Written(r, new, Debited(r), {}, {}, NoTransfer) /\ pc[r] = "credit"
    BY <1>0, <1>4 DEF Credit, At, WritesOf
  <2>2. tx[r].delta = Debited(r) BY <2>1 DEF Written
  <2>3. tx'[r] = [tx[r] EXCEPT !.delta = Moved(r)] /\ pc'[r] = "entries"
    BY <1>4, <2>2 DEF Credit, Write, Moved, GoTo, TypeOK
  <2>4. Written(r, new, Moved(r), {}, {}, NoTransfer)'
    BY <1>2, <1>9, <2>1, <2>3 DEF Written, Tx, NoChange
  <2>5. WritesOf(r)' BY <2>3, <2>4 DEF WritesOf
  <2>6. pc[r] \in Checked /\ pc'[r] \in Checked BY <2>1, <2>3 DEF Checked
  <2> QED BY <1>8, <2>5, <2>6, OwnPrivate
<1>5. CASE Entries(r)
  <2>1. Written(r, new, Moved(r), {}, {}, NoTransfer) /\ pc[r] = "entries"
    BY <1>0, <1>5 DEF Entries, At, WritesOf
  <2>2. tx'[r] = [tx[r] EXCEPT !.entries = rows] /\ pc'[r] = "success"
    BY <1>5 DEF Entries, Write, GoTo, TypeOK
  <2>3. Written(r, new, Moved(r), rows, {}, NoTransfer)'
    BY <1>2, <1>9, <2>1, <2>2 DEF Written, Tx, NoChange
  <2>4. WritesOf(r)' BY <2>2, <2>3 DEF WritesOf
  <2>6. pc[r] \in Checked /\ pc'[r] \in Checked BY <2>1, <2>2 DEF Checked
  <2> QED BY <1>8, <2>4, <2>6, OwnPrivate
<1>6. CASE Success(r)
  <2>1. Written(r, new, Moved(r), rows, {}, NoTransfer) /\ pc[r] = "success"
    BY <1>0, <1>6 DEF Success, At, WritesOf
  <2>2. [tx[r].row EXCEPT !.status = "SUCCESS"] = settled BY <2>1 DEF Written, Stored
  <2>3. tx'[r] = [tx[r] EXCEPT !.row = settled] /\ pc'[r] = "event"
    BY <1>6, <2>2 DEF Success, Write, GoTo, TypeOK
  <2>4. Written(r, settled, Moved(r), rows, {}, NoTransfer)'
    BY <1>2, <1>9, <2>1, <2>3 DEF Written, Tx, NoChange
  <2>5. WritesOf(r)' BY <2>3, <2>4 DEF WritesOf
  <2>6. pc[r] \in Checked /\ pc'[r] \in Checked BY <2>1, <2>3 DEF Checked
  <2> QED BY <1>8, <2>5, <2>6, OwnPrivate
<1>7. CASE Event(r)
  <2>1. Written(r, settled, Moved(r), rows, {}, NoTransfer) /\ pc[r] = "event"
    BY <1>0, <1>7 DEF Event, At, WritesOf
  <2>2. tx[r].row = settled /\ settled.id = r BY <2>1 DEF Written, Stored
  <2>3. tx'[r] = [tx[r] EXCEPT !.events = {r}, !.answer = settled] /\ pc'[r] = "commit"
    BY <1>7, <2>2 DEF Event, GoTo, TypeOK
  <2>4. /\ tx'[r].row = settled /\ tx'[r].delta = Moved(r) /\ tx'[r].entries = rows
        /\ tx'[r].events = {r} /\ tx'[r].answer = settled
    BY <2>1, <2>3 DEF Written, TypeOK
  <2>5. Written(r, settled, Moved(r), rows, {r}, settled)'
    BY <1>2, <2>4 DEF Written
  <2>6. cmd'[r].op = "transfer" BY <1>0, <1>1, <2>1 DEF RightOperation, Inserted
  <2>7. WritesOf(r)' BY <2>3, <2>5, <2>6 DEF WritesOf
  <2>8. tx'[r].row # NoTransfer BY <2>4, StoredType
  <2> QED BY <1>8, <2>1, <2>3, <2>7, <2>8, OwnPrivate DEF Checked
<1> QED BY <1>3, <1>4, <1>5, <1>6, <1>7

\* The three statements of topUp.
LEMMA OwnTopUp ==
  ASSUME Inv, NEW r \in Requests, TopUpLock(r) \/ TopUpUpdate(r) \/ TopUpEntry(r)
  PROVE  Disciplined(r)'
<1> TypeOK BY DEF Inv
<1>0. Target(r) \in Accounts /\ tx[r] \in Tx BY CommandTypes DEF TypeOK, Tx
<1>1. /\ WritesOf(r) /\ RightOperation(r) /\ ReadsStand(r)
      /\ pc[r] # "done" => Untraced(r)
  BY DEF Inv, LockDiscipline
<1>2. ASSUME UNCHANGED <<tables, cmd>>, cmd[r].op = "topup", pc[r] # "done",
             \/ pc'[r] \in {"topupUpdate", "topupEntry"}
             \/ pc'[r] = "commit" /\ tx'[r].row = NoTransfer,
             held'[Target(r)] = r, accounts[Target(r)].status = "ACTIVE",
             seen'[r] = accounts[Target(r)], WritesOf(r)'
      PROVE  Disciplined(r)'
  <2>1. RightOperation(r)' BY <1>2 DEF RightOperation, Inserted
  <2>2. OwnsKey(r)' BY <1>2 DEF OwnsKey, HasInserted, Inserted, Settling
  <2>3. ReadsStand(r)'
    BY <1>2, CommandsStay DEF ReadsStand, HasChecked, Checked, Settling, tables
  <2>4. Untraced(r)' BY <1>1, <1>2 DEF Untraced, tables
  <2> QED BY <1>2, <2>1, <2>2, <2>3, <2>4 DEF Disciplined
<1>3. CASE TopUpLock(r)
  <2>1. pc[r] = "topupLock" /\ cmd[r].op = "topup" /\ Written(r, NoTransfer, NoChange, {}, {}, NoTransfer)
    BY <1>1, <1>3 DEF TopUpLock, At, WritesOf, RightOperation
  <2>2. accounts[Target(r)].status \in {"ABSENT", "ACTIVE", "LOCKED"}
    BY <1>0 DEF TypeOK, AccountRow
  <2>3. CASE \E code \in {"404", "400"} : Rollback(r, code)
    BY <2>3, FinishDisciplined DEF Rollback
  <2>4. CASE /\ accounts[Target(r)].status = "ACTIVE"
             /\ ForUpdate(r, Target(r))
             /\ seen' = [seen EXCEPT ![r] = accounts[Target(r)]]
             /\ GoTo(r, "topupUpdate")
             /\ UNCHANGED <<tables, cmd, tx, shared, keyLock, reply>>
    <3>1. pc'[r] = "topupUpdate" /\ held'[Target(r)] = r /\ seen'[r] = accounts[Target(r)]
      BY <1>0, <2>4 DEF ForUpdate, GoTo, TypeOK
    <3>2. Written(r, NoTransfer, NoChange, {}, {}, NoTransfer)'
      BY <2>1, <2>4 DEF Written, NoChange
    <3>3. WritesOf(r)' BY <3>1, <3>2 DEF WritesOf
    <3> QED BY <1>2, <2>1, <2>4, <3>1, <3>3
  <2> QED BY <1>3, <2>2, <2>3, <2>4 DEF TopUpLock
<1>4. CASE TopUpUpdate(r)
  <2>1. pc[r] = "topupUpdate" /\ cmd[r].op = "topup" /\ Written(r, NoTransfer, NoChange, {}, {}, NoTransfer)
    BY <1>1, <1>4 DEF TopUpUpdate, At, WritesOf, RightOperation
  <2>2. UNCHANGED <<tables, cmd, seen, locks>> BY <1>4 DEF TopUpUpdate, Write
  <2>3. tx[r].delta = NoChange BY <2>1 DEF Written
  <2>4. tx'[r] = [tx[r] EXCEPT !.delta = Paid(r)] /\ pc'[r] = "topupEntry"
    BY <1>4, <2>3 DEF TopUpUpdate, Write, Paid, GoTo, TypeOK
  <2>5. Paid(r)' = Paid(r) BY <2>2, CommandsStay
  <2>6. Written(r, NoTransfer, Paid(r), {}, {}, NoTransfer)'
    BY <1>0, <2>1, <2>4, <2>5 DEF Written, Tx
  <2>7. WritesOf(r)' BY <2>4, <2>6 DEF WritesOf
  <2> QED BY <1>1, <1>2, <2>1, <2>2, <2>4, <2>7 DEF ReadsStand, locks
<1>5. CASE TopUpEntry(r)
  <2>1. pc[r] = "topupEntry" /\ cmd[r].op = "topup" /\ Written(r, NoTransfer, Paid(r), {}, {}, NoTransfer)
    BY <1>1, <1>5 DEF TopUpEntry, At, WritesOf, RightOperation
  <2>2. UNCHANGED <<tables, cmd, seen, locks>> BY <1>5 DEF TopUpEntry, Write
  <2>3. seen[r] = accounts[Target(r)] BY <1>1, <2>1 DEF ReadsStand
  <2>4. tx'[r] = [tx[r] EXCEPT !.entries = {TopUpRow(r)}] /\ pc'[r] = "commit"
    BY <1>5, <2>3 DEF TopUpEntry, Write, TopUpRow, GoTo, TypeOK
  <2>5. Paid(r)' = Paid(r) /\ TopUpRow(r)' = TopUpRow(r)
    BY <2>2, CommandsStay DEF TopUpRow, tables
  <2>6. Written(r, NoTransfer, Paid(r), {TopUpRow(r)}, {}, NoTransfer)'
    BY <1>0, <2>1, <2>4, <2>5 DEF Written, Tx
  <2>7. cmd'[r].op = "topup" BY <2>1, <2>2
  <2>8. WritesOf(r)' BY <2>4, <2>6, <2>7 DEF WritesOf
  <2>9. tx'[r].row = NoTransfer BY <2>6 DEF Written
  <2> QED BY <1>1, <1>2, <2>1, <2>2, <2>4, <2>8, <2>9 DEF ReadsStand, locks
<1> QED BY <1>3, <1>4, <1>5

\* A request starts with the first statement of its operation.
LEMMA OwnBegin ==
  ASSUME Inv, NEW r \in Requests, Begin(r)
  PROVE  Disciplined(r)'
<1> TypeOK BY DEF Inv
<1> DEFINE first == Start(cmd[r].op)
<1>1. /\ pc[r] = "idle" /\ Untraced(r)
      /\ Written(r, NoTransfer, NoChange, {}, {}, NoTransfer)
  BY DEF Begin, Inv, LockDiscipline, WritesOf
<1>2. CASE Rollback(r, "400") BY <1>2, FinishDisciplined DEF Rollback
<1>3. CASE ~ (cmd[r].op = "transfer" /\ cmd[r].src = cmd[r].dst)
  <2>1. pc'[r] = first /\ UNCHANGED <<tables, cmd, seen, tx, locks, reply>>
    BY <1>3 DEF Begin, GoTo, TypeOK
  <2>2. /\ first \in {"insert", "topupLock", "insertAccount", "setStatus"}
        /\ first = "insert" => cmd[r].op = "transfer"
        /\ first = "topupLock" => cmd[r].op = "topup"
        /\ first \in {"setStatus", "insertAccount"} => cmd[r].op # "transfer"
    <3>1. cmd[r].op \in Operations BY CommandTypes DEF Command
    <3> QED BY <3>1 DEF Start, Operations
  <2>3. RightOperation(r)' BY <1>3, <2>1, <2>2 DEF RightOperation, Inserted
  <2>4. OwnsKey(r)' BY <2>1, <2>2 DEF OwnsKey, HasInserted, Inserted, Settling
  <2>5. ReadsStand(r)' BY <2>1, <2>2 DEF ReadsStand, HasChecked, Checked, Settling
  <2>6. WritesOf(r)'
    <3>1. Written(r, NoTransfer, NoChange, {}, {}, NoTransfer)'
      BY <1>1, <2>1 DEF Written, NoChange
    <3> QED BY <2>1, <2>2, <3>1 DEF WritesOf
  <2>7. Untraced(r)' BY <1>1, <2>1 DEF Untraced, tables
  <2> QED BY <2>3, <2>4, <2>5, <2>6, <2>7 DEF Disciplined
<1> QED BY <1>2, <1>3 DEF Begin

\* A step keeps the discipline of the request that takes it.
LEMMA OwnDisciplined ==
  ASSUME Inv, NEW r \in Requests, Step(r) \/ Fail(r) \/ DeadlockVictim(r)
  PROVE  Disciplined(r)'
<1> TypeOK BY DEF Inv
<1>2. CASE Forbid(r) \/ Fail(r) \/ DeadlockVictim(r) \/ UpdateStatus(r) \/ InsertAccount(r)
  BY <1>2, FinishDisciplined DEF Forbid, Fail, DeadlockVictim, Rollback, UpdateStatus,
     InsertAccount, Autocommit
<1>3. CASE Commit(r) BY <1>3, FinishDisciplined DEF Commit
<1> QED BY <1>2, <1>3, OwnBegin, OwnInsert, OwnUntilFirst, OwnExisting, OwnLockSecond,
           OwnTransferWrites, OwnTopUp
        DEF Step, TransferStep, AccountStep

\* Accounts never disappear, and only an account that is there gets locked.
LEMMA HeldAccountsExist ==
  ASSUME Inv, NEW r \in Requests, Step(r) \/ Fail(r) \/ DeadlockVictim(r),
         NEW a \in Accounts, held'[a] # Nobody
  PROVE  accounts'[a].status # "ABSENT"
<1> TypeOK BY DEF Inv
<1>0. /\ Target(r) \in Accounts /\ FirstRow(r) \in Accounts /\ SecondRow(r) \in Accounts
      /\ Source(r) \in Accounts /\ Target(r) \in Accounts
  BY CommandTypes
<1>1. accounts[a].status # "ABSENT" => accounts'[a].status # "ABSENT"
  <2> SUFFICES ASSUME accounts[a].status # "ABSENT" PROVE accounts'[a].status # "ABSENT"
    OBVIOUS
  <2>0. accounts[a] \in AccountRow BY DEF TypeOK
  <2>1. CASE UNCHANGED tables BY <2>1 DEF tables
  <2>2. CASE Commit(r)
    <3>1. accounts'[a] = [accounts[a] EXCEPT !.balance = @ + tx[r].delta[a]]
      BY <2>2 DEF Commit
    <3> QED BY <2>0, <3>1 DEF AccountRow
  <2>3. CASE \E status \in {"ACTIVE", "LOCKED"} :
               accounts' = [accounts EXCEPT ![Target(r)].status = status]
    BY <1>0, <2>0, <2>3 DEF TypeOK, AccountRow
  <2>4. CASE accounts' = [accounts EXCEPT ![Target(r)] =
                            [status |-> "ACTIVE", balance |-> 0,
                             owner |-> cmd[r].user, currency |-> cmd[r].currency]]
    BY <1>0, <2>4 DEF TypeOK
  <2> QED BY <2>1, <2>2, <2>3, <2>4, TablesChange
<1>2. held[a] # Nobody => accounts[a].status # "ABSENT"
  BY DEF Inv, LockDiscipline
<1>3. held[a] # Nobody \/ accounts[a].status # "ABSENT"
  <2> SUFFICES ASSUME held[a] = Nobody PROVE accounts[a].status # "ABSENT"
    OBVIOUS
  <2>1. \A code, answer : ~ Finish(r, code, answer) BY DEF Finish
  <2>2. held' # held OBVIOUS
  <2>3. LockFirst(r) \/ LockSecond(r) \/ TopUpLock(r)
    <3>1. ~ (Forbid(r) \/ Begin(r) \/ Fail(r) \/ DeadlockVictim(r) \/ Commit(r))
      BY <2>1, <2>2 DEF Forbid, Begin, Fail, DeadlockVictim, Commit, Rollback, locks
    <3>2. ~ (Insert(r) \/ CheckForeignKeys(r) \/ Existing(r))
      BY <2>1, <2>2 DEF Insert, CheckForeignKeys, ForeignKey, Existing, Rollback
    <3>3. ~ (Debit(r) \/ Credit(r) \/ Entries(r) \/ Success(r) \/ Event(r)
             \/ TopUpUpdate(r) \/ TopUpEntry(r))
      BY <2>2 DEF Debit, Credit, Entries, Success, Event, TopUpUpdate, TopUpEntry, Write, locks
    <3>4. ~ (UpdateStatus(r) \/ InsertAccount(r))
      BY <2>1 DEF UpdateStatus, InsertAccount, Autocommit, Rollback
    <3> QED BY <3>1, <3>2, <3>3, <3>4 DEF Step, TransferStep, AccountStep
  <2>4. CASE LockFirst(r)
    BY <1>0, <2>1, <2>4 DEF LockFirst, Rollback, ForUpdate, TypeOK
  <2>5. CASE LockSecond(r)
    <3>1. accounts[SecondRow(r)].status # "ABSENT" /\ ForUpdate(r, SecondRow(r))
      BY <2>1, <2>5 DEF LockSecond, Rollback, Verdict
    <3> QED BY <1>0, <3>1 DEF ForUpdate, TypeOK
  <2>6. CASE TopUpLock(r)
    <3>1. accounts[Target(r)].status \in {"ABSENT", "ACTIVE", "LOCKED"}
      BY <1>0 DEF TypeOK, AccountRow
    <3>2. accounts[Target(r)].status # "ABSENT" /\ ForUpdate(r, Target(r))
      BY <2>1, <2>6, <3>1 DEF TopUpLock, Rollback
    <3> QED BY <1>0, <3>2 DEF ForUpdate, TypeOK
  <2> QED BY <2>3, <2>4, <2>5, <2>6
<1> QED BY <1>1, <1>2, <1>3

-----------------------------------------------------------------------------
(* The theorems *)

\* Nothing is locked, written or recorded at the start.
LEMMA InitInv == Init => Inv
<1> SUFFICES ASSUME Init PROVE Inv OBVIOUS
<1> USE DEF Init, Bank!Init
<1>1. TypeOK
  <2>1. ledger \subseteq LedgerRow
    <3>1. Bank!OpeningEntries \subseteq LedgerRow
      BY DEF Bank!OpeningEntries, Bank!Entry, LedgerRow, AccountRow
    <3> QED BY <3>1
  <2>2. pc \in [Requests -> Statements] BY DEF Statements
  <2>3. tx \in [Requests -> Tx] BY NoTxType
  <2>4. reply \in [Requests -> [code: Codes, transfer: TransferRow \cup {NoTransfer}]]
    BY DEF Codes
  <2>5. transfers \in [Index -> TransferRow \cup {NoTransfer}] BY DEF Bank!Index, Index
  <2> QED BY <2>1, <2>2, <2>3, <2>4, <2>5 DEF TypeOK, Tx
<1>2. ASSUME NEW r \in Requests PROVE Disciplined(r)
  <2>1. pc[r] = "idle" /\ Written(r, NoTransfer, NoChange, {}, {}, NoTransfer)
    BY DEF Written, NoTx
  <2>2. Untraced(r)
    <3>1. \A e \in ledger : e.by # r BY DEF Bank!OpeningEntries, Bank!Entry
    <3> QED BY <3>1 DEF Untraced, Bank!Index, Index
  <2> QED BY <2>1, <2>2 DEF Disciplined, RightOperation, OwnsKey, ReadsStand, WritesOf,
             HasInserted, HasChecked, Inserted, Checked, Settling
<1> QED BY <1>1, <1>2 DEF Inv, LockDiscipline, Disciplined

\* The types and the lock discipline are inductive together.
LEMMA NextInv == Inv /\ [Next]_vars => Inv'
<1> SUFFICES ASSUME Inv, [Next]_vars PROVE Inv' OBVIOUS
<1> TypeOK BY DEF Inv
<1>1. TypeOK' BY NextTypes
<1>2. ASSUME NEW r \in Requests, Step(r) \/ Fail(r) \/ DeadlockVictim(r)
      PROVE  LockDiscipline'
  <2>1. OthersKept(r) BY <1>2, StepKeepsOthers
  <2>2. RowsKept(r) BY <1>2, StepKeepsRows
  <2>3. \A q \in Requests \ {r} : Disciplined(q)' BY <2>1, <2>2, OthersDisciplined
  <2>4. Disciplined(r)' BY <1>2, OwnDisciplined
  <2>5. \A a \in Accounts : held'[a] # Nobody => accounts'[a].status # "ABSENT"
    BY <1>2, HeldAccountsExist
  <2> QED BY <2>3, <2>4, <2>5 DEF LockDiscipline, Disciplined
<1>3. CASE UNCHANGED vars
  <2>1. OthersKept(Nobody) /\ RowsKept(Nobody)
    BY <1>3 DEF vars, tables, locks, OthersKept, RowsKept
  <2>2. \A q \in Requests : Disciplined(q)' BY <2>1, OthersDisciplined
  <2>3. \A a \in Accounts : held'[a] # Nobody => accounts'[a].status # "ABSENT"
    BY <1>3 DEF vars, tables, locks, Inv, LockDiscipline
  <2> QED BY <1>1, <2>2, <2>3 DEF Inv, LockDiscipline, Disciplined
<1> QED BY <1>1, <1>2, <1>3 DEF Inv, Next, Terminated

\* They hold in every reachable state.
LEMMA SpecInv == Spec => []Inv
<1>1. Init => Inv BY InitInv
<1>2. Inv /\ [Next]_vars => Inv' BY NextInv
<1> QED BY <1>1, <1>2, PTL DEF Spec

\* Every variable keeps its type, whatever the interleaving of statements,
\* failures and crashes.
THEOREM TypeCorrect == Spec => []TypeOK
<1>1. Inv => TypeOK BY DEF Inv
<1> QED BY <1>1, SpecInv, PTL

\* The row locks of the SELECT ... FOR UPDATE statements and the unique index
\* protect what a transaction has read until its COMMIT or ROLLBACK.
THEOREM LocksProtect == Spec => []LockDiscipline
<1>1. Inv => LockDiscipline BY DEF Inv
<1> QED BY <1>1, SpecInv, PTL

-----------------------------------------------------------------------------
(* The statements implement the atomic operations *)

\* Every step is, on the committed tables, one operation of Bank by some
\* request or nothing.
LEMMA StepSimulates ==
  ASSUME Inv, NEW r \in Requests, Step(r) \/ Fail(r) \/ DeadlockVictim(r),
         ~ UNCHANGED tables
  PROVE  \/ Bank!TopUp(r, Target(r), cmd[r].amount)
         \/ Bank!Transfer(r, cmd[r].user, cmd[r].key, Payload(r))
         \/ \E status \in {"ACTIVE", "LOCKED"} : Bank!SetStatus(Target(r), status)
         \/ Bank!Open(cmd[r].user, Target(r), cmd[r].currency)
<1> TypeOK BY DEF Inv
<1>1. CASE Commit(r) BY <1>1, CommitEffect
<1>2. CASE /\ UpdateStatus(r) /\ accounts[Target(r)].status # "ABSENT"
           /\ \E status \in {"ACTIVE", "LOCKED"} :
                accounts' = [accounts EXCEPT ![Target(r)].status = status]
           /\ UNCHANGED <<transfers, ledger, outbox>>
  BY <1>2 DEF Bank!SetStatus
<1>3. CASE /\ InsertAccount(r) /\ accounts[Target(r)].status = "ABSENT"
           /\ accounts' = [accounts EXCEPT ![Target(r)] =
                             [status |-> "ACTIVE", balance |-> 0,
                              owner |-> cmd[r].user, currency |-> cmd[r].currency]]
           /\ UNCHANGED <<transfers, ledger, outbox>>
  BY <1>3 DEF Bank!Open
<1> QED BY <1>1, <1>2, <1>3, TablesChange

\* The statement-level program implements the atomic bank: every interleaving
\* of the requests' statements, with lost answers and failures at any of
\* them, changes the committed tables as some sequence of whole operations.
THEOREM Refinement == Spec => ImplementsBank
<1>1. Init => Bank!Init BY DEF Init
<1>2. Inv /\ [Next]_vars => [Bank!Next]_(Bank!tables)
  <2> SUFFICES ASSUME Inv, [Next]_vars, ~ UNCHANGED tables PROVE Bank!Next
    BY DEF Bank!tables, tables
  <2> TypeOK BY DEF Inv
  <2>1. PICK r \in Requests : Step(r) \/ Fail(r) \/ DeadlockVictim(r)
    BY DEF Next, Terminated, vars
  <2>2. /\ Target(r) \in Accounts /\ cmd[r].amount \in Amounts /\ Key(r) \in Index
        /\ Payload(r) \in Body /\ cmd[r].user \in Users /\ cmd[r].currency \in Currencies
        /\ cmd[r].key \in Keys
    BY CommandTypes
  <2>3. CASE Bank!TopUp(r, Target(r), cmd[r].amount) BY <2>2, <2>3 DEF Bank!Next
  <2>4. CASE Bank!Transfer(r, cmd[r].user, cmd[r].key, Payload(r))
    <3>1. /\ Key(r) \in Bank!Index /\ Key(r)[1] = cmd[r].user /\ Key(r)[2] = cmd[r].key
          /\ Payload(r) \in Bank!Body
      BY <2>2 DEF Key, Index, Bank!Index, Body, Bank!Body
    <3> QED BY <2>4, <3>1 DEF Bank!Next
  <2>5. CASE \E status \in {"ACTIVE", "LOCKED"} : Bank!SetStatus(Target(r), status)
    BY <2>2, <2>5 DEF Bank!Next
  <2>6. CASE Bank!Open(cmd[r].user, Target(r), cmd[r].currency)
    BY <2>2, <2>6 DEF Bank!Next
  <2> QED BY <2>1, <2>3, <2>4, <2>5, <2>6, StepSimulates
<1> QED BY <1>1, <1>2, SpecInv, PTL DEF Spec, ImplementsBank, Bank!Spec

-----------------------------------------------------------------------------
(* A transfer is recorded whole *)

\* TransferRecordedWhole in parts: the stored transfers succeeded and have
\* their two rows; the events are theirs; TRANSFER rows belong to one of them.
IsStored(t) == t # NoTransfer /\ \E i \in Index : transfers[i] = t

RecordedWhole ==
  /\ \A t : IsStored(t) => /\ t.status = "SUCCESS" /\ t.id \in outbox
                           /\ \A e : e \in ledger /\ e.by = t.id
                                     <=> e \in TransferEntries(t.id, t.body)
  /\ \A o \in outbox : \E t : IsStored(t) /\ t.id = o
  /\ \A e \in ledger : e.entry = "TRANSFER" => \E t : IsStored(t) /\ t.id = e.by

\* The parts say what TransferRecordedWhole says.
LEMMA RecordedWholeSays == TypeOK /\ RecordedWhole => TransferRecordedWhole
<1> SUFFICES ASSUME TypeOK, RecordedWhole PROVE TransferRecordedWhole OBVIOUS
<1> DEFINE Rows == {transfers[i] : i \in Index} \ {NoTransfer}
           Succeeded == {t.id : t \in Rows}
<1>1. \A t : t \in Rows <=> IsStored(t) BY DEF IsStored
<1>2. \A o : o \in Succeeded <=> \E t : IsStored(t) /\ t.id = o BY <1>1
<1> HIDE DEF Rows
<1>3. outbox = Succeeded BY <1>1, <1>2 DEF RecordedWhole
<1>4. \A e \in ledger : e.entry = "TRANSFER" => e.by \in Succeeded BY <1>2 DEF RecordedWhole
<1>5. ASSUME NEW t \in Rows
      PROVE  /\ t.status = "SUCCESS"
             /\ {e \in ledger : e.by = t.id} = TransferEntries(t.id, t.body)
  <2>1. IsStored(t) BY <1>1
  <2>2. t.status = "SUCCESS" BY <2>1 DEF RecordedWhole
  <2>3. \A e : e \in ledger /\ e.by = t.id <=> e \in TransferEntries(t.id, t.body)
    BY <2>1 DEF RecordedWhole
  <2> QED BY <2>2, <2>3
<1> QED BY <1>3, <1>4, <1>5 DEF TransferRecordedWhole, StoredTransfers, Rows

\* A transfer adds a row to each of the three tables, under an id that occurs
\* in none of them.
LEMMA TransferKeepsWhole ==
  ASSUME TypeOK, RecordedWhole, NEW r \in Requests, Untraced(r),
         Bank!Transfer(r, cmd[r].user, cmd[r].key, Payload(r))
  PROVE  RecordedWhole'
<1> DEFINE new  == Stored(r, "SUCCESS")
           rows == TransferEntries(r, Payload(r))
<1>0. Key(r) \in Index BY CommandTypes
<1>1. /\ transfers[Key(r)] = NoTransfer
      /\ transfers' = [transfers EXCEPT ![Key(r)] = new]
      /\ outbox' = outbox \cup {r}
  BY DEF Bank!Transfer, Key, Stored
<1>2. ledger' = ledger \cup rows
  BY DEF Bank!Transfer, Bank!TransferEntries, TransferEntries, Bank!Entry, Entry
<1>3. new # NoTransfer /\ new.id = r /\ new.body = Payload(r) /\ new.status = "SUCCESS"
  BY StoredType DEF Stored
<1>4. \A e \in rows : e.by = r BY DEF TransferEntries, Entry
<1>5. \A t : IsStored(t)' <=> IsStored(t) \/ t = new
  BY <1>0, <1>1, <1>3 DEF IsStored, TypeOK
<1>6. \A t : IsStored(t) => t.id # r BY DEF Untraced, IsStored
<1>7. (\A e \in ledger : e.by # r) /\ r \notin outbox BY DEF Untraced
<1> HIDE DEF new, rows
<1>8. ASSUME NEW t, IsStored(t)'
      PROVE  /\ t.status = "SUCCESS" /\ t.id \in outbox'
             /\ \A e : e \in ledger' /\ e.by = t.id <=> e \in TransferEntries(t.id, t.body)
  <2>1. CASE IsStored(t)
    <3>1. \A e : e \in ledger /\ e.by = t.id <=> e \in TransferEntries(t.id, t.body)
      BY <2>1 DEF RecordedWhole
    <3>2. t.id # r BY <1>6, <2>1
    <3>3. t.status = "SUCCESS" /\ t.id \in outbox BY <2>1 DEF RecordedWhole
    <3> QED BY <1>1, <1>2, <1>4, <3>1, <3>2, <3>3
  <2>2. CASE t = new
    <3>1. \A e : e \in ledger' /\ e.by = r <=> e \in rows BY <1>2, <1>4, <1>7
    <3> QED BY <1>1, <1>3, <2>2, <3>1 DEF rows
  <2> QED BY <1>5, <1>8, <2>1, <2>2
<1>9. \A o \in outbox' : \E t : IsStored(t)' /\ t.id = o
  <2>1. \A o \in outbox : \E t : IsStored(t) /\ t.id = o BY DEF RecordedWhole
  <2> QED BY <1>1, <1>3, <1>5, <2>1
<1>10. \A e \in ledger' : e.entry = "TRANSFER" => \E t : IsStored(t)' /\ t.id = e.by
  <2>1. \A e \in ledger : e.entry = "TRANSFER" => \E t : IsStored(t) /\ t.id = e.by
    BY DEF RecordedWhole
  <2> QED BY <1>2, <1>3, <1>4, <1>5, <2>1
<1> QED BY <1>8, <1>9, <1>10 DEF RecordedWhole

\* A top-up adds one TOPUP row under an id no transfer has; the other
\* operations add nothing.
LEMMA OthersKeepWhole ==
  ASSUME TypeOK, RecordedWhole, NEW r \in Requests,
         transfers' = transfers, outbox' = outbox,
         \/ ledger' = ledger
         \/ Untraced(r) /\ Bank!TopUp(r, Target(r), cmd[r].amount)
  PROVE  RecordedWhole'
<1>1. \A t : IsStored(t)' <=> IsStored(t) BY DEF IsStored
<1>2. CASE ledger' = ledger BY <1>1, <1>2 DEF RecordedWhole
<1>3. CASE Untraced(r) /\ Bank!TopUp(r, Target(r), cmd[r].amount)
  <2> DEFINE row == Bank!Entry(r, "TOPUP", Target(r), "CREDIT", cmd[r].amount,
                               accounts[Target(r)].currency)
  <2>1. ledger' = ledger \cup {row} /\ row.by = r /\ row.entry = "TOPUP"
    BY <1>3 DEF Bank!TopUp, Bank!Entry
  <2> HIDE DEF row
  <2>2. \A t : IsStored(t) => t.id # r BY <1>3 DEF Untraced, IsStored
  <2>3. ASSUME NEW t, IsStored(t)
        PROVE  \A e : e \in ledger' /\ e.by = t.id <=> e \in ledger /\ e.by = t.id
    BY <2>1, <2>2, <2>3
  <2>4. \A e \in ledger' : e.entry = "TRANSFER" => e \in ledger BY <2>1
  <2> QED BY <1>1, <2>3, <2>4 DEF RecordedWhole
<1> QED BY <1>2, <1>3

\* A committed transfer has succeeded and has exactly its two ledger rows and
\* its outbox event, and nothing else has: TransfersService.create is all or
\* nothing for every set of requests.
THEOREM RecordedWholeAlways == Spec => []TransferRecordedWhole
<1>1. Init => RecordedWhole
  <2> SUFFICES ASSUME Init PROVE RecordedWhole OBVIOUS
  <2>1. outbox = {} /\ \A i \in Index : transfers[i] = NoTransfer
    BY DEF Init, Bank!Init, Index, Bank!Index
  <2>2. \A t : ~ IsStored(t) BY <2>1 DEF IsStored
  <2>3. \A e \in ledger : e.entry = "TOPUP"
    BY DEF Init, Bank!Init, Bank!OpeningEntries, Bank!Entry
  <2> QED BY <2>1, <2>2, <2>3 DEF RecordedWhole
<1>2. Inv /\ RecordedWhole /\ [Next]_vars => RecordedWhole'
  <2> SUFFICES ASSUME Inv, RecordedWhole, [Next]_vars PROVE RecordedWhole' OBVIOUS
  <2> TypeOK BY DEF Inv
  <2>1. CASE UNCHANGED tables BY <2>1 DEF tables, RecordedWhole, IsStored
  <2>2. CASE ~ UNCHANGED tables
    <3>1. PICK r \in Requests : Step(r) \/ Fail(r) \/ DeadlockVictim(r)
      BY <2>2 DEF Next, Terminated, vars
    <3>2. CASE Commit(r)
      <4>1. Untraced(r) BY <3>2 DEF Commit, At, Inv, LockDiscipline
      <4>2. CASE Bank!Transfer(r, cmd[r].user, cmd[r].key, Payload(r))
        BY <4>1, <4>2, TransferKeepsWhole
      <4>3. CASE Bank!TopUp(r, Target(r), cmd[r].amount)
        BY <4>1, <4>3, OthersKeepWhole DEF Bank!TopUp
      <4> QED BY <2>2, <3>2, <4>2, <4>3, CommitEffect
    <3>3. CASE UNCHANGED <<transfers, ledger, outbox>>
      BY <3>3, OthersKeepWhole
    <3> QED BY <2>2, <3>1, <3>2, <3>3, TablesChange
  <2> QED BY <2>1, <2>2
<1>3. Inv /\ RecordedWhole => TransferRecordedWhole BY RecordedWholeSays DEF Inv
<1> QED BY <1>1, <1>2, <1>3, SpecInv, PTL DEF Spec

-----------------------------------------------------------------------------
(* What the clients are told *)

\* The codes of a request whose transaction was undone.
RefusalCodes == {"400", "403", "404", "409", "40P01"}

\* What the answer of r says, and that there is none before the end.
Answered(r) ==
  /\ pc[r] # "done" => reply[r].code = "none"
  /\ reply[r].code \in RefusalCodes => Untraced(r)
  /\ cmd[r].op = "transfer" /\ reply[r].code \in {"ok", "409"} =>
       /\ transfers[Key(r)] # NoTransfer
       /\ reply[r].code = "ok" => /\ reply[r].transfer = transfers[Key(r)]
                                  /\ transfers[Key(r)].body = Payload(r)
       /\ reply[r].code = "409" => transfers[Key(r)].body # Payload(r)

\* The steps of other requests leave the answer of q true.
LEMMA OthersAnswered ==
  ASSUME TypeOK, NEW r, OthersKept(r), RowsKept(r), NEW q \in Requests \ {r}, Answered(q)
  PROVE  Answered(q)'
<1>0. Key(q) \in Index BY CommandTypes
<1>1. /\ cmd' = cmd /\ pc'[q] = pc[q] /\ reply'[q] = reply[q]
      /\ Key(q)' = Key(q) /\ Payload(q)' = Payload(q)
  BY DEF OthersKept, Key, Payload
<1>2. Untraced(q) => Untraced(q)' BY DEF RowsKept, Untraced
<1>3. transfers[Key(q)] # NoTransfer => transfers'[Key(q)] = transfers[Key(q)]
  BY <1>0 DEF RowsKept
<1> QED BY <1>1, <1>2, <1>3 DEF Answered

\* An undone transaction is answered truthfully: without a trace, and with
\* 409 only by the comparison of the stored row with the payload.
LEMMA RollbackAnswered ==
  ASSUME TypeOK, NEW r \in Requests, Untraced(r),
         NEW code \in RefusalCodes \cup {"500"}, Rollback(r, code),
         code = "409" => /\ transfers[Key(r)] # NoTransfer
                         /\ transfers[Key(r)].body # Payload(r)
  PROVE  Answered(r)'
<1>1. /\ reply'[r] = [code |-> code, transfer |-> NoTransfer] /\ pc'[r] = "done"
      /\ cmd' = cmd /\ UNCHANGED tables
  BY DEF Rollback, Finish, GoTo, TypeOK
<1>2. Untraced(r)' BY <1>1 DEF tables, Untraced
<1>3. Key(r)' = Key(r) /\ Payload(r)' = Payload(r) BY <1>1 DEF Key, Payload
<1> QED BY <1>1, <1>2, <1>3 DEF Answered, RefusalCodes, tables

\* A step that answers nobody keeps the answer empty.
LEMMA SilentAnswered ==
  ASSUME TypeOK, NEW r \in Requests, Answered(r), pc[r] # "done",
         reply' = reply, NEW next, next # "done", GoTo(r, next)
  PROVE  Answered(r)'
<1>1. reply'[r].code = "none" BY DEF Answered
<1> QED BY <1>1 DEF Answered, RefusalCodes, GoTo, TypeOK

\* A COMMIT answers "ok" with the row that is stored after it.
LEMMA CommitAnswered ==
  ASSUME Inv, NEW r \in Requests, Commit(r)
  PROVE  Answered(r)'
<1> TypeOK BY DEF Inv
<1>0. Key(r) \in Index BY CommandTypes
<1>1. pc[r] = "commit" /\ WritesOf(r) BY DEF Commit, At, Inv, LockDiscipline
<1>2. /\ cmd' = cmd /\ pc'[r] = "done"
      /\ Key(r)' = Key(r) /\ Payload(r)' = Payload(r)
      /\ \/ reply'[r].code = "500"
         \/ reply'[r] = [code |-> "ok", transfer |-> tx[r].answer]
  BY DEF Commit, Finish, GoTo, Key, Payload, TypeOK
<1>3. CASE cmd[r].op # "transfer" BY <1>2, <1>3 DEF Answered, RefusalCodes
<1>4. CASE cmd[r].op = "transfer"
  <2> DEFINE settled == Stored(r, "SUCCESS")
  <2>0. settled # NoTransfer /\ settled.body = Payload(r) BY StoredType DEF Stored
  <2>1. transfers' = IF tx[r].row = NoTransfer THEN transfers
                     ELSE [transfers EXCEPT ![Key(r)] = tx[r].row]
    BY DEF Commit
  <2>2. CASE tx[r].row = settled /\ tx[r].answer = settled
    <3>1. transfers'[Key(r)] = settled BY <1>0, <2>0, <2>1, <2>2 DEF TypeOK
    <3> QED BY <1>2, <2>0, <2>2, <3>1 DEF Answered, RefusalCodes
  <2>3. CASE /\ tx[r].row = NoTransfer /\ tx[r].answer = transfers[Key(r)]
             /\ transfers[Key(r)] # NoTransfer
             /\ transfers[Key(r)].body = Payload(r)
    BY <1>2, <2>1, <2>3 DEF Answered, RefusalCodes
  <2> QED BY <1>1, <1>4, <2>2, <2>3 DEF WritesOf, Written
<1> QED BY <1>3, <1>4

\* The steps of r answer it truthfully.
LEMMA OwnAnswered ==
  ASSUME Inv, NEW r \in Requests, Answered(r), Step(r) \/ Fail(r) \/ DeadlockVictim(r)
  PROVE  Answered(r)'
<1> TypeOK BY DEF Inv
<1>0. Target(r) \in Accounts /\ accounts[Target(r)].status \in {"ABSENT", "ACTIVE", "LOCKED"}
  <2>1. Target(r) \in Accounts BY CommandTypes
  <2> QED BY <2>1 DEF TypeOK, AccountRow
<1>1. pc[r] # "done" => Untraced(r) BY DEF Inv, LockDiscipline
<1>2. ASSUME pc[r] # "done", NEW code \in RefusalCodes \cup {"500"}, code # "409",
             Rollback(r, code)
      PROVE  Answered(r)'
  BY <1>1, <1>2, RollbackAnswered
<1>3. ASSUME pc[r] # "done", reply' = reply, NEW next, next # "done", GoTo(r, next)
      PROVE  Answered(r)'
  BY <1>3, SilentAnswered
<1>4. CASE Forbid(r) BY <1>2, <1>4 DEF Forbid, RefusalCodes
<1>5. CASE Begin(r)
  <2>1. Start(cmd[r].op) # "done" BY DEF Start
  <2> QED BY <1>2, <1>3, <1>5, <2>1 DEF Begin, RefusalCodes
<1>6. CASE Fail(r) BY <1>2, <1>6 DEF Fail, Connected
<1>7. CASE DeadlockVictim(r)
  <2>1. pc[r] # "done"
    <3>1. Blockers(r) # {} BY <1>7 DEF DeadlockVictim, Deadlocked
    <3> QED BY <3>1 DEF Blockers
  <2> QED BY <1>2, <1>7, <2>1 DEF DeadlockVictim, RefusalCodes
<1>8. CASE Insert(r)
  <2>1. pc[r] = "insert" /\ reply' = reply BY <1>8 DEF Insert, At
  <2>2. \E next \in {"fkSource", "lockFirst", "existing"} : GoTo(r, next)
    BY <1>8 DEF Insert
  <2> QED BY <1>3, <2>1, <2>2
<1>9. CASE CheckForeignKeys(r)
  <2>1. \/ pc[r] # "done" /\ Rollback(r, "500")
        \/ \E next \in {"fkDestination", "lockFirst"} :
             pc[r] # "done" /\ GoTo(r, next) /\ reply' = reply
    BY <1>9 DEF CheckForeignKeys, ForeignKey, At
  <2> QED BY <1>2, <1>3, <2>1
<1>10. CASE Existing(r)
  <2>1. pc[r] = "existing" /\ transfers[Key(r)] # NoTransfer /\ Untraced(r)
    BY <1>1, <1>10 DEF Existing, At, Inv, LockDiscipline, OwnsKey
  <2>2. CASE transfers[Key(r)].body # Payload(r)
    BY <1>10, <2>1, <2>2, RollbackAnswered DEF Existing, RefusalCodes
  <2>3. CASE transfers[Key(r)].body = Payload(r)
    BY <1>3, <1>10, <2>1, <2>3 DEF Existing
  <2> QED BY <2>2, <2>3
<1>11. CASE LockFirst(r) BY <1>2, <1>3, <1>11 DEF LockFirst, At, RefusalCodes
<1>12. CASE LockSecond(r)
  <2> DEFINE code == Verdict(r, seen[r], accounts[SecondRow(r)])
  <2>1. code # "ok" => code \in {"404", "400", "403"} BY DEF Verdict
  <2>2. pc[r] # "done" BY <1>12 DEF LockSecond, At
  <2>3. \/ code # "ok" /\ Rollback(r, code)
        \/ GoTo(r, "debit") /\ reply' = reply
    BY <1>12 DEF LockSecond
  <2> HIDE DEF code
  <2> QED BY <1>2, <1>3, <2>1, <2>2, <2>3 DEF RefusalCodes
<1>13. CASE Debit(r) \/ Credit(r) \/ Entries(r) \/ Success(r) \/ TopUpUpdate(r) \/ TopUpEntry(r)
  BY <1>3, <1>13 DEF Debit, Credit, Entries, Success, TopUpUpdate, TopUpEntry, Write, At
<1>14. CASE Event(r) BY <1>3, <1>14 DEF Event, At
<1>15. CASE TopUpLock(r)
  <2>1. pc[r] # "done" BY <1>15 DEF TopUpLock, At
  <2>2. \/ \E code \in {"404", "400"} : Rollback(r, code)
        \/ GoTo(r, "topupUpdate") /\ reply' = reply
    BY <1>0, <1>15 DEF TopUpLock
  <2> QED BY <1>2, <1>3, <2>1, <2>2 DEF RefusalCodes
<1>16. ASSUME pc[r] \in {"setStatus", "insertAccount"}, Autocommit(r) PROVE Answered(r)'
  <2>1. cmd[r].op # "transfer" BY <1>16 DEF Inv, LockDiscipline, RightOperation
  <2>2. cmd' = cmd /\ pc'[r] = "done" /\ reply'[r].code \in {"ok", "500"}
    BY <1>16 DEF Autocommit, Finish, GoTo, TypeOK
  <2> QED BY <2>1, <2>2 DEF Answered, RefusalCodes
<1>17. CASE UpdateStatus(r)
  <2>1. pc[r] = "setStatus" BY <1>17 DEF UpdateStatus, At
  <2> QED BY <1>2, <1>16, <1>17, <2>1 DEF UpdateStatus, RefusalCodes
<1>18. CASE InsertAccount(r)
  <2>1. pc[r] = "insertAccount" BY <1>18 DEF InsertAccount, At
  <2> QED BY <1>2, <1>16, <1>18, <2>1 DEF InsertAccount, RefusalCodes
<1>19. CASE Commit(r) BY <1>19, CommitAnswered
<1> QED BY <1>4, <1>5, <1>6, <1>7, <1>8, <1>9, <1>10, <1>11, <1>12, <1>13, <1>14, <1>15,
           <1>17, <1>18, <1>19
        DEF Step, TransferStep, AccountStep

\* Every answer is true, always.
LEMMA SpecAnswered == Spec => [](\A r \in Requests : Answered(r))
<1> DEFINE All == \A r \in Requests : Answered(r)
<1>1. Init => All BY DEF Init, Answered, RefusalCodes
<1>2. Inv /\ All /\ [Next]_vars => All'
  <2> SUFFICES ASSUME Inv, All, [Next]_vars, NEW q \in Requests PROVE Answered(q)'
    OBVIOUS
  <2> TypeOK BY DEF Inv
  <2>1. CASE UNCHANGED vars
    <3>1. OthersKept(Nobody) /\ RowsKept(Nobody)
      BY <2>1 DEF vars, tables, locks, OthersKept, RowsKept
    <3> QED BY <3>1, OthersAnswered
  <2>2. ASSUME NEW r \in Requests, Step(r) \/ Fail(r) \/ DeadlockVictim(r)
        PROVE  Answered(q)'
    <3>1. OthersKept(r) BY <2>2, StepKeepsOthers
    <3>2. RowsKept(r) BY <2>2, StepKeepsRows
    <3>3. CASE q # r BY <3>1, <3>2, <3>3, OthersAnswered
    <3>4. CASE q = r BY <2>2, <3>4, OwnAnswered
    <3> QED BY <3>3, <3>4
  <2> QED BY <2>1, <2>2 DEF Next, Terminated
<1> HIDE DEF All
<1>3. Spec => []All BY <1>1, <1>2, SpecInv, PTL DEF Spec
<1> QED BY <1>3 DEF All

\* Idempotency: whoever is told that a transfer succeeded got the stored row
\* of that key for the body that was sent, and 409 means the stored row of the
\* key has another body - for every number of concurrent requests that share
\* a key.
THEOREM AnswersAlwaysStored == Spec => []AnswersAreStored
<1>1. (\A r \in Requests : Answered(r)) => AnswersAreStored
  BY DEF Answered, AnswersAreStored
<1> QED BY <1>1, SpecAnswered, PTL

\* A request that was refused (400, 403, 404, 409 or as a deadlock victim)
\* leaves no row behind in any table.
THEOREM RefusedNeverTraced == Spec => []RefusedLeavesNoTrace
<1>1. (\A r \in Requests : Answered(r)) => RefusedLeavesNoTrace
  BY DEF Answered, RefusedLeavesNoTrace, RefusalCodes
<1> QED BY <1>1, SpecAnswered, PTL
-----------------------------------------------------------------------------
(* Sums over finite sets *)

\* A set of natural numbers has a smallest one.
LEMMA SmallestNat ==
  ASSUME NEW T, T \subseteq Nat, T # {}
  PROVE  \E x \in T : \A y \in T : ~ (y < x)
<1> DEFINE R == OpToRel(<, Nat)
<1>1. IsWellFoundedOn(R, Nat) BY NatLessThanWellFounded
<1>2. \A x, y \in Nat : y < x => <<y, x>> \in R BY DEF OpToRel
<1> HIDE DEF R
<1>3. \E x \in T : \A y \in T : ~ (<<y, x>> \in R) BY <1>1, WFMin
<1> QED BY <1>2, <1>3

\* Induction over a set of natural numbers.
LEMMA Inductive ==
  ASSUME NEW G, 0 \in G, \A n \in Nat : n \in G => n + 1 \in G
  PROVE  \A n \in Nat : n \in G
<1> SUFFICES ASSUME \E n \in Nat : n \notin G PROVE FALSE OBVIOUS
<1> DEFINE Missing == {n \in Nat : n \notin G}
<1>1. PICK least \in Missing : \A n \in Missing : ~ (n < least) BY SmallestNat
<1>2. least # 0 /\ least \in Nat OBVIOUS
<1>3. least - 1 \in Nat /\ least - 1 < least /\ (least - 1) + 1 = least BY <1>2
<1>4. least - 1 \in G BY <1>1, <1>3
<1> QED BY <1>3, <1>4

\* The element a sum takes next, and the sum of g over S as the recursion of
\* SumFunctionOnSet defines it.
Any(S)        == CHOOSE x \in S : TRUE
Plus(g, f, S) == IF S = {} THEN 0 ELSE g[Any(S)] + f[S \ {Any(S)}]
Sums(g, f, S) == f = [s \in SUBSET S |-> Plus(g, f, s)]
Total(g, S)   == (CHOOSE f : Sums(g, f, S))[S]

\* SumFunctionOnSet is that sum.
LEMMA SumIsTotal ==
  ASSUME NEW g, NEW S
  PROVE  SumFunctionOnSet(g, S) = Total(g, S)
BY DEF SumFunctionOnSet, FoldFunctionOnSet, MapThenFoldSet, Total, Sums, Plus, Any

\* A nonempty finite set has one element less without the one Any takes.
LEMMA OneLess ==
  ASSUME NEW S, IsFiniteSet(S), S # {}
  PROVE  /\ Any(S) \in S /\ IsFiniteSet(S \ {Any(S)})
         /\ Cardinality(S) \in Nat \ {0}
         /\ Cardinality(S \ {Any(S)}) \in Nat
         /\ Cardinality(S) = Cardinality(S \ {Any(S)}) + 1
<1>1. Any(S) \in S BY DEF Any
<1>2. Cardinality(S) \in Nat BY FS_CardinalityType
<1>3. IsFiniteSet(S \ {Any(S)}) /\ Cardinality(S \ {Any(S)}) = Cardinality(S) - 1
  BY <1>1, FS_RemoveElement
<1>4. Cardinality(S \ {Any(S)}) \in Nat BY <1>3, FS_CardinalityType
<1> QED BY <1>1, <1>2, <1>3, <1>4

\* Induction over the subsets of a finite set: a family of sets that has the
\* empty one, and every nonempty one that it has without its Any, has all.
LEMMA SubsetInduction ==
  ASSUME NEW S, IsFiniteSet(S), NEW Good, {} \in Good,
         \A s \in SUBSET S : s # {} /\ s \ {Any(s)} \in Good => s \in Good
  PROVE  \A s \in SUBSET S : s \in Good
<1> DEFINE G == {n \in Nat : \A s \in SUBSET S : Cardinality(s) = n => s \in Good}
<1>0. \A s \in SUBSET S : IsFiniteSet(s) /\ Cardinality(s) \in Nat
  BY FS_Subset, FS_CardinalityType
<1>1. 0 \in G
  <2>1. \A s \in SUBSET S : Cardinality(s) = 0 => s = {} BY <1>0, FS_EmptySet
  <2> QED BY <2>1
<1>2. ASSUME NEW n \in Nat, n \in G PROVE n + 1 \in G
  <2>1. ASSUME NEW s \in SUBSET S, Cardinality(s) = n + 1 PROVE s \in Good
    <3>1. s # {} BY <1>0, <2>1, FS_EmptySet
    <3>2. s \ {Any(s)} \in SUBSET S /\ Cardinality(s \ {Any(s)}) = n
      BY <1>0, <2>1, <3>1, OneLess
    <3>3. s \ {Any(s)} \in Good BY <1>2, <3>2
    <3> QED BY <3>1, <3>3
  <2> QED BY <2>1
<1> HIDE DEF G
<1>3. \A n \in Nat : n \in G BY <1>1, <1>2, Inductive
<1> QED BY <1>0, <1>3 DEF G

\* The recursion has a solution on every finite set: one that is right for the
\* subsets of n elements makes one that is right for n + 1.
LEMMA SumExists ==
  ASSUME NEW g, NEW S, IsFiniteSet(S)
  PROVE  \E f : Sums(g, f, S)
<1> DEFINE Right(f, n) == \A s \in SUBSET S : Cardinality(s) <= n => f[s] = Plus(g, f, s)
           G == {n \in Nat : \E f : Right(f, n)}
<1>0. \A s \in SUBSET S : IsFiniteSet(s) /\ Cardinality(s) \in Nat
                          /\ Cardinality(s) <= Cardinality(S)
  BY FS_Subset, FS_CardinalityType
<1>1. 0 \in G
  <2> DEFINE f == [s \in SUBSET S |-> 0]
  <2>1. \A s \in SUBSET S : Cardinality(s) <= 0 => s = {} BY <1>0, FS_EmptySet
  <2>2. Right(f, 0) BY <2>1 DEF Plus
  <2> QED BY <2>2
<1>2. ASSUME NEW n \in Nat, n \in G PROVE n + 1 \in G
  <2>1. PICK f : Right(f, n) BY <1>2
  <2> DEFINE next == [s \in SUBSET S |-> Plus(g, f, s)]
  <2>2. ASSUME NEW s \in SUBSET S, Cardinality(s) <= n + 1 PROVE next[s] = Plus(g, next, s)
    <3>1. CASE s = {} BY <3>1 DEF Plus
    <3>2. CASE s # {}
      <4> DEFINE t == s \ {Any(s)}
      <4>1. t \in SUBSET S /\ Cardinality(t) <= n BY <1>0, <2>2, <3>2, OneLess
      <4>2. next[t] = f[t] BY <2>1, <4>1
      <4>3. next[s] = g[Any(s)] + f[t] BY <3>2 DEF Plus
      <4> QED BY <3>2, <4>2, <4>3 DEF Plus
    <3> QED BY <3>1, <3>2
  <2>3. Right(next, n + 1) BY <2>2
  <2> HIDE DEF next
  <2>4. \E h : Right(h, n + 1) BY <2>3
  <2> QED BY <2>4
<1> HIDE DEF G
<1>3. Cardinality(S) \in Nat BY FS_CardinalityType
<1>4. Cardinality(S) \in G BY <1>1, <1>2, <1>3, Inductive
<1>5. PICK f : Right(f, Cardinality(S)) BY <1>4 DEF G
<1>6. \A s \in SUBSET S : f[s] = Plus(g, f, s) BY <1>0, <1>5
<1> DEFINE h == [s \in SUBSET S |-> f[s]]
<1>7. ASSUME NEW s \in SUBSET S PROVE Plus(g, f, s) = Plus(g, h, s)
  BY DEF Plus
<1>8. h = [s \in SUBSET S |-> Plus(g, h, s)] BY <1>6, <1>7
<1> QED BY <1>8 DEF Sums

\* ... and only one, whatever g is outside the smaller set.
LEMMA SumUnique ==
  ASSUME NEW g, NEW h, NEW S, NEW T, IsFiniteSet(T), T \subseteq S,
         \A x \in T : g[x] = h[x],
         NEW f, NEW e, Sums(g, f, S), Sums(h, e, T)
  PROVE  f[T] = e[T]
<1> DEFINE Good == {s \in SUBSET T : f[s] = e[s]}
<1>0. \A s \in SUBSET T : f[s] = Plus(g, f, s) /\ e[s] = Plus(h, e, s)
  BY DEF Sums
<1>1. {} \in Good BY <1>0 DEF Plus
<1>2. ASSUME NEW s \in SUBSET T, s # {}, s \ {Any(s)} \in Good PROVE s \in Good
  <2>1. Any(s) \in T BY <1>2 DEF Any
  <2> QED BY <1>0, <1>2, <2>1 DEF Plus
<1> HIDE DEF Good
<1>3. T \in Good BY <1>1, <1>2, SubsetInduction
<1> QED BY <1>3 DEF Good

\* The sum only depends on what g is on the set.
LEMMA TotalSame ==
  ASSUME NEW g, NEW h, NEW S, IsFiniteSet(S), \A x \in S : g[x] = h[x]
  PROVE  Total(g, S) = Total(h, S)
<1> DEFINE f == CHOOSE f : Sums(g, f, S)
           e == CHOOSE e : Sums(h, e, S)
<1>1. Sums(g, f, S) /\ Sums(h, e, S) BY SumExists
<1>2. Total(g, S) = f[S] /\ Total(h, S) = e[S] BY DEF Total
<1> HIDE DEF f, e
<1> QED BY <1>1, <1>2, SumUnique

\* The equations of the sum.
LEMMA TotalIs ==
  ASSUME NEW g, NEW S, IsFiniteSet(S)
  PROVE  /\ S = {} => Total(g, S) = 0
         /\ S # {} => Total(g, S) = g[Any(S)] + Total(g, S \ {Any(S)})
<1> DEFINE f == CHOOSE f : Sums(g, f, S)
           T == S \ {Any(S)}
           e == CHOOSE e : Sums(g, e, T)
<1>1. Sums(g, f, S) BY SumExists
<1>2. f[S] = Plus(g, f, S) BY <1>1 DEF Sums
<1>3. Total(g, S) = f[S] BY DEF Total
<1>4. CASE S = {} BY <1>2, <1>3, <1>4 DEF Plus
<1>5. CASE S # {}
  <2>1. IsFiniteSet(T) BY FS_Subset
  <2>2. Sums(g, e, T) BY <2>1, SumExists
  <2>3. Total(g, T) = e[T] BY DEF Total
  <2>4. T \subseteq S OBVIOUS
  <2> HIDE DEF f, e, T
  <2>5. f[T] = e[T] BY <1>1, <2>1, <2>2, <2>4, SumUnique
  <2> QED BY <1>2, <1>3, <1>5, <2>3, <2>5 DEF Plus, T
<1> QED BY <1>4, <1>5

\* A sum of integers is an integer.
LEMMA TotalType ==
  ASSUME NEW g, NEW S, IsFiniteSet(S), \A x \in S : g[x] \in Int
  PROVE  Total(g, S) \in Int
<1> DEFINE Good == {s \in SUBSET S : Total(g, s) \in Int}
<1>0. Total(g, {}) = 0
  <2>1. IsFiniteSet({}) BY FS_EmptySet
  <2> QED BY <2>1, TotalIs
<1>1. {} \in Good BY <1>0
<1>2. ASSUME NEW s \in SUBSET S, s # {}, s \ {Any(s)} \in Good PROVE s \in Good
  <2>1. IsFiniteSet(s) /\ Any(s) \in S BY <1>2, FS_Subset DEF Any
  <2>2. Total(g, s) = g[Any(s)] + Total(g, s \ {Any(s)}) BY <1>2, <2>1, TotalIs
  <2> QED BY <1>2, <2>1, <2>2
<1> HIDE DEF Good
<1>3. S \in Good BY <1>1, <1>2, SubsetInduction
<1> QED BY <1>3 DEF Good

\* A new element adds its share, whatever element the sum takes next.
LEMMA TotalAdds ==
  ASSUME NEW g, NEW S, IsFiniteSet(S), NEW e, e \notin S,
         \A x \in S \cup {e} : g[x] \in Int
  PROVE  Total(g, S \cup {e}) = Total(g, S) + g[e]
<1> DEFINE U == S \cup {e}
           Adds(s, x) == Total(g, s \cup {x}) = Total(g, s) + g[x]
           G == {n \in Nat : \A s \in SUBSET U, x \in U :
                   IsFiniteSet(s) /\ Cardinality(s) = n /\ x \notin s => Adds(s, x)}
<1>1. ASSUME NEW s \in SUBSET U, NEW x \in U, IsFiniteSet(s), x \notin s,
             \A y \in s : \A z \in U :
               z \notin s \ {y} => Adds(s \ {y}, z)
      PROVE  Adds(s, x)
  <2> DEFINE T == s \cup {x}
             y == Any(T)
  <2>1. IsFiniteSet(T) /\ T # {} /\ y \in T BY <1>1, FS_AddElement, OneLess
  <2>2. Total(g, T) = g[y] + Total(g, T \ {y}) BY <2>1, TotalIs
  <2> HIDE DEF y
  <2>3. CASE y = x
    <3>1. T \ {y} = s BY <1>1, <2>3
    <3>2. Total(g, s) \in Int /\ g[x] \in Int BY <1>1, TotalType
    <3>3. Total(g, T) = g[x] + Total(g, s) BY <2>2, <2>3, <3>1, Zenon
    <3> QED BY <3>2, <3>3
  <2>4. CASE y # x
    <3> DEFINE t == s \ {y}
    <3>1. y \in s /\ T \ {y} = t \cup {x} /\ t \cup {y} = s BY <2>1, <2>4
    <3>2. y \in U /\ y \notin t /\ x \notin t BY <1>1, <3>1
    <3>3. Adds(t, x) /\ Adds(t, y) BY <1>1, <3>1, <3>2
    <3>4. IsFiniteSet(t) /\ t \subseteq U BY <1>1, FS_RemoveElement
    <3>5. Total(g, t) \in Int /\ g[x] \in Int /\ g[y] \in Int
      BY <3>2, <3>4, TotalType
    <3> HIDE DEF t
    <3>6. Total(g, T) = g[y] + (Total(g, t) + g[x]) BY <2>2, <3>1, <3>3
    <3>7. Total(g, s) = Total(g, t) + g[y] BY <3>1, <3>3
    <3> QED BY <3>5, <3>6, <3>7
  <2> QED BY <2>3, <2>4
<1>2. 0 \in G
  <2>1. ASSUME NEW s \in SUBSET U, NEW x \in U,
               IsFiniteSet(s), Cardinality(s) = 0, x \notin s
        PROVE  Adds(s, x)
    <3>1. s = {} BY <2>1, FS_EmptySet
    <3> QED BY <1>1, <2>1, <3>1
  <2> QED BY <2>1
<1>3. ASSUME NEW n \in Nat, n \in G PROVE n + 1 \in G
  <2>1. ASSUME NEW s \in SUBSET U, NEW x \in U,
               IsFiniteSet(s), Cardinality(s) = n + 1, x \notin s
        PROVE  Adds(s, x)
    <3>1. ASSUME NEW y \in s, NEW z \in U, z \notin s \ {y}
          PROVE  Adds(s \ {y}, z)
      <4>1. IsFiniteSet(s \ {y}) /\ Cardinality(s \ {y}) = Cardinality(s) - 1
        BY <2>1, FS_RemoveElement
      <4>2. Cardinality(s \ {y}) = n BY <2>1, <4>1
      <4>3. s \ {y} \in SUBSET U OBVIOUS
      <4> QED BY <1>3, <3>1, <4>1, <4>2, <4>3
    <3> QED BY <1>1, <2>1, <3>1
  <2> QED BY <2>1
<1> HIDE DEF G
<1>4. Cardinality(S) \in Nat BY FS_CardinalityType
<1>5. Cardinality(S) \in G BY <1>2, <1>3, <1>4, Inductive
<1>6. S \in SUBSET U /\ e \in U OBVIOUS
<1> QED BY <1>5, <1>6 DEF G

\* A sum in which one share changes.
LEMMA TotalMoves ==
  ASSUME NEW g, NEW h, NEW S, IsFiniteSet(S), NEW e \in S,
         \A x \in S : g[x] \in Int /\ h[x] \in Int,
         \A x \in S \ {e} : h[x] = g[x]
  PROVE  Total(h, S) = Total(g, S) - g[e] + h[e]
<1> DEFINE T == S \ {e}
<1>1. IsFiniteSet(T) /\ e \notin T /\ T \cup {e} = S BY FS_Subset
<1> HIDE DEF T
<1>2. \A x \in T : x \in S /\ h[x] = g[x] BY DEF T
<1>3. Total(g, S) = Total(g, T) + g[e] BY <1>1, TotalAdds
<1>4. Total(h, S) = Total(h, T) + h[e] BY <1>1, TotalAdds
<1>5. Total(h, T) = Total(g, T) BY <1>1, <1>2, TotalSame
<1>6. Total(g, T) \in Int /\ g[e] \in Int /\ h[e] \in Int BY <1>1, <1>2, TotalType
<1> QED BY <1>3, <1>4, <1>5, <1>6

-----------------------------------------------------------------------------
(* The ledger explains the balances *)

RowsOf(a) == {e \in ledger : e.account = a}

\* What a ledger row adds to the balance of its account.
Signed == [e \in LedgerRow |-> IF e.side = "CREDIT" THEN e.amount ELSE -e.amount]

\* A row's share is a number.
LEMMA SignedType == ASSUME NEW e \in LedgerRow PROVE Signed[e] \in Int
BY DEF Signed, LedgerRow

\* The query of the reconciliation adds up the rows of the account.
LEMMA BalanceIsTotal ==
  ASSUME TypeOK, NEW a, IsFiniteSet(RowsOf(a))
  PROVE  LedgerBalance(ledger, a) = Total(Signed, RowsOf(a))
<1> DEFINE g == [e \in ledger |-> IF e.side = "CREDIT" THEN e.amount ELSE -e.amount]
<1>1. LedgerBalance(ledger, a) = Total(g, RowsOf(a))
  BY SumIsTotal DEF LedgerBalance, RowsOf
<1>2. \A e \in RowsOf(a) : g[e] = Signed[e] BY DEF RowsOf, Signed, TypeOK
<1> QED BY <1>1, <1>2, TotalSame

\* Every account has finitely many rows, which add up to its balance, and no
\* row before it exists.
Explained(a) ==
  /\ IsFiniteSet(RowsOf(a))
  /\ accounts[a].balance = Total(Signed, RowsOf(a))
  /\ accounts[a].status = "ABSENT" => RowsOf(a) = {}

\* An account that does not exist has no money.
LEMMA AbsentIsEmpty ==
  ASSUME NEW a \in Accounts, Explained(a), accounts[a].status = "ABSENT"
  PROVE  accounts[a].balance = 0
<1>1. RowsOf(a) = {} BY DEF Explained
<1>2. IsFiniteSet({}) BY FS_EmptySet
<1>3. Total(Signed, {}) = 0 BY <1>2, TotalIs
<1> QED BY <1>1, <1>3 DEF Explained

\* A new row moves the sum of its account by its share.
LEMMA NewRow ==
  ASSUME TypeOK, NEW a \in Accounts, Explained(a),
         NEW e \in LedgerRow, e \notin ledger
  PROVE  /\ IsFiniteSet(RowsOf(a) \cup {e})
         /\ Total(Signed, RowsOf(a) \cup {e}) = accounts[a].balance + Signed[e]
<1>1. RowsOf(a) \subseteq LedgerRow /\ e \notin RowsOf(a) BY DEF RowsOf, TypeOK
<1>2. \A x \in RowsOf(a) \cup {e} : Signed[x] \in Int BY <1>1, SignedType
<1> QED BY <1>1, <1>2, TotalAdds, FS_AddElement DEF Explained

\* An account whose row and ledger rows stay is as explained as it was.
LEMMA SameExplained ==
  ASSUME NEW a \in Accounts, Explained(a), RowsOf(a)' = RowsOf(a),
         accounts'[a].balance = accounts[a].balance,
         accounts'[a].status = "ABSENT" => accounts[a].status = "ABSENT"
  PROVE  Explained(a)'
BY DEF Explained

\* A top-up adds one CREDIT row to the account it pays into.
LEMMA TopUpExplained ==
  ASSUME TypeOK, NEW r \in Requests, Bank!TopUp(r, Target(r), cmd[r].amount),
         NEW a \in Accounts, Explained(a)
  PROVE  Explained(a)'
<1> DEFINE t == Target(r)
           e == Entry(r, "TOPUP", t, "CREDIT", cmd[r].amount, accounts[t].currency)
<1>0. t \in Accounts /\ cmd[r].amount \in Nat \ {0} /\ accounts[t] \in AccountRow
  BY CommandTypes DEF TypeOK
<1>1. /\ ledger' = ledger \cup {e} /\ e \notin ledger
      /\ accounts' = [accounts EXCEPT ![t].balance = @ + cmd[r].amount]
      /\ accounts[t].status = "ACTIVE"
  BY DEF Bank!TopUp, Bank!Entry, Entry, Bank!Fresh
<1>2. e \in LedgerRow BY <1>0 DEF Entry, LedgerRow, AccountRow
<1>3. e.account = t /\ Signed[e] = cmd[r].amount BY <1>2 DEF Entry, Signed
<1> HIDE DEF e
<1>4. CASE a = t
  <2>1. RowsOf(a)' = RowsOf(a) \cup {e} BY <1>1, <1>3, <1>4 DEF RowsOf
  <2>2. /\ accounts'[a].balance = accounts[a].balance + cmd[r].amount
        /\ accounts'[a].status = "ACTIVE"
    BY <1>0, <1>1, <1>4 DEF TypeOK, AccountRow
  <2>3. /\ IsFiniteSet(RowsOf(a) \cup {e})
        /\ Total(Signed, RowsOf(a) \cup {e}) = accounts[a].balance + cmd[r].amount
    <3>1. /\ IsFiniteSet(RowsOf(a) \cup {e})
          /\ Total(Signed, RowsOf(a) \cup {e}) = accounts[a].balance + Signed[e]
      BY <1>1, <1>2, NewRow
    <3> QED BY <1>3, <3>1
  <2> QED BY <2>1, <2>2, <2>3, Zenon DEF Explained
<1>5. CASE a # t
  <2>1. RowsOf(a)' = RowsOf(a) BY <1>1, <1>3, <1>5 DEF RowsOf
  <2>2. accounts'[a] = accounts[a] BY <1>0, <1>1, <1>5 DEF TypeOK
  <2> QED BY <2>1, <2>2, SameExplained
<1> QED BY <1>4, <1>5

\* A transfer adds a DEBIT row to its source and a CREDIT row to its
\* destination.
LEMMA TransferExplained ==
  ASSUME TypeOK, NEW r \in Requests,
         Bank!Transfer(r, cmd[r].user, cmd[r].key, Payload(r)),
         NEW a \in Accounts, Explained(a)
  PROVE  Explained(a)'
<1> DEFINE src == Source(r)
           dst == Target(r)
           n   == cmd[r].amount
           out == Entry(r, "TRANSFER", src, "DEBIT", n, cmd[r].currency)
           in  == Entry(r, "TRANSFER", dst, "CREDIT", n, cmd[r].currency)
<1>0. /\ src \in Accounts /\ dst \in Accounts /\ n \in Nat \ {0}
      /\ cmd[r].currency \in Currencies
      /\ accounts[src] \in AccountRow /\ accounts[dst] \in AccountRow
  BY CommandTypes DEF TypeOK
<1>1. /\ ledger' = ledger \cup {out, in} /\ out \notin ledger /\ in \notin ledger
      /\ out # in
  BY DEF Bank!Transfer, Bank!TransferEntries, Bank!Entry, Entry, Bank!Fresh, Payload,
         Source, Target
<1>2. out \in LedgerRow /\ in \in LedgerRow BY <1>0 DEF Entry, LedgerRow
<1>3. /\ out.account = src /\ Signed[out] = -n
      /\ in.account = dst /\ Signed[in] = n
  BY <1>2 DEF Entry, Signed
<1>4. /\ accounts'[a].balance = accounts[a].balance + ((IF a = dst THEN n ELSE 0)
                                                       - (IF a = src THEN n ELSE 0))
      /\ accounts'[a].status = accounts[a].status
      /\ a \in {src, dst} => accounts[a].status = "ACTIVE"
      /\ accounts[a].balance \in Int
  BY TransferMoves DEF TypeOK, AccountRow
<1> HIDE DEF out, in, src, dst, n
<1>5. CASE a = src /\ a # dst
  <2>1. RowsOf(a)' = RowsOf(a) \cup {out} BY <1>1, <1>3, <1>5 DEF RowsOf
  <2>2. /\ IsFiniteSet(RowsOf(a) \cup {out})
        /\ Total(Signed, RowsOf(a) \cup {out}) = accounts[a].balance + -n
    BY <1>1, <1>2, <1>3, NewRow
  <2>3. accounts'[a].balance = accounts[a].balance + -n BY <1>0, <1>4, <1>5
  <2>4. accounts'[a].status = "ACTIVE" BY <1>4, <1>5
  <2> QED BY <2>1, <2>2, <2>3, <2>4, Zenon DEF Explained
<1>6. CASE a = dst /\ a # src
  <2>1. RowsOf(a)' = RowsOf(a) \cup {in} BY <1>1, <1>3, <1>6 DEF RowsOf
  <2>2. /\ IsFiniteSet(RowsOf(a) \cup {in})
        /\ Total(Signed, RowsOf(a) \cup {in}) = accounts[a].balance + n
    BY <1>1, <1>2, <1>3, NewRow
  <2>3. accounts'[a].balance = accounts[a].balance + n BY <1>0, <1>4, <1>6
  <2>4. accounts'[a].status = "ACTIVE" BY <1>4, <1>6
  <2> QED BY <2>1, <2>2, <2>3, <2>4, Zenon DEF Explained
<1>7. CASE a = src /\ a = dst
  <2> DEFINE rows == RowsOf(a) \cup {out}
  <2>1. RowsOf(a)' = rows \cup {in} BY <1>1, <1>3, <1>7 DEF RowsOf
  <2>2. IsFiniteSet(rows) /\ Total(Signed, rows) = accounts[a].balance + -n
    BY <1>1, <1>2, <1>3, NewRow
  <2>3. in \notin rows /\ \A e \in rows \cup {in} : Signed[e] \in Int
    <3>1. RowsOf(a) \subseteq ledger /\ ledger \subseteq LedgerRow BY DEF RowsOf, TypeOK
    <3> QED BY <1>1, <1>2, <3>1, SignedType
  <2> HIDE DEF rows
  <2>4. IsFiniteSet(rows \cup {in}) BY <2>2, FS_AddElement
  <2>5. Total(Signed, rows \cup {in}) = Total(Signed, rows) + Signed[in]
    BY <2>2, <2>3, TotalAdds
  <2>6. accounts'[a].balance = Total(Signed, rows \cup {in})
    BY <1>0, <1>3, <1>4, <1>7, <2>2, <2>5
  <2>7. accounts'[a].status = "ACTIVE" BY <1>4, <1>7
  <2> QED BY <2>1, <2>4, <2>6, <2>7, Zenon DEF Explained
<1>8. CASE a # src /\ a # dst
  <2>1. RowsOf(a)' = RowsOf(a) BY <1>1, <1>3, <1>8 DEF RowsOf
  <2>2. accounts'[a].balance = accounts[a].balance BY <1>0, <1>4, <1>8
  <2> QED BY <1>4, <2>1, <2>2, SameExplained
<1> QED BY <1>5, <1>6, <1>7, <1>8

\* At the start each balance was paid in by one row.
LEMMA OpeningExplained ==
  ASSUME Init, NEW a \in Accounts
  PROVE  Explained(a)
<1> DEFINE e == Entry(Nobody, "TOPUP", a, "CREDIT", Opening[a].balance, Opening[a].currency)
<1>0. accounts[a] = Opening[a] /\ Opening[a] \in AccountRow BY DEF Init, Bank!Init
<1>1. ledger = {Entry(Nobody, "TOPUP", x, "CREDIT", Opening[x].balance, Opening[x].currency) :
                  x \in {x \in Accounts : Opening[x].balance > 0}}
  BY DEF Init, Bank!Init, Bank!OpeningEntries, Bank!Entry, Entry
<1>2. IsFiniteSet({}) /\ Total(Signed, {}) = 0 BY FS_EmptySet, TotalIs
<1>3. CASE Opening[a].balance > 0
  <2>1. RowsOf(a) = {e}
    <3>1. e \in RowsOf(a) BY <1>1, <1>3 DEF RowsOf, Entry
    <3>2. ASSUME NEW x \in RowsOf(a) PROVE x = e
      <4>1. PICK y \in Accounts : x = Entry(Nobody, "TOPUP", y, "CREDIT",
                                            Opening[y].balance, Opening[y].currency)
        BY <1>1 DEF RowsOf
      <4>2. y = a BY <4>1 DEF RowsOf, Entry
      <4> QED BY <4>1, <4>2
    <3> QED BY <3>1, <3>2
  <2>2. e \in LedgerRow BY <1>0, <1>3 DEF Entry, LedgerRow, AccountRow
  <2>3. Signed[e] = Opening[a].balance BY <2>2 DEF Signed, Entry
  <2> HIDE DEF e
  <2>4. {} \cup {e} = {e} OBVIOUS
  <2>5. Total(Signed, {} \cup {e}) = Total(Signed, {}) + Signed[e]
    BY <1>2, <2>2, SignedType, TotalAdds
  <2>6. Total(Signed, {e}) = 0 + Opening[a].balance BY <1>2, <2>3, <2>4, <2>5, Zenon
  <2>7. Total(Signed, {e}) = Opening[a].balance BY <1>0, <2>6 DEF AccountRow
  <2>8. IsFiniteSet({e}) BY FS_Singleton
  <2>9. accounts[a].status # "ABSENT" BY <1>0, <1>3, OpeningAssumption
  <2> QED BY <1>0, <2>1, <2>7, <2>8, <2>9, Zenon DEF Explained
<1>4. CASE ~ (Opening[a].balance > 0)
  <2>1. RowsOf(a) = {} BY <1>1, <1>4 DEF RowsOf, Entry
  <2>2. Opening[a].balance = 0 BY <1>0, <1>4, OpeningAssumption DEF AccountRow
  <2> QED BY <1>0, <1>2, <2>1, <2>2, Zenon DEF Explained
<1> QED BY <1>3, <1>4

\* Every operation adds to a balance what it adds to the sum.
LEMMA StepExplained ==
  ASSUME Inv, [Next]_vars, \A a \in Accounts : Explained(a), NEW a \in Accounts
  PROVE  Explained(a)'
<1> TypeOK BY DEF Inv
<1>0. accounts[a] \in AccountRow BY DEF TypeOK
<1>1. CASE UNCHANGED tables
  BY <1>1, SameExplained DEF tables, RowsOf
<1>2. CASE ~ UNCHANGED tables
  <2>1. PICK r \in Requests : Step(r) \/ Fail(r) \/ DeadlockVictim(r)
    BY <1>2 DEF Next, Terminated, vars
  <2>2. Target(r) \in Accounts BY CommandTypes
  <2>3. CASE Bank!TopUp(r, Target(r), cmd[r].amount) BY <2>3, TopUpExplained
  <2>4. CASE Bank!Transfer(r, cmd[r].user, cmd[r].key, Payload(r))
    BY <2>4, TransferExplained
  <2>5. CASE \E status \in {"ACTIVE", "LOCKED"} : Bank!SetStatus(Target(r), status)
    <3>1. PICK status \in {"ACTIVE", "LOCKED"} : Bank!SetStatus(Target(r), status)
      BY <2>5
    <3>2. RowsOf(a)' = RowsOf(a) BY <3>1 DEF Bank!SetStatus, RowsOf
    <3>3. /\ accounts'[a].balance = accounts[a].balance
          /\ accounts'[a].status = "ABSENT" => accounts[a].status = "ABSENT"
      BY <1>0, <2>2, <3>1 DEF Bank!SetStatus, TypeOK, AccountRow
    <3> QED BY <3>2, <3>3, SameExplained
  <2>6. CASE Bank!Open(cmd[r].user, Target(r), cmd[r].currency)
    <3>1. RowsOf(a)' = RowsOf(a) BY <2>6 DEF Bank!Open, RowsOf
    <3>2. CASE a = Target(r)
      <4>1. RowsOf(a) = {} BY <2>6, <3>2 DEF Bank!Open, Explained
      <4>2. accounts'[a].balance = 0 BY <2>2, <2>6, <3>2 DEF Bank!Open, TypeOK
      <4>3. IsFiniteSet({}) /\ Total(Signed, {}) = 0 BY FS_EmptySet, TotalIs
      <4> QED BY <3>1, <4>1, <4>2, <4>3, Zenon DEF Explained
    <3>3. CASE a # Target(r)
      <4>1. accounts'[a] = accounts[a] BY <2>2, <2>6, <3>3 DEF Bank!Open, TypeOK
      <4> QED BY <3>1, <4>1, SameExplained
    <3> QED BY <3>2, <3>3
  <2> QED BY <1>2, <2>1, <2>3, <2>4, <2>5, <2>6, StepSimulates
<1> QED BY <1>1, <1>2

\* AdminReconciliationService never reports a mismatch, whenever it runs
\* between the statements of any number of requests: for every account the
\* stored balance is the sum over its ledger rows.
THEOREM LedgerAlwaysExplains == Spec => []LedgerExplainsBalances
<1> DEFINE All == \A a \in Accounts : Explained(a)
<1>1. Init => All BY OpeningExplained
<1>2. Inv /\ All /\ [Next]_vars => All' BY StepExplained
<1>3. Inv /\ All => LedgerExplainsBalances
  <2>1. ASSUME Inv, All, NEW a \in Accounts
        PROVE  accounts[a].balance = LedgerBalance(ledger, a)
    <3>1. LedgerBalance(ledger, a) = Total(Signed, RowsOf(a))
      BY <2>1, BalanceIsTotal DEF Inv, Explained
    <3> QED BY <2>1, <3>1 DEF Explained
  <2> QED BY <2>1 DEF LedgerExplainsBalances, Mismatches
<1> HIDE DEF All
<1> QED BY <1>1, <1>2, <1>3, SpecInv, PTL DEF Spec

-----------------------------------------------------------------------------
(* Money is conserved *)

\* The accounts and the TOPUP rows of a currency, what each of them holds.
AccountsIn(c) == {a \in Accounts : accounts[a].currency = c}
TopUpsIn(c)   == {e \in ledger : e.entry = "TOPUP" /\ e.currency = c}
Balances      == [a \in Accounts |-> accounts[a].balance]
Amount        == [e \in LedgerRow |-> e.amount]

\* There are finitely many TOPUP rows of a currency, and their sum is in its
\* accounts.
Conserved(c) ==
  /\ IsFiniteSet(TopUpsIn(c))
  /\ Total(Balances, AccountsIn(c)) = Total(Amount, TopUpsIn(c))

\* The parts say what MoneyConserved says.
LEMMA ConservedSays ==
  ASSUME TypeOK, NEW c, Conserved(c)
  PROVE  Money(accounts, c) = PaidIn(ledger, c)
<1> DEFINE g == [e \in ledger |-> e.amount]
<1>1. Money(accounts, c) = Total(Balances, AccountsIn(c))
  BY SumIsTotal DEF Money, Balances, AccountsIn
<1>2. PaidIn(ledger, c) = Total(g, TopUpsIn(c)) BY SumIsTotal DEF PaidIn, TopUpsIn
<1>3. \A e \in TopUpsIn(c) : g[e] = Amount[e] BY DEF TopUpsIn, Amount, TypeOK
<1>4. Total(g, TopUpsIn(c)) = Total(Amount, TopUpsIn(c))
  BY <1>3, TotalSame DEF Conserved
<1> QED BY <1>1, <1>2, <1>4 DEF Conserved

\* The balances are integers.
LEMMA BalanceTypes ==
  ASSUME TypeOK
  PROVE  /\ \A a \in Accounts : Balances[a] \in Int /\ Balances[a] = accounts[a].balance
         /\ \A e \in ledger : Amount[e] \in Int /\ Amount[e] = e.amount
         /\ \A c : AccountsIn(c) \subseteq Accounts
BY DEF Balances, Amount, AccountsIn, TypeOK, AccountRow, LedgerRow

\* A change of no balance and no currency.
LEMMA SameMoney ==
  ASSUME IsFiniteSet(Accounts), NEW c, Conserved(c), TopUpsIn(c)' = TopUpsIn(c),
         \A a \in Accounts : /\ accounts'[a].balance = accounts[a].balance
                             /\ accounts'[a].currency = accounts[a].currency
  PROVE  Conserved(c)'
<1>1. AccountsIn(c)' = AccountsIn(c) BY DEF AccountsIn
<1>2. IsFiniteSet(AccountsIn(c)) BY FS_Subset DEF AccountsIn
<1>3. Balances' = Balances BY DEF Balances
<1> QED BY <1>1, <1>3 DEF Conserved

\* A transfer takes from one account of its currency what it gives to another.
LEMMA TransferConserves ==
  ASSUME TypeOK, TypeOK', IsFiniteSet(Accounts), NEW r \in Requests,
         Bank!Transfer(r, cmd[r].user, cmd[r].key, Payload(r)),
         NEW c, Conserved(c)
  PROVE  Conserved(c)'
<1> DEFINE src == Source(r)
           dst == Target(r)
           n   == cmd[r].amount
           half == [Balances EXCEPT ![src] = @ - n]
<1>0. /\ src \in Accounts /\ dst \in Accounts /\ n \in Nat \ {0}
      /\ accounts[src] \in AccountRow /\ accounts[dst] \in AccountRow
  BY CommandTypes DEF TypeOK
<1>1. ledger' = ledger \cup TransferEntries(r, Payload(r))
  BY DEF Bank!Transfer, Bank!TransferEntries, TransferEntries, Bank!Entry, Entry
<1>2. TopUpsIn(c)' = TopUpsIn(c) BY <1>1 DEF TopUpsIn, TransferEntries, Entry
<1>3. /\ \A a \in Accounts :
           /\ accounts'[a].balance = accounts[a].balance + ((IF a = dst THEN n ELSE 0)
                                                            - (IF a = src THEN n ELSE 0))
           /\ accounts'[a].currency = accounts[a].currency
           /\ accounts[a].balance \in Int
      /\ accounts[src].currency = accounts[dst].currency
  BY TransferMoves DEF TypeOK, AccountRow
<1>4. AccountsIn(c)' = AccountsIn(c) BY <1>3 DEF AccountsIn
<1>5. CASE src \notin AccountsIn(c)
  <2>1. dst \notin AccountsIn(c) BY <1>0, <1>3, <1>5 DEF AccountsIn
  <2>2. \A a \in AccountsIn(c) : Balances'[a] = Balances[a]
    <3>1. ASSUME NEW a \in AccountsIn(c) PROVE accounts'[a].balance = accounts[a].balance
      <4>1. a \in Accounts /\ a # src /\ a # dst BY <1>5, <2>1 DEF AccountsIn
      <4> QED BY <1>3, <4>1
    <3> QED BY <3>1 DEF Balances, AccountsIn
  <2>3. IsFiniteSet(AccountsIn(c)) BY FS_Subset, BalanceTypes
  <2>4. Total(Balances', AccountsIn(c)) = Total(Balances, AccountsIn(c))
    BY <2>2, <2>3, TotalSame
  <2> QED BY <1>2, <1>4, <2>4 DEF Conserved
<1>6. CASE src \in AccountsIn(c)
  <2> DEFINE S == AccountsIn(c)
  <2>0. PICK after : after = [a \in Accounts |-> accounts'[a].balance] OBVIOUS
  <2>1. src \in S /\ dst \in S BY <1>0, <1>3, <1>6 DEF AccountsIn
  <2>2. IsFiniteSet(S) /\ S \subseteq Accounts BY FS_Subset, BalanceTypes
  <2>3. /\ half[src] = Balances[src] - n
        /\ \A a \in S \ {src} : half[a] = Balances[a]
    BY <1>0, <2>2 DEF Balances
  <2>4. /\ after[dst] = half[dst] + n
        /\ \A a \in S \ {dst} : after[a] = half[a]
    <3>1. \A a \in Accounts : after[a] = accounts'[a].balance BY <2>0
    <3>2. half[src] = accounts[src].balance - n BY <1>0 DEF Balances
    <3>3. \A a \in Accounts \ {src} : half[a] = accounts[a].balance
      BY <1>0 DEF Balances
    <3> HIDE DEF half, src, dst, n
    <3>4. \A a \in Accounts : after[a] = half[a] + (IF a = dst THEN n ELSE 0)
      <4>1. ASSUME NEW a \in Accounts, a = src PROVE after[a] = half[a] + (IF a = dst THEN n ELSE 0)
        BY <1>0, <1>3, <3>1, <3>2, <4>1
      <4>2. ASSUME NEW a \in Accounts, a # src PROVE after[a] = half[a] + (IF a = dst THEN n ELSE 0)
        BY <1>0, <1>3, <3>1, <3>3, <4>2
      <4> QED BY <4>1, <4>2
    <3>5. \A a \in Accounts : half[a] \in Int BY <1>0, <1>3, <3>2, <3>3
    <3>6. dst \in Accounts /\ S \subseteq Accounts BY <1>0, <2>2
    <3> HIDE DEF S
    <3>7. \A a \in S : after[a] = half[a] + (IF a = dst THEN n ELSE 0) BY <3>4, <3>6
    <3>8. \A a \in S \ {dst} : after[a] = half[a] BY <3>5, <3>6, <3>7
    <3> QED BY <3>4, <3>6, <3>8
  <2>5. \A a \in S : Balances[a] \in Int /\ after[a] \in Int
    <3>1. accounts' \in [Accounts -> AccountRow] BY DEF TypeOK
    <3>2. \A a \in Accounts : accounts'[a].balance \in Int BY <3>1 DEF AccountRow
    <3>3. \A a \in Accounts : after[a] \in Int BY <2>0, <3>2
    <3>4. \A a \in Accounts : Balances[a] \in Int BY BalanceTypes
    <3> QED BY <2>2, <3>3, <3>4
  <2>6. \A a \in S : half[a] \in Int BY <1>0, <2>1, <2>3, <2>5
  <2>7. Balances' = after BY <2>0 DEF Balances
  <2> HIDE DEF half, S
  <2>8. Total(half, S) = Total(Balances, S) - Balances[src] + half[src]
    <3>1. \A a \in S : Balances[a] \in Int /\ half[a] \in Int BY <2>5, <2>6
    <3>2. IsFiniteSet(S) /\ src \in S /\ \A a \in S \ {src} : half[a] = Balances[a]
      BY <2>1, <2>2, <2>3
    <3> QED BY <3>1, <3>2, TotalMoves
  <2>9. Total(after, S) = Total(half, S) - half[dst] + after[dst]
    <3>1. \A a \in S : half[a] \in Int /\ after[a] \in Int BY <2>5, <2>6
    <3>2. IsFiniteSet(S) /\ dst \in S /\ \A a \in S \ {dst} : after[a] = half[a]
      BY <2>1, <2>2, <2>4
    <3> QED BY <3>1, <3>2, TotalMoves
  <2>10. Total(Balances, S) \in Int BY <2>2, <2>5, TotalType
  <2>11. Total(after, S) = Total(Balances, S)
    BY <1>0, <2>1, <2>3, <2>4, <2>5, <2>6, <2>8, <2>9, <2>10
  <2> QED BY <1>2, <1>4, <2>7, <2>11 DEF Conserved, S
<1> QED BY <1>5, <1>6

\* A top-up gives its account what its row says was paid in.
LEMMA TopUpConserves ==
  ASSUME TypeOK, TypeOK', IsFiniteSet(Accounts), NEW r \in Requests,
         Bank!TopUp(r, Target(r), cmd[r].amount), NEW c, Conserved(c)
  PROVE  Conserved(c)'
<1> DEFINE t == Target(r)
           n == cmd[r].amount
           e == Entry(r, "TOPUP", t, "CREDIT", n, accounts[t].currency)
           S == AccountsIn(c)
<1>a. PICK after : after = [a \in Accounts |-> accounts'[a].balance] OBVIOUS
<1>0. t \in Accounts /\ n \in Nat \ {0} /\ accounts[t] \in AccountRow
  BY CommandTypes DEF TypeOK
<1>1. /\ ledger' = ledger \cup {e} /\ e \notin ledger
      /\ accounts' = [accounts EXCEPT ![t].balance = @ + n]
  BY DEF Bank!TopUp, Bank!Entry, Entry, Bank!Fresh
<1>2. e \in LedgerRow BY <1>0 DEF Entry, LedgerRow, AccountRow
<1>3. Amount[e] = n /\ e.entry = "TOPUP" /\ e.currency = accounts[t].currency
  BY <1>2 DEF Entry, Amount
<1>4. /\ after[t] = Balances[t] + n
      /\ \A a \in Accounts \ {t} : after[a] = Balances[a]
      /\ \A a \in Accounts : accounts'[a].currency = accounts[a].currency
      /\ Balances' = after
  BY <1>a, <1>0, <1>1 DEF TypeOK, AccountRow, Balances
<1>5. AccountsIn(c)' = S BY <1>4 DEF AccountsIn
<1>6. IsFiniteSet(S) /\ S \subseteq Accounts BY FS_Subset, BalanceTypes
<1>7. \A a \in S : Balances[a] \in Int /\ after[a] \in Int
  <2>1. accounts' \in [Accounts -> AccountRow] BY DEF TypeOK
  <2>2. \A a \in Accounts : accounts'[a].balance \in Int BY <2>1 DEF AccountRow
  <2>3. \A a \in Accounts : after[a] \in Int BY <1>a, <2>2
  <2>4. \A a \in Accounts : Balances[a] \in Int BY BalanceTypes
  <2> QED BY <1>6, <2>3, <2>4
<1> HIDE DEF e
<1>8. CASE t \in S
  <2>1. e.currency = c BY <1>3, <1>8 DEF AccountsIn
  <2>2. TopUpsIn(c)' = TopUpsIn(c) \cup {e} /\ e \notin TopUpsIn(c)
    BY <1>1, <1>3, <2>1 DEF TopUpsIn
  <2>3. IsFiniteSet(TopUpsIn(c)) /\ Total(Balances, S) = Total(Amount, TopUpsIn(c))
    BY DEF Conserved
  <2>4. \A x \in TopUpsIn(c) \cup {e} : Amount[x] \in Int
    BY <1>2, BalanceTypes DEF TopUpsIn, Amount, LedgerRow
  <2> HIDE DEF S
  <2>5. Total(Amount, TopUpsIn(c) \cup {e}) = Total(Amount, TopUpsIn(c)) + n
    BY <1>3, <2>2, <2>3, <2>4, TotalAdds
  <2>6. Total(after, S) = Total(Balances, S) - Balances[t] + after[t]
    <3>1. \A a \in S \ {t} : after[a] = Balances[a] BY <1>4, <1>6
    <3>2. IsFiniteSet(S) BY <1>6
    <3> QED BY <1>7, <1>8, <3>1, <3>2, TotalMoves
  <2>7. Total(Balances, S) \in Int BY <1>6, <1>7, TotalType
  <2>8. Total(after, S) = Total(Balances, S) + n
    BY <1>0, <1>4, <1>7, <1>8, <2>6, <2>7
  <2>9. Total(after, S) = Total(Amount, TopUpsIn(c) \cup {e})
    BY <2>3, <2>5, <2>8
  <2>10. IsFiniteSet(TopUpsIn(c) \cup {e}) BY <2>3, FS_AddElement
  <2> QED BY <1>4, <1>5, <2>2, <2>9, <2>10, Zenon DEF Conserved, S
<1>9. CASE t \notin S
  <2>1. e.currency # c BY <1>0, <1>3, <1>9 DEF AccountsIn
  <2>2. TopUpsIn(c)' = TopUpsIn(c) BY <1>1, <2>1 DEF TopUpsIn
  <2>3. \A a \in S : after[a] = Balances[a] BY <1>4, <1>6, <1>9
  <2>4. Total(after, S) = Total(Balances, S) BY <1>6, <2>3, TotalSame
  <2> QED BY <1>4, <1>5, <2>2, <2>4 DEF Conserved
<1> QED BY <1>8, <1>9

\* A new account brings no money, whatever currency its number had before.
LEMMA OpenConserves ==
  ASSUME TypeOK, IsFiniteSet(Accounts), NEW r \in Requests,
         Bank!Open(cmd[r].user, Target(r), cmd[r].currency),
         accounts[Target(r)].balance = 0, NEW c, Conserved(c)
  PROVE  Conserved(c)'
<1> DEFINE t == Target(r)
           T == AccountsIn(c) \ {t}
<1>0. t \in Accounts BY CommandTypes
<1>1. /\ accounts'[t].balance = 0
      /\ \A a \in Accounts \ {t} : accounts'[a] = accounts[a]
      /\ TopUpsIn(c)' = TopUpsIn(c)
  BY <1>0 DEF Bank!Open, TypeOK, TopUpsIn
<1>2. \A a \in Accounts : accounts'[a].balance = accounts[a].balance BY <1>1
<1>3. Balances' = Balances BY <1>2 DEF Balances
<1>4. AccountsIn(c) \in {T, T \cup {t}} OBVIOUS
<1>5. (AccountsIn(c))' \in {T, T \cup {t}}
  <2>1. \A a \in Accounts \ {t} : a \in (AccountsIn(c))' <=> a \in AccountsIn(c)
    BY <1>1 DEF AccountsIn
  <2>2. (AccountsIn(c))' \subseteq Accounts /\ AccountsIn(c) \subseteq Accounts
    BY DEF AccountsIn
  <2> HIDE DEF t
  <2> QED BY <2>1, <2>2
<1>6. IsFiniteSet(T) /\ t \notin T /\ Balances[t] = 0 /\ \A a \in T \cup {t} : Balances[a] \in Int
  <2>1. IsFiniteSet(T) BY FS_Subset, BalanceTypes
  <2>2. \A a \in T \cup {t} : Balances[a] \in Int BY <1>0, BalanceTypes
  <2>3. Balances[t] = 0 BY <1>0 DEF Balances
  <2> QED BY <2>1, <2>2, <2>3
<1> HIDE DEF T
<1>7. Total(Balances, T) \in Int BY <1>6, TotalType
<1>8. Total(Balances, T \cup {t}) = Total(Balances, T) + Balances[t] BY <1>6, TotalAdds
<1>9. Total(Balances, T \cup {t}) = Total(Balances, T) BY <1>6, <1>7, <1>8
<1>10. Total(Balances, (AccountsIn(c))') = Total(Balances, AccountsIn(c)) BY <1>4, <1>5, <1>9
<1> QED BY <1>1, <1>3, <1>10 DEF Conserved

\* At the start every balance was paid in by one row of its currency.
LEMMA OpeningConserved ==
  ASSUME Init, IsFiniteSet(Accounts), NEW c
  PROVE  Conserved(c)
<1> DEFINE Row(a)  == Entry(Nobody, "TOPUP", a, "CREDIT", Opening[a].balance, Opening[a].currency)
           Rows(s) == {Row(a) : a \in {x \in s : Opening[x].balance > 0}}
           Good    == {s \in SUBSET Accounts :
                         /\ IsFiniteSet(Rows(s))
                         /\ Total(Balances, s) = Total(Amount, Rows(s))}
<1>0. /\ accounts = Opening /\ ledger = Rows(Accounts)
      /\ \A a \in Accounts : Opening[a] \in AccountRow
  BY DEF Init, Bank!Init, Bank!OpeningEntries, Bank!Entry, Entry
<1>1. /\ \A a \in Accounts : Balances[a] = Opening[a].balance /\ Balances[a] \in Nat
      /\ \A a \in Accounts : Opening[a].balance > 0 => Amount[Row(a)] = Opening[a].balance
  BY <1>0, OpeningAssumption DEF Balances, Amount, LedgerRow, AccountRow, Entry
<1>2. \A a, b \in Accounts : Row(a) = Row(b) => a = b BY DEF Entry
<1>3. {} \in Good
  <2>1. Rows({}) = {} OBVIOUS
  <2>2. IsFiniteSet({}) BY FS_EmptySet
  <2>3. Total(Balances, {}) = 0 /\ Total(Amount, {}) = 0 BY <2>2, TotalIs
  <2> QED BY <2>1, <2>2, <2>3
<1>4. ASSUME NEW s \in SUBSET Accounts, s # {}, s \ {Any(s)} \in Good PROVE s \in Good
  <2> DEFINE b == Any(s)
             t == s \ {b}
  <2>1. b \in s /\ b \in Accounts /\ t \cup {b} = s /\ b \notin t BY <1>4 DEF Any
  <2>2. IsFiniteSet(t) /\ t \subseteq Accounts BY FS_Subset
  <2>3. IsFiniteSet(Rows(t)) /\ Total(Balances, t) = Total(Amount, Rows(t)) BY <1>4
  <2> HIDE DEF b
  <2>4. \A a \in t \cup {b} : Balances[a] \in Int BY <1>1, <2>1, <2>2
  <2>5. Total(Balances, s) = Total(Balances, t) + Balances[b]
    BY <2>1, <2>2, <2>4, TotalAdds
  <2>6. Total(Balances, t) \in Int BY <2>2, <2>4, TotalType
  <2>7. CASE Opening[b].balance > 0
    <3>1. Rows(s) = Rows(t) \cup {Row(b)} BY <2>1, <2>7
    <3>2. Row(b) \notin Rows(t) BY <1>2, <2>1, <2>2
    <3>3. \A e \in Rows(t) \cup {Row(b)} : Amount[e] \in Int
      BY <1>1, <2>1, <2>2, <2>7
    <3>4. Amount[Row(b)] = Balances[b] BY <1>1, <2>1, <2>7
    <3> HIDE DEF Rows, Row
    <3>5. Total(Amount, Rows(t) \cup {Row(b)}) = Total(Amount, Rows(t)) + Amount[Row(b)]
      BY <2>3, <3>2, <3>3, TotalAdds
    <3>6. IsFiniteSet(Rows(s))
      <4>1. IsFiniteSet(Rows(t) \cup {Row(b)}) BY <2>3, FS_AddElement
      <4> QED BY <3>1, <4>1
    <3>7. Total(Balances, s) = Total(Amount, Rows(s)) BY <2>3, <2>5, <3>1, <3>4, <3>5
    <3> QED BY <3>6, <3>7
  <2>8. CASE ~ (Opening[b].balance > 0)
    <3>1. Rows(s) = Rows(t) BY <2>1, <2>8
    <3>2. Balances[b] = 0 BY <1>1, <2>1, <2>8
    <3> HIDE DEF Rows
    <3>3. Total(Balances, s) = Total(Amount, Rows(s)) BY <2>3, <2>5, <2>6, <3>1, <3>2
    <3> QED BY <2>3, <3>1, <3>3
  <2> QED BY <2>7, <2>8
<1>5. AccountsIn(c) \in Good
  <2>1. IsFiniteSet(AccountsIn(c)) /\ AccountsIn(c) \subseteq Accounts
    BY FS_Subset DEF AccountsIn
  <2>2. \A s \in SUBSET AccountsIn(c) : s # {} /\ s \ {Any(s)} \in Good => s \in Good
    BY <1>4, <2>1
  <2> HIDE DEF Good
  <2> QED BY <1>3, <2>1, <2>2, SubsetInduction
<1>6. TopUpsIn(c) = Rows(AccountsIn(c))
  <2>1. \A a \in Accounts : Row(a).entry = "TOPUP" /\ Row(a).currency = Opening[a].currency
    BY DEF Entry
  <2> HIDE DEF Row
  <2>2. ledger = {Row(a) : a \in {x \in Accounts : Opening[x].balance > 0}} BY <1>0
  <2>3. ASSUME NEW e PROVE e \in TopUpsIn(c) <=> e \in Rows(AccountsIn(c))
    BY <1>0, <2>1, <2>2 DEF TopUpsIn, AccountsIn
  <2> QED BY <2>3, Zenon
<1> QED BY <1>5, <1>6 DEF Conserved

\* Every operation conserves money.
LEMMA StepConserves ==
  ASSUME IsFiniteSet(Accounts), Inv, [Next]_vars, \A a \in Accounts : Explained(a),
         NEW c, Conserved(c)
  PROVE  Conserved(c)'
<1> TypeOK /\ TypeOK' BY NextTypes DEF Inv
<1>1. CASE UNCHANGED tables
  BY <1>1, SameMoney DEF tables, TopUpsIn
<1>2. CASE ~ UNCHANGED tables
  <2>1. PICK r \in Requests : Step(r) \/ Fail(r) \/ DeadlockVictim(r)
    BY <1>2 DEF Next, Terminated, vars
  <2>2. Target(r) \in Accounts BY CommandTypes
  <2>3. CASE Bank!TopUp(r, Target(r), cmd[r].amount) BY <2>3, TopUpConserves
  <2>4. CASE Bank!Transfer(r, cmd[r].user, cmd[r].key, Payload(r))
    BY <2>4, TransferConserves
  <2>5. CASE \E status \in {"ACTIVE", "LOCKED"} : Bank!SetStatus(Target(r), status)
    <3>1. PICK status \in {"ACTIVE", "LOCKED"} : Bank!SetStatus(Target(r), status)
      BY <2>5
    <3>2. TopUpsIn(c)' = TopUpsIn(c) BY <3>1 DEF Bank!SetStatus, TopUpsIn
    <3>3. \A a \in Accounts : /\ accounts'[a].balance = accounts[a].balance
                              /\ accounts'[a].currency = accounts[a].currency
      BY <2>2, <3>1 DEF Bank!SetStatus, TypeOK, AccountRow
    <3> QED BY <3>2, <3>3, SameMoney
  <2>6. CASE Bank!Open(cmd[r].user, Target(r), cmd[r].currency)
    <3>1. accounts[Target(r)].status = "ABSENT" BY <2>6 DEF Bank!Open
    <3> QED BY <2>2, <2>6, <3>1, AbsentIsEmpty, OpenConserves
  <2> QED BY <1>2, <2>1, <2>3, <2>4, <2>5, <2>6, StepSimulates
<1> QED BY <1>1, <1>2

\* Whatever transfers, top-ups, openings and changes of status run at once, the
\* accounts of each currency hold together what was paid in in it: of the
\* services no statement order, failure or refusal makes or loses money, or
\* moves it between currencies.  The accounts table is finite.
THEOREM MoneyAlwaysConserved == IsFiniteSet(Accounts) /\ Spec => []MoneyConserved
<1> SUFFICES ASSUME IsFiniteSet(Accounts) PROVE Spec => []MoneyConserved OBVIOUS
<1> DEFINE All  == \A a \in Accounts : Explained(a)
           Each == \A c \in Currencies : Conserved(c)
<1>1. Init => All /\ Each BY OpeningExplained, OpeningConserved
<1>2. Inv /\ All /\ [Next]_vars => All' BY StepExplained
<1>3. Inv /\ All /\ Each /\ [Next]_vars => Each' BY StepConserves
<1>4. Inv /\ Each => MoneyConserved BY ConservedSays DEF Inv, MoneyConserved
<1> HIDE DEF All, Each
<1> QED BY <1>1, <1>2, <1>3, <1>4, SpecInv, PTL DEF Spec

-----------------------------------------------------------------------------
(* What a step may never do *)

\* The four operations, as far as StoredForGood and BalancesMoveRightly go.
LEMMA StepStores ==
  ASSUME Inv, [Next]_vars, NEW i \in Index, transfers[i] # NoTransfer
  PROVE  transfers'[i] = transfers[i]
<1> TypeOK BY DEF Inv
<1>1. CASE UNCHANGED tables BY <1>1 DEF tables
<1>2. CASE ~ UNCHANGED tables
  <2>1. PICK r \in Requests : Step(r) \/ Fail(r) \/ DeadlockVictim(r)
    BY <1>2 DEF Next, Terminated, vars
  <2>2. CASE Bank!Transfer(r, cmd[r].user, cmd[r].key, Payload(r))
    BY <2>2 DEF Bank!Transfer, TypeOK
  <2>3. CASE transfers' = transfers BY <2>3
  <2> QED BY <1>2, <2>1, <2>2, <2>3, StepSimulates DEF Bank!TopUp, Bank!SetStatus, Bank!Open
<1> QED BY <1>1, <1>2

\* An account that exists keeps its owner and its currency.
LEMMA StepKeepsAccount ==
  ASSUME Inv, [Next]_vars, NEW a \in Accounts, accounts[a].status # "ABSENT"
  PROVE  /\ accounts'[a].status # "ABSENT"
         /\ accounts'[a].owner = accounts[a].owner
         /\ accounts'[a].currency = accounts[a].currency
<1> TypeOK BY DEF Inv
<1>0. accounts \in [Accounts -> AccountRow] BY DEF TypeOK
<1>1. CASE UNCHANGED tables BY <1>1 DEF tables
<1>2. CASE ~ UNCHANGED tables
  <2>1. PICK r \in Requests : Step(r) \/ Fail(r) \/ DeadlockVictim(r)
    BY <1>2 DEF Next, Terminated, vars
  <2>2. Target(r) \in Accounts BY CommandTypes
  <2>3. CASE Bank!TopUp(r, Target(r), cmd[r].amount)
    BY <1>0, <2>2, <2>3 DEF Bank!TopUp, AccountRow
  <2>4. CASE Bank!Transfer(r, cmd[r].user, cmd[r].key, Payload(r))
    BY <2>4, TransferMoves
  <2>5. CASE \E status \in {"ACTIVE", "LOCKED"} : Bank!SetStatus(Target(r), status)
    BY <1>0, <2>2, <2>5 DEF Bank!SetStatus, AccountRow
  <2>6. CASE Bank!Open(cmd[r].user, Target(r), cmd[r].currency)
    <3>1. a # Target(r) BY <2>6 DEF Bank!Open
    <3> QED BY <1>0, <2>2, <2>6, <3>1 DEF Bank!Open
  <2> QED BY <1>2, <2>1, <2>3, <2>4, <2>5, <2>6, StepSimulates
<1> QED BY <1>1, <1>2

\* A transfer of which the service recognises the source leaves it with a
\* balance that is not negative; no other operation lowers a balance below zero.
LEMMA StepOverdraws ==
  ASSUME Inv, [Next]_vars, NEW a \in Accounts,
         accounts'[a].balance < 0, accounts[a].balance >= 0
  PROVE  \E t \in StoredTransfers' : RowOf[t.body.src] = a /\ ~ Recognised(t.body)
<1> TypeOK BY DEF Inv
<1>0. accounts \in [Accounts -> AccountRow] BY DEF TypeOK
<1>1. ~ UNCHANGED tables
  <2>1. accounts[a].balance \in Int BY <1>0 DEF AccountRow
  <2>2. accounts' # accounts BY <2>1
  <2> QED BY <2>2 DEF tables
<1>2. PICK r \in Requests : Step(r) \/ Fail(r) \/ DeadlockVictim(r)
  BY <1>1 DEF Next, Terminated, vars
<1>3. /\ cmd[r].amount \in Nat \ {0} /\ Key(r) \in Index
      /\ Source(r) \in Accounts /\ Target(r) \in Accounts
  BY CommandTypes
<1>4. CASE Bank!TopUp(r, Target(r), cmd[r].amount)
  BY <1>0, <1>3, <1>4 DEF Bank!TopUp, AccountRow
<1>5. CASE Bank!Transfer(r, cmd[r].user, cmd[r].key, Payload(r))
  <2> DEFINE row == [id |-> r, body |-> Payload(r), status |-> "SUCCESS"]
  <2>1. /\ accounts'[a].balance = accounts[a].balance
                                    + ((IF a = Target(r) THEN cmd[r].amount ELSE 0)
                                       - (IF a = Source(r) THEN cmd[r].amount ELSE 0))
        /\ accounts[a].balance \in Int
    BY <1>5, TransferMoves DEF TypeOK, AccountRow
  <2>2. /\ a = Source(r) /\ a # Target(r)
        /\ accounts[a].balance < cmd[r].amount
    BY <1>3, <2>1
  <2>3. cmd[r].amount <= accounts[Bank!CheckedAccount(Payload(r))].balance
    BY <1>5 DEF Bank!Transfer, Bank!MayTransfer, Payload
  <2>4. RowOf[Payload(r).src] = Source(r) BY DEF Payload, Source
  <2>5. ~ Recognised(Payload(r))
    <3>1. Recognised(Payload(r)) => Bank!CheckedAccount(Payload(r)) = Source(r)
      BY <2>4 DEF Bank!CheckedAccount, Bank!Recognised, Recognised
    <3> QED BY <1>3, <2>1, <2>2, <2>3, <3>1
  <2>6. row \in StoredTransfers'
    <3>1. transfers'[Key(r)] = row
      BY <1>3, <1>5 DEF Bank!Transfer, Key, TypeOK
    <3>2. row # NoTransfer BY StoredType DEF Stored
    <3> HIDE DEF row
    <3> QED BY <1>3, <3>1, <3>2 DEF StoredTransfers
  <2> QED BY <2>2, <2>4, <2>5, <2>6
<1>6. CASE \E status \in {"ACTIVE", "LOCKED"} : Bank!SetStatus(Target(r), status)
  BY <1>0, <1>3, <1>6 DEF Bank!SetStatus, AccountRow
<1>7. CASE Bank!Open(cmd[r].user, Target(r), cmd[r].currency)
  <2>1. accounts'[a].balance \in {accounts[a].balance, 0}
    BY <1>0, <1>3, <1>7 DEF Bank!Open, AccountRow
  <2>2. accounts[a].balance \in Int BY <1>0 DEF AccountRow
  <2> QED BY <2>1, <2>2
<1> QED BY <1>1, <1>2, <1>4, <1>5, <1>6, <1>7, StepSimulates

\* No interleaving of statements, failures and crashes overdraws an account,
\* but for transfers out of an account that the service does not recognise as
\* their source.
THEOREM AccountsNeverOverdrawn == Spec => []NeverOverdrawn
<1>1. Init => NeverOverdrawn
  <2> SUFFICES ASSUME Init, NEW a \in Accounts,
                      accounts[a].balance < 0
               PROVE  FALSE
    BY DEF NeverOverdrawn
  <2>1. Opening[a].balance >= 0 BY OpeningAssumption
  <2>2. Opening[a].balance \in Int BY DEF AccountRow
  <2> QED BY <2>1, <2>2 DEF Init, Bank!Init
<1>2. Inv /\ NeverOverdrawn /\ [Next]_vars => NeverOverdrawn'
  <2> SUFFICES ASSUME Inv, NeverOverdrawn, [Next]_vars,
                      NEW a \in Accounts, accounts'[a].balance < 0
               PROVE  \E t \in StoredTransfers' :
                        RowOf[t.body.src] = a /\ ~ Recognised(t.body)
    BY DEF NeverOverdrawn
  <2>1. StoredTransfers \subseteq StoredTransfers'
    BY StepStores DEF StoredTransfers
  <2>2. CASE accounts[a].balance < 0 BY <2>1, <2>2 DEF NeverOverdrawn
  <2>3. CASE accounts[a].balance >= 0 BY <2>3, StepOverdraws
  <2>4. accounts[a].balance \in Int BY DEF Inv, TypeOK, AccountRow
  <2> QED BY <2>2, <2>3, <2>4
<1> QED BY <1>1, <1>2, SpecInv, PTL DEF Spec

\* Only money of active accounts moves, and goes out of an account by a
\* transfer that the account's owner (or that of the account the service takes
\* for the source) or an ADMIN has asked for.
LEMMA StepMovesRightly ==
  ASSUME Inv, [Next]_vars, NEW a \in Accounts, Explained(a),
         accounts'[a].balance # accounts[a].balance
  PROVE  /\ accounts[a].status = "ACTIVE"
         /\ accounts'[a].balance < accounts[a].balance =>
              \E r \in Requests : PaysFrom(r, a)
<1> TypeOK BY DEF Inv
<1>0. accounts \in [Accounts -> AccountRow] BY DEF TypeOK
<1>1. ~ UNCHANGED tables BY DEF tables
<1>2. PICK r \in Requests : Step(r) \/ Fail(r) \/ DeadlockVictim(r)
  BY <1>1 DEF Next, Terminated, vars
<1>3. Target(r) \in Accounts /\ cmd[r].amount \in Nat \ {0}
      /\ Source(r) \in Accounts /\ Target(r) \in Accounts
  BY CommandTypes
<1>4. CASE Commit(r) /\ cmd[r].op = "topup" /\ Bank!TopUp(r, Target(r), cmd[r].amount)
  BY <1>0, <1>3, <1>4 DEF Bank!TopUp, AccountRow
<1>5. CASE /\ Commit(r) /\ cmd[r].op = "transfer"
           /\ Bank!Transfer(r, cmd[r].user, cmd[r].key, Payload(r))
  <2>1. /\ accounts'[a].balance = accounts[a].balance
                                    + ((IF a = Target(r) THEN cmd[r].amount ELSE 0)
                                       - (IF a = Source(r) THEN cmd[r].amount ELSE 0))
        /\ accounts[a].balance \in Int
        /\ a \in {Source(r), Target(r)} => accounts[a].status = "ACTIVE"
    BY <1>5, TransferMoves DEF TypeOK, AccountRow
  <2>2. a \in {Source(r), Target(r)} BY <1>3, <2>1
  <2>3. accounts'[a].balance < accounts[a].balance => a = Source(r)
    BY <1>3, <2>1
  <2>4. cmd[r].user \in Admins \cup {accounts[CheckedAccount(Payload(r))].owner}
    <3>1. CheckedAccount(Payload(r)) = Bank!CheckedAccount(Payload(r))
      BY DEF CheckedAccount, Bank!CheckedAccount, Recognised, Bank!Recognised
    <3> QED BY <1>5, <3>1 DEF Bank!Transfer, Bank!MayTransfer
  <2>5. pc[r] # "done" /\ pc'[r] = "done"
    BY <1>5 DEF Commit, Finish, GoTo, At, TypeOK
  <2> QED BY <1>5, <2>1, <2>2, <2>3, <2>4, <2>5 DEF PaysFrom
<1>6. CASE \E status \in {"ACTIVE", "LOCKED"} :
             accounts' = [accounts EXCEPT ![Target(r)].status = status]
  BY <1>0, <1>3, <1>6 DEF AccountRow
<1>7. CASE /\ accounts[Target(r)].status = "ABSENT"
           /\ accounts' = [accounts EXCEPT ![Target(r)] =
                             [status |-> "ACTIVE", balance |-> 0,
                              owner |-> cmd[r].user, currency |-> cmd[r].currency]]
  <2>1. a = Target(r) BY <1>0, <1>3, <1>7
  <2>2. accounts'[a].balance = 0 BY <1>0, <1>3, <1>7, <2>1
  <2> QED BY <1>7, <2>1, <2>2, AbsentIsEmpty
<1> QED BY <1>1, <1>2, <1>4, <1>5, <1>6, <1>7, CommitEffect, TablesChange

\* No step overwrites a stored transfer, and no account gets another owner or
\* currency: whoever reads a row again finds what was stored for good.
THEOREM StoredStaysForGood == Spec => StoredForGood
<1> DEFINE Kept ==
      /\ \A i \in Index : transfers[i] # NoTransfer => transfers'[i] = transfers[i]
      /\ \A a \in Accounts : accounts[a].status # "ABSENT" =>
           /\ accounts'[a].status # "ABSENT"
           /\ accounts'[a].owner = accounts[a].owner
           /\ accounts'[a].currency = accounts[a].currency
<1>1. Inv /\ [Next]_vars => Kept BY StepStores, StepKeepsAccount
<1>2. Spec => [][Kept]_vars
  <2> HIDE DEF Kept
  <2> QED BY <1>1, SpecInv, PTL DEF Spec
<1> QED BY <1>2 DEF StoredForGood

\* The balance of a locked account stands still, also under requests that were
\* under way when it was locked, and only transfers out of an account lower its
\* balance: those of an ADMIN or of the owner of the account the service
\* checks, which is the source where it recognises the source.
THEOREM BalancesAlwaysMoveRightly == Spec => BalancesMoveRightly
<1> DEFINE All   == \A a \in Accounts : Explained(a)
           Right == \A a \in Accounts : accounts'[a].balance # accounts[a].balance =>
                      /\ accounts[a].status = "ACTIVE"
                      /\ accounts'[a].balance < accounts[a].balance =>
                           \E r \in Requests : PaysFrom(r, a)
<1>1. Init => All BY OpeningExplained
<1>2. Inv /\ All /\ [Next]_vars => All' BY StepExplained
<1>3. Inv /\ All /\ [Next]_vars => Right BY StepMovesRightly
<1>4. Spec => [][Right]_vars
  <2> HIDE DEF All, Right
  <2> QED BY <1>1, <1>2, <1>3, SpecInv, PTL DEF Spec
<1> QED BY <1>4 DEF BalancesMoveRightly

-----------------------------------------------------------------------------
(* Nobody waits in a circle                                                *)
(* On tables without foreign keys, whoever is in a circle of waiting        *)
(* requests both waits and is waited for; only a transfer at its second     *)
(* SELECT ... FOR UPDATE does both, and it is waited for at its first       *)
(* account, which is the smaller one if the spellings of the ids sort as    *)
(* the accounts do.  Nobody waits for the smallest first account of the     *)
(* circle.                                                                  *)

Unhindered == Checked \cup {"topupUpdate", "topupEntry", "commit"}

\* r holds rows of accounts only while it waits for no row, or for a larger
\* one; and it owns a key only past the INSERT or the SELECT of a stored one.
LocksInOrder(r) ==
  /\ pc[r] \notin {"fkSource", "fkDestination"}
  /\ \A a \in Accounts : held[a] = r =>
       pc[r] \in Unhindered \/ (pc[r] = "lockSecond" /\ a = FirstRow(r))
  /\ \A i \in Index : keyLock[i] = r =>
       pc[r] \in {"lockFirst", "lockSecond", "commit"} \cup Checked
  /\ reply[r].code # "40P01"

InOrder == /\ \A a \in Accounts : shared[a] = {}
           /\ \A r \in Requests : LocksInOrder(r)

AllSort == \A r \in Requests : SortsAsRows(r)

\* Whom a request keeps waiting, and at what.
LEMMA WhoBlocks ==
  ASSUME TypeOK, InOrder, NEW p \in Requests, NEW q, q \in Blockers(p)
  PROVE  /\ q \in Requests
         /\ \/ /\ pc[p] \in {"insert", "existing"}
               /\ keyLock[Key(p)] = q
            \/ /\ pc[p] = "lockFirst" /\ held[FirstRow(p)] = q
            \/ /\ pc[p] = "lockSecond" /\ held[SecondRow(p)] = q
            \/ /\ pc[p] \in {"topupLock", "setStatus"} /\ held[Target(p)] = q
<1>0. /\ Key(p) \in Index /\ FirstRow(p) \in Accounts /\ SecondRow(p) \in Accounts
      /\ Target(p) \in Accounts
  BY CommandTypes
<1>1. /\ shared[FirstRow(p)] = {} /\ shared[SecondRow(p)] = {} /\ shared[Target(p)] = {}
      /\ pc[p] \notin {"fkSource", "fkDestination"}
  BY <1>0 DEF InOrder, LocksInOrder
<1>2. /\ keyLock[Key(p)] \in Requests \cup {Nobody}
      /\ \A a \in Accounts : held[a] \in Requests \cup {Nobody}
  BY <1>0 DEF TypeOK
<1> QED BY <1>0, <1>1, <1>2 DEF Blockers

\* A request that waits and is waited for is a transfer at its second row,
\* and the one who waits for it asks for its first row or for its key.
LEMMA InTheMiddle ==
  ASSUME TypeOK, InOrder, NEW p \in Requests, NEW q \in Requests,
         q \in Blockers(p), Blockers(q) # {}
  PROVE  \/ pc[p] \in {"insert", "existing"}
         \/ pc[q] = "lockSecond" /\ pc[p] = "lockSecond" /\ SecondRow(p) = FirstRow(q)
         \/ pc[q] = "lockSecond" /\ pc[p] \in {"lockFirst", "topupLock", "setStatus"}
<1>0. FirstRow(p) \in Accounts /\ SecondRow(p) \in Accounts /\ Target(p) \in Accounts
  BY CommandTypes
<1>1. PICK o : o \in Blockers(q) OBVIOUS
<1>2. pc[q] \in {"insert", "existing", "lockFirst", "lockSecond", "topupLock", "setStatus"}
  BY <1>1, WhoBlocks
<1>3. pc[q] \notin Unhindered BY <1>2 DEF Unhindered, Checked
<1>4. \A a \in Accounts : held[a] = q => pc[q] = "lockSecond" /\ a = FirstRow(q)
  BY <1>3 DEF InOrder, LocksInOrder
<1> QED BY <1>0, <1>4, WhoBlocks

\* A request that holds no row and owns no key keeps nobody waiting.
LEMMA BlocksNobody ==
  ASSUME TypeOK, InOrder, NEW p \in Requests, NEW q \in Requests, q \in Blockers(p)
  PROVE  pc[q] \notin {"insert", "existing", "topupLock", "setStatus"}
<1>0. /\ Key(p) \in Index /\ FirstRow(p) \in Accounts /\ SecondRow(p) \in Accounts
      /\ Target(p) \in Accounts
  BY CommandTypes
<1>1. \/ \E a \in Accounts : held[a] = q
      \/ keyLock[Key(p)] = q
  BY <1>0, WhoBlocks
<1> QED BY <1>0, <1>1 DEF InOrder, LocksInOrder, Unhindered, Checked

\* There is no circle of waiting requests.
LEMMA NoRing ==
  ASSUME AllSort, Inv, InOrder, NEW r \in Requests
  PROVE  ~ Deadlocked(r)
<1> TypeOK BY DEF Inv
<1> SUFFICES ASSUME NEW ring \in SUBSET Requests, r \in ring,
                    \A q \in ring : /\ Blockers(q) \cap ring # {}
                                    /\ \E p \in ring : q \in Blockers(p)
             PROVE  FALSE
  BY DEF Deadlocked
<1>1. ASSUME NEW q \in ring PROVE pc[q] \notin {"insert", "existing", "topupLock", "setStatus"}
  <2>1. PICK p \in ring : q \in Blockers(p) OBVIOUS
  <2> QED BY <2>1, BlocksNobody
<1>2. ASSUME NEW q \in ring PROVE pc[q] = "lockSecond"
  <2>1. PICK p \in ring : q \in Blockers(p) OBVIOUS
  <2>2. pc[p] \notin {"insert", "existing"} BY <1>1
  <2>3. p \in Requests /\ q \in Requests /\ Blockers(q) # {} OBVIOUS
  <2> QED BY <2>1, <2>2, <2>3, InTheMiddle
<1>3. ASSUME NEW q \in ring PROVE \E p \in ring : FirstRow(p) < FirstRow(q)
  <2>1. PICK p \in ring : q \in Blockers(p) OBVIOUS
  <2>2. pc[p] = "lockSecond" BY <1>2
  <2>3. SecondRow(p) = FirstRow(q)
    <3>1. p \in Requests /\ q \in Requests /\ Blockers(q) # {} OBVIOUS
    <3> QED BY <2>1, <2>2, <3>1, InTheMiddle
  <2>4. /\ cmd[p].op = "transfer" /\ cmd[p].src # cmd[p].dst /\ held[FirstRow(p)] = p
    BY <2>2 DEF Inv, LockDiscipline, RightOperation, ReadsStand, Inserted
  <2>5. held[SecondRow(p)] = q /\ q # p
    <3>1. p \in Requests /\ q \in Requests OBVIOUS
    <3>2. held[SecondRow(p)] = q BY <2>1, <2>2, <3>1, WhoBlocks
    <3>3. q # p BY <2>1, <2>2 DEF Blockers
    <3> QED BY <3>2, <3>3
  <2>6. FirstRow(p) <= SecondRow(p)
    <3>1. p \in Requests OBVIOUS
    <3> QED BY <2>4, <3>1, BothAccounts DEF AllSort, SortsAsRows
  <2>7. FirstRow(p) \in Nat /\ SecondRow(p) \in Nat
    <3>1. p \in Requests OBVIOUS
    <3>2. FirstRow(p) \in Accounts /\ SecondRow(p) \in Accounts BY <3>1, CommandTypes
    <3> QED BY <3>2, TablesAssumption
  <2>8. FirstRow(p) # SecondRow(p) BY <2>4, <2>5
  <2>9. FirstRow(p) < SecondRow(p) BY <2>6, <2>7, <2>8
  <2> QED BY <2>3, <2>9
<1> DEFINE firsts == {FirstRow(q) : q \in ring}
<1>4. firsts \subseteq Nat
  <2>1. \A q \in Requests : FirstRow(q) \in Accounts BY CommandTypes
  <2> QED BY <2>1, TablesAssumption
<1>5. firsts # {} OBVIOUS
<1>6. PICK least \in firsts : \A n \in firsts : ~ (n < least)
  BY <1>4, <1>5, SmallestNat
<1>7. PICK q \in ring : least = FirstRow(q) OBVIOUS
<1>8. PICK p \in ring : FirstRow(p) < FirstRow(q) BY <1>3
<1> QED BY <1>6, <1>7, <1>8

\* A step gives locks to nobody but the request that takes it.
TakesOwn(r) ==
  /\ \A a \in Accounts : held'[a] \in {held[a], r, Nobody}
  /\ \A i \in Index : keyLock'[i] \in {keyLock[i], r, Nobody}
  /\ \A a \in Accounts : shared[a] = {} => shared'[a] = {}

\* The end of a request takes every lock from it and gives none.
LEMMA FinishOrder ==
  ASSUME TypeOK, NEW r \in Requests, NEW code, code # "40P01", NEW answer,
         Finish(r, code, answer)
  PROVE  TakesOwn(r) /\ LocksInOrder(r)'
<1>1. /\ pc'[r] = "done" /\ reply'[r].code = code
      /\ \A a \in Accounts : held'[a] # r /\ held'[a] \in {held[a], Nobody}
      /\ \A i \in Index : keyLock'[i] # r /\ keyLock'[i] \in {keyLock[i], Nobody}
      /\ \A a \in Accounts : shared'[a] = shared[a] \ {r}
  BY TablesAssumption DEF Finish, GoTo, TypeOK
<1> QED BY <1>1 DEF TakesOwn, LocksInOrder

\* A step that takes no lock and goes on to a statement that suits the locks
\* the request has.
LEMMA SameLocks ==
  ASSUME TypeOK, InOrder, NEW r \in Requests, UNCHANGED <<cmd, held, shared, keyLock, reply>>,
         \/ /\ pc[r] \in {"idle", "insert"}
            /\ pc'[r] \in {"insert", "existing", "topupLock", "setStatus", "insertAccount"}
         \/ /\ pc[r] \in Checked
            /\ pc'[r] \in Checked \cup {"commit"}
         \/ /\ pc[r] \in {"topupUpdate", "topupEntry"}
            /\ pc'[r] \in {"topupEntry", "commit"}
  PROVE  TakesOwn(r) /\ LocksInOrder(r)'
<1>1. LocksInOrder(r) BY DEF InOrder
<1>2. FirstRow(r)' = FirstRow(r) BY DEF First, FirstRow
<1> QED BY <1>1, <1>2 DEF TakesOwn, LocksInOrder, Unhindered, Checked

\* Every step keeps the order, as far as the request that takes it goes.
LEMMA OwnOrder ==
  ASSUME ~ ForeignKeys, AllSort, Inv, InOrder, NEW r \in Requests,
         Step(r) \/ Fail(r) \/ DeadlockVictim(r)
  PROVE  TakesOwn(r) /\ LocksInOrder(r)'
<1> TypeOK BY DEF Inv
<1>0. /\ Key(r) \in Index /\ FirstRow(r) \in Accounts /\ SecondRow(r) \in Accounts
      /\ Target(r) \in Accounts /\ LocksInOrder(r)
  BY CommandTypes DEF InOrder
<1>1. ASSUME NEW code, code # "40P01", Rollback(r, code)
      PROVE  TakesOwn(r) /\ LocksInOrder(r)'
  BY <1>1, FinishOrder DEF Rollback
<1>2. ASSUME NEW code, code # "40P01", NEW answer, Finish(r, code, answer)
      PROVE  TakesOwn(r) /\ LocksInOrder(r)'
  BY <1>2, FinishOrder
<1>3. CASE Forbid(r) \/ Fail(r)
  BY <1>1, <1>3 DEF Forbid, Fail
<1>4. CASE DeadlockVictim(r) BY <1>4, NoRing DEF DeadlockVictim
<1>5. CASE Begin(r)
  <2>1. CASE GoTo(r, Start(cmd[r].op)) /\ UNCHANGED <<tables, cmd, seen, tx, locks, reply>>
    <3>1. pc[r] = "idle" BY <1>5 DEF Begin
    <3>2. pc'[r] \in {"insert", "topupLock", "setStatus", "insertAccount"}
      BY <2>1 DEF GoTo, Start, TypeOK
    <3>3. UNCHANGED <<cmd, held, shared, keyLock, reply>> BY <2>1 DEF locks
    <3> QED BY <3>1, <3>2, <3>3, SameLocks
  <2> QED BY <1>1, <1>5, <2>1 DEF Begin
<1>6. CASE Insert(r)
  <2>0. pc[r] = "insert" /\ UNCHANGED <<cmd, held, shared, reply>> BY <1>6 DEF Insert, At
  <2>1. CASE transfers[Key(r)] = NoTransfer
    <3>1. keyLock' = [keyLock EXCEPT ![Key(r)] = r] /\ pc'[r] = "lockFirst"
      BY <1>6, <2>1 DEF Insert, GoTo, TypeOK
    <3>2. \A i \in Index : keyLock'[i] \in {keyLock[i], r}
      BY <1>0, <3>1 DEF TypeOK
    <3> QED BY <1>0, <2>0, <3>1, <3>2
            DEF TakesOwn, LocksInOrder, Unhindered, Checked
  <2>2. CASE transfers[Key(r)] # NoTransfer
    <3>1. pc'[r] = "existing" /\ keyLock' = keyLock
      BY <1>6, <2>2 DEF Insert, GoTo, TypeOK
    <3> QED BY <2>0, <3>1, SameLocks
  <2> QED BY <2>1, <2>2
<1>7. CASE CheckForeignKeys(r)
  BY <1>0, <1>7 DEF LocksInOrder, CheckForeignKeys, ForeignKey, At
<1>8. CASE Existing(r)
  <2>1. CASE ~ Rollback(r, "409")
    <3>1. /\ pc[r] = "existing" /\ pc'[r] = "commit"
          /\ keyLock' = [keyLock EXCEPT ![Key(r)] = r]
          /\ UNCHANGED <<cmd, held, shared, reply>>
      BY <1>8, <2>1 DEF Existing, At, GoTo, TypeOK
    <3>2. \A i \in Index : keyLock'[i] \in {keyLock[i], r}
      BY <1>0, <3>1 DEF TypeOK
    <3> QED BY <1>0, <3>1, <3>2 DEF TakesOwn, LocksInOrder, Unhindered, Checked
  <2> QED BY <1>1, <2>1
<1>9. CASE LockFirst(r)
  <2>1. CASE ~ Rollback(r, "404")
    <3>1. /\ pc[r] = "lockFirst" /\ pc'[r] = "lockSecond"
          /\ held' = [held EXCEPT ![FirstRow(r)] = r]
          /\ UNCHANGED <<cmd, shared, keyLock, reply>>
      BY <1>9, <2>1 DEF LockFirst, ForUpdate, At, GoTo, TypeOK
    <3>2. /\ held'[FirstRow(r)] = r
          /\ \A a \in Accounts \ {FirstRow(r)} : held'[a] = held[a]
      BY <1>0, <3>1 DEF TypeOK
    <3>3. FirstRow(r)' = FirstRow(r) BY <3>1 DEF First, FirstRow
    <3> QED BY <1>0, <3>1, <3>2, <3>3 DEF TakesOwn, LocksInOrder, Unhindered, Checked
  <2> QED BY <1>1, <2>1
<1>10. CASE LockSecond(r)
  <2> DEFINE code == Verdict(r, seen[r], accounts[SecondRow(r)])
  <2>0. code # "40P01" BY DEF Verdict
  <2>1. CASE ~ Rollback(r, code)
    <3>1. /\ pc[r] = "lockSecond" /\ pc'[r] = "debit"
          /\ held' = [held EXCEPT ![SecondRow(r)] = r]
          /\ UNCHANGED <<cmd, shared, keyLock, reply>>
      BY <1>10, <2>1 DEF LockSecond, ForUpdate, At, GoTo, TypeOK
    <3>2. \A a \in Accounts : held'[a] \in {held[a], r} BY <1>0, <3>1 DEF TypeOK
    <3> QED BY <1>0, <3>1, <3>2 DEF TakesOwn, LocksInOrder, Unhindered, Checked
  <2> QED BY <1>1, <2>0, <2>1
<1>11. CASE Debit(r) \/ Credit(r) \/ Entries(r) \/ Success(r) \/ Event(r)
  <2>1. /\ pc[r] \in Checked /\ pc'[r] \in Checked \cup {"commit"}
        /\ UNCHANGED <<cmd, held, shared, keyLock, reply>>
    BY <1>11 DEF Debit, Credit, Entries, Success, Event, Write, At, GoTo, Checked, locks, TypeOK
  <2> QED BY <2>1, SameLocks
<1>12. CASE TopUpUpdate(r) \/ TopUpEntry(r)
  <2>1. /\ pc[r] \in {"topupUpdate", "topupEntry"} /\ pc'[r] \in {"topupEntry", "commit"}
        /\ UNCHANGED <<cmd, held, shared, keyLock, reply>>
    BY <1>12 DEF TopUpUpdate, TopUpEntry, Write, At, GoTo, locks, TypeOK
  <2> QED BY <2>1, SameLocks
<1>13. CASE TopUpLock(r)
  <2>1. CASE \A code \in {"400", "404"} : ~ Rollback(r, code)
    <3>0. accounts[Target(r)].status \in {"ABSENT", "ACTIVE", "LOCKED"}
      BY <1>0 DEF TypeOK, AccountRow
    <3>1. /\ pc[r] = "topupLock" /\ pc'[r] = "topupUpdate"
          /\ held' = [held EXCEPT ![Target(r)] = r]
          /\ UNCHANGED <<cmd, shared, keyLock, reply>>
      BY <1>13, <2>1, <3>0 DEF TopUpLock, ForUpdate, At, GoTo, TypeOK
    <3>2. \A a \in Accounts : held'[a] \in {held[a], r} BY <1>0, <3>1 DEF TypeOK
    <3> QED BY <1>0, <3>1, <3>2 DEF TakesOwn, LocksInOrder, Unhindered, Checked
  <2> QED BY <1>1, <2>1
<1>14. CASE UpdateStatus(r) \/ InsertAccount(r)
  BY <1>1, <1>2, <1>14 DEF UpdateStatus, InsertAccount, Autocommit
<1>15. CASE Commit(r) BY <1>2, <1>15 DEF Commit
<1> QED BY <1>3, <1>4, <1>5, <1>6, <1>7, <1>8, <1>9, <1>10, <1>11, <1>12, <1>13, <1>14, <1>15
        DEF Step, TransferStep, AccountStep

\* Every step keeps the order.
LEMMA OrderKept ==
  ASSUME ~ ForeignKeys, AllSort, Inv, InOrder, [Next]_vars
  PROVE  InOrder'
<1> TypeOK BY DEF Inv
<1>1. ASSUME NEW r \in Requests, Step(r) \/ Fail(r) \/ DeadlockVictim(r)
      PROVE  InOrder'
  <2>1. TakesOwn(r) /\ LocksInOrder(r)' BY <1>1, OwnOrder
  <2>2. OthersKept(r) BY <1>1, StepKeepsOthers
  <2>3. ASSUME NEW q \in Requests \ {r} PROVE LocksInOrder(q)'
    <3>1. /\ pc'[q] = pc[q] /\ reply'[q] = reply[q] /\ cmd' = cmd
      BY <2>2 DEF OthersKept
    <3>2. /\ \A a \in Accounts : held'[a] = q => held[a] = q
          /\ \A i \in Index : keyLock'[i] = q => keyLock[i] = q
      BY <2>1, TablesAssumption DEF TakesOwn
    <3>3. FirstRow(q)' = FirstRow(q) BY <3>1 DEF First, FirstRow
    <3>4. LocksInOrder(q) BY DEF InOrder
    <3> QED BY <3>1, <3>2, <3>3, <3>4 DEF LocksInOrder
  <2>4. \A a \in Accounts : shared'[a] = {} BY <2>1 DEF TakesOwn, InOrder
  <2> QED BY <2>1, <2>3, <2>4 DEF InOrder
<1>2. CASE UNCHANGED vars
  BY <1>2 DEF vars, locks, InOrder, LocksInOrder, First, FirstRow
<1> QED BY <1>1, <1>2 DEF Next, Terminated

\* The commands stay, so whoever sorts as the rows do goes on doing so.
LEMMA AllSortStays == ASSUME Inv, [Next]_vars, AllSort' PROVE AllSort
<1> TypeOK BY DEF Inv
<1>1. cmd' = cmd BY StepKeepsOthers DEF Next, Terminated, vars, OthersKept
<1> QED BY <1>1 DEF AllSort, SortsAsRows, Source, Target

\* Nobody is aborted with SQLSTATE 40P01 on tables without foreign keys, when
\* every transfer spells its ids so that they sort as the accounts do: sorting
\* them in TransfersService.create then prevents deadlocks with every other
\* transfer, top-up and change of status.
THEOREM NeverDeadlockVictim == ~ ForeignKeys /\ Spec => []NoDeadlockVictim
<1> SUFFICES ASSUME ~ ForeignKeys PROVE Spec => []NoDeadlockVictim OBVIOUS
<1> DEFINE Order == AllSort => InOrder
<1>1. Init => Order
  BY TablesAssumption DEF Init, InOrder, LocksInOrder
<1>2. Inv /\ Order /\ [Next]_vars => Order' BY OrderKept, AllSortStays
<1>3. Order => NoDeadlockVictim BY DEF AllSort, InOrder, LocksInOrder, NoDeadlockVictim
<1> HIDE DEF Order
<1> QED BY <1>1, <1>2, <1>3, SpecInv, PTL DEF Spec
=============================================================================
