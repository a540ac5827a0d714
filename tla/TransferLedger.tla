--------------------------- MODULE TransferLedger ---------------------------
(***************************************************************************)
(* The API process and PostgreSQL, statement by statement: TransfersService*)
(* .create, the operations of AccountsService, OutboxService.createEvent   *)
(* and DbService.  Every action is one statement a request sends, with the *)
(* JavaScript that runs between it and the next await; requests interleave *)
(* at the awaits.                                                          *)
(*                                                                         *)
(* The isolation level is READ COMMITTED (DbService.Transaction sends a    *)
(* bare BEGIN).  What a transaction has written is kept in tx[r] and        *)
(* becomes visible at its COMMIT; the row locks it holds make the others    *)
(* wait: FOR UPDATE (held), the FOR KEY SHARE of a foreign key check        *)
(* (shared), and a row of transfers that was inserted or selected FOR       *)
(* UPDATE (keyLock).                                                       *)
(***************************************************************************)
EXTENDS BankTables

CONSTANTS
  Commands,    \* the commands requests may carry
  PoolMax,     \* "max" of the connection pool
  ForeignKeys, \* transfers REFERENCES accounts, as the SRS declares it
  NoRow        \* no account row has been read

Operations == {"transfer", "topup", "lock", "unlock", "create"}

\* An authenticated request after validation, with the ids as it spells them.
\* dst is the account topup, lock, unlock and create work on; src and key
\* matter to a transfer only.
Command == [op: Operations, user: Users, key: Keys, src: Ids, dst: Ids,
            amount: Amounts, currency: Currencies]

ASSUME LedgerAssumption ==
  /\ Commands \subseteq Command
  /\ PoolMax \in Nat \ {0}
  /\ ForeignKeys \in BOOLEAN
  /\ NoRow \notin AccountRow

VARIABLES
  accounts, transfers, ledger, outbox,  \* the committed tables
  cmd,      \* what each request asks for
  pc,       \* the statement each request sends next
  seen,     \* the account row the first locking SELECT returned
  tx,       \* what the open transaction of each request has written
  held,     \* the request that holds each account row FOR UPDATE
  shared,   \* the requests that hold each account row FOR KEY SHARE
  keyLock,  \* the request that locks each row of transfers
  reply     \* the HTTP answers

tables == <<accounts, transfers, ledger, outbox>>
locks  == <<held, shared, keyLock>>
vars   == <<tables, cmd, pc, seen, tx, locks, reply>>

Bank == INSTANCE Bank

-----------------------------------------------------------------------------
(* Requests *)

Key(r) == <<cmd[r].user, cmd[r].key>>

\* The rows that WHERE id = $1 finds: the source of a transfer; its
\* destination, or the account another operation works on.
Source(r) == RowOf[cmd[r].src]
Target(r) == RowOf[cmd[r].dst]

Payload(r) == [src |-> cmd[r].src, dst |-> cmd[r].dst,
               amount |-> cmd[r].amount, currency |-> cmd[r].currency]

\* Mutation of First: the ids are not sorted.
FirstUnsorted(r) == cmd[r].src

\* const [firstId, secondId] = [source, destination].sort(), as spelled.
First(r)  == IF cmd[r].src < cmd[r].dst THEN cmd[r].src ELSE cmd[r].dst
Second(r) == IF First(r) = cmd[r].src THEN cmd[r].dst ELSE cmd[r].src

\* The rows the two locking SELECTs find.
FirstRow(r)  == RowOf[First(r)]
SecondRow(r) == RowOf[Second(r)]

NoChange == [a \in Accounts |-> 0]

\* tx[r].answer is the row the callback will return.
NoTx == [row |-> NoTransfer, delta |-> NoChange, entries |-> {},
         events |-> {}, answer |-> NoTransfer]

\* Requests that hold a connection of the pool.
Connected == {r \in Requests : pc[r] \notin {"idle", "done"}}

Statements ==
  {"idle", "insert", "fkSource", "fkDestination", "existing", "lockFirst",
   "lockSecond", "debit", "credit", "entries", "success", "event",
   "topupLock", "topupUpdate", "topupEntry", "setStatus", "insertAccount",
   "commit", "done"}

Codes == {"none", "ok", "400", "403", "404", "409", "500", "40P01"}

\* The first statement of each operation.
Start(op) == CASE op = "transfer" -> "insert"
               [] op = "topup"    -> "topupLock"
               [] op = "create"   -> "insertAccount"
               [] OTHER           -> "setStatus"

-----------------------------------------------------------------------------
(* The lock manager of PostgreSQL *)

\* The requests that keep r's next statement waiting.
Blockers(r) ==
  CASE pc[r] = "insert" /\ transfers[Key(r)] = NoTransfer
                             -> {keyLock[Key(r)]} \ {r, Nobody}
    [] pc[r] = "existing"    -> {keyLock[Key(r)]} \ {r, Nobody}
    [] pc[r] = "fkSource"    -> {held[Source(r)]} \ {r, Nobody}
    [] pc[r] = "fkDestination" -> {held[Target(r)]} \ {r, Nobody}
    [] pc[r] = "lockFirst"   -> ({held[FirstRow(r)]} \cup shared[FirstRow(r)]) \ {r, Nobody}
    [] pc[r] = "lockSecond"  -> ({held[SecondRow(r)]} \cup shared[SecondRow(r)]) \ {r, Nobody}
    [] pc[r] = "topupLock"   -> ({held[Target(r)]} \cup shared[Target(r)]) \ {r, Nobody}
    [] pc[r] = "setStatus"   -> {held[Target(r)]} \ {r, Nobody}
    [] OTHER                 -> {}

\* r sends the statement pc names, and the statement need not wait.
At(r, statement) == pc[r] = statement /\ Blockers(r) = {}

ForUpdate(r, a) == held' = [held EXCEPT ![a] = r]
KeyShare(r, a)  == shared' = [shared EXCEPT ![a] = @ \cup {r}]

GoTo(r, statement) == pc' = [pc EXCEPT ![r] = statement]

\* COMMIT or ROLLBACK, then client.release(): every lock is dropped, the
\* connection goes back to the pool and the client gets its answer.
Finish(r, code, answer) ==
  /\ GoTo(r, "done")
  /\ reply' = [reply EXCEPT ![r] = [code |-> code, transfer |-> answer]]
  /\ seen' = [seen EXCEPT ![r] = NoRow]
  /\ tx' = [tx EXCEPT ![r] = NoTx]
  /\ held' = [a \in Accounts |-> IF held[a] = r THEN Nobody ELSE held[a]]
  /\ shared' = [a \in Accounts |-> shared[a] \ {r}]
  /\ keyLock' = [i \in Index |-> IF keyLock[i] = r THEN Nobody ELSE keyLock[i]]
  /\ UNCHANGED cmd

\* Mutation of Rollback: the row of transfers was inserted outside the
\* transaction and stays.
RollbackKeepsKey(r, code) ==
  /\ Finish(r, code, NoTransfer)
  /\ transfers' = IF tx[r].row = NoTransfer THEN transfers
                  ELSE [transfers EXCEPT ![Key(r)] = tx[r].row]
  /\ UNCHANGED <<accounts, ledger, outbox>>

\* The callback throws: ROLLBACK, and the exception becomes the answer.
Rollback(r, code) == Finish(r, code, NoTransfer) /\ UNCHANGED tables

\* One private write of an open transaction.
Write(r, field, value, next) ==
  /\ tx' = [tx EXCEPT ![r][field] = value]
  /\ GoTo(r, next)
  /\ UNCHANGED <<tables, cmd, seen, locks, reply>>

-----------------------------------------------------------------------------
Init ==
  /\ Bank!Init
  /\ cmd \in [Requests -> Commands]
  /\ pc = [r \in Requests |-> "idle"]
  /\ seen = [r \in Requests |-> NoRow]
  /\ tx = [r \in Requests |-> NoTx]
  /\ held = [a \in Accounts |-> Nobody]
  /\ shared = [a \in Accounts |-> {}]
  /\ keyLock = [i \in Index |-> Nobody]
  /\ reply = [r \in Requests |-> [code |-> "none", transfer |-> NoTransfer]]

\* RolesGuard: topup, lock, unlock and create are for ADMIN.
Allowed(r) == cmd[r].op = "transfer" \/ cmd[r].user \in Admins

Forbid(r) ==
  /\ pc[r] = "idle"
  /\ ~Allowed(r)
  /\ Rollback(r, "403")

\* pool.connect() and BEGIN, or the connection pool.query() takes; a transfer
\* then checks that it was given two ids.
Begin(r) ==
  /\ pc[r] = "idle"
  /\ Allowed(r)
  /\ Cardinality(Connected) < PoolMax
  /\ IF cmd[r].op = "transfer" /\ cmd[r].src = cmd[r].dst
     THEN Rollback(r, "400")
     ELSE /\ GoTo(r, Start(cmd[r].op))
          /\ UNCHANGED <<tables, cmd, seen, tx, locks, reply>>

-----------------------------------------------------------------------------
(* TransfersService.create *)

\* Mutation of Insert: the conflict is not noticed.
InsertOver(r) ==
  /\ At(r, "insert")
  /\ keyLock' = [keyLock EXCEPT ![Key(r)] = r]
  /\ tx' = [tx EXCEPT ![r].row =
              [id |-> r, body |-> Payload(r), status |-> "PROCESSING"]]
  /\ GoTo(r, IF ForeignKeys THEN "fkSource" ELSE "lockFirst")
  /\ UNCHANGED <<tables, cmd, seen, held, shared, reply>>

\* INSERT INTO transfers ... ON CONFLICT (client_id, idem_key) DO NOTHING.
Insert(r) ==
  /\ At(r, "insert")
  /\ UNCHANGED <<tables, cmd, seen, held, shared, reply>>
  /\ IF transfers[Key(r)] = NoTransfer
     THEN /\ keyLock' = [keyLock EXCEPT ![Key(r)] = r]
          /\ tx' = [tx EXCEPT ![r].row =
                      [id |-> r, body |-> Payload(r), status |-> "PROCESSING"]]
          /\ GoTo(r, IF ForeignKeys THEN "fkSource" ELSE "lockFirst")
     ELSE GoTo(r, "existing") /\ UNCHANGED <<tx, keyLock>>

\* The foreign key checks at the end of that statement: SELECT ... FOR KEY
\* SHARE on both accounts.
ForeignKey(r, statement, a, next) ==
  /\ At(r, statement)
  /\ IF accounts[a].status = "ABSENT"
     THEN Rollback(r, "500")
     ELSE /\ KeyShare(r, a)
          /\ GoTo(r, next)
          /\ UNCHANGED <<tables, cmd, seen, tx, held, keyLock, reply>>

CheckForeignKeys(r) ==
  \/ ForeignKey(r, "fkSource", Source(r), "fkDestination")
  \/ ForeignKey(r, "fkDestination", Target(r), "lockFirst")

\* Mutation of Existing: request_hash is not compared.
ExistingAnyBody(r) ==
  /\ At(r, "existing")
  /\ keyLock' = [keyLock EXCEPT ![Key(r)] = r]
  /\ tx' = [tx EXCEPT ![r].answer = transfers[Key(r)]]
  /\ GoTo(r, "commit")
  /\ UNCHANGED <<tables, cmd, seen, held, shared, reply>>

\* The key is taken: SELECT ... FOR UPDATE, compare request_hash, and return
\* the stored result.  Nothing deletes a transfer, so the row is there.
Existing(r) ==
  /\ At(r, "existing")
  /\ IF transfers[Key(r)].body # Payload(r)
     THEN Rollback(r, "409")
     ELSE /\ keyLock' = [keyLock EXCEPT ![Key(r)] = r]
          /\ tx' = [tx EXCEPT ![r].answer = transfers[Key(r)]]
          /\ GoTo(r, "commit")
          /\ UNCHANGED <<tables, cmd, seen, held, shared, reply>>

\* Mutation of LockFirst: a plain SELECT.
LockFirstPlain(r) ==
  /\ pc[r] = "lockFirst"
  /\ IF accounts[FirstRow(r)].status = "ABSENT"
     THEN Rollback(r, "404")
     ELSE /\ seen' = [seen EXCEPT ![r] = accounts[FirstRow(r)]]
          /\ GoTo(r, "lockSecond")
          /\ UNCHANGED <<tables, cmd, tx, locks, reply>>

LockFirst(r) ==
  /\ At(r, "lockFirst")
  /\ IF accounts[FirstRow(r)].status = "ABSENT"
     THEN Rollback(r, "404")
     ELSE /\ ForUpdate(r, FirstRow(r))
          /\ seen' = [seen EXCEPT ![r] = accounts[FirstRow(r)]]
          /\ GoTo(r, "lockSecond")
          /\ UNCHANGED <<tables, cmd, tx, shared, keyLock, reply>>

\* Mutation of Verdict: the balance is not compared with the amount.
VerdictOverdraft(r, first, second) ==
  LET rows   == {first, second}
      source == IF FirstRow(r) = cmd[r].src THEN first ELSE second
  IN  IF second.status = "ABSENT" THEN "404"
      ELSE IF \E row \in rows : \/ row.currency # cmd[r].currency
                               \/ row.status # "ACTIVE" THEN "400"
      ELSE IF cmd[r].user \notin Admins /\ source.owner # cmd[r].user THEN "403"
      ELSE "ok"

\* Mutation of Verdict: the currency of the second account is not looked at.
VerdictOneCurrency(r, first, second) ==
  LET rows   == {first, second}
      source == IF FirstRow(r) = cmd[r].src THEN first ELSE second
  IN  IF second.status = "ABSENT" THEN "404"
      ELSE IF \/ first.currency # cmd[r].currency
              \/ \E row \in rows : row.status # "ACTIVE" THEN "400"
      ELSE IF cmd[r].user \notin Admins /\ source.owner # cmd[r].user THEN "403"
      ELSE IF source.balance < cmd[r].amount THEN "400" ELSE "ok"

\* What the checks after the second SELECT answer, in their order; "ok" when
\* all of them pass.  first is taken for the source if its id, as PostgreSQL
\* returns it, is the id the request spells.
Verdict(r, first, second) ==
  LET rows   == {first, second}
      source == IF FirstRow(r) = cmd[r].src THEN first ELSE second
  IN  IF second.status = "ABSENT" THEN "404"
      ELSE IF \E row \in rows : \/ row.currency # cmd[r].currency
                               \/ row.status # "ACTIVE" THEN "400"
      ELSE IF cmd[r].user \notin Admins /\ source.owner # cmd[r].user THEN "403"
      ELSE IF source.balance < cmd[r].amount THEN "400" ELSE "ok"

\* Mutation of LockSecond: a plain SELECT.
LockSecondPlain(r) ==
  /\ pc[r] = "lockSecond"
  /\ LET code == Verdict(r, seen[r], accounts[SecondRow(r)])
     IN  IF code # "ok"
         THEN Rollback(r, code)
         ELSE /\ GoTo(r, "debit")
              /\ UNCHANGED <<tables, cmd, seen, tx, locks, reply>>

LockSecond(r) ==
  /\ At(r, "lockSecond")
  /\ LET code == Verdict(r, seen[r], accounts[SecondRow(r)])
     IN  IF code # "ok"
         THEN Rollback(r, code)
         ELSE /\ ForUpdate(r, SecondRow(r))
              /\ GoTo(r, "debit")
              /\ UNCHANGED <<tables, cmd, seen, tx, shared, keyLock, reply>>

Debit(r) ==
  /\ At(r, "debit")
  /\ Write(r, "delta", [tx[r].delta EXCEPT ![Source(r)] = @ - cmd[r].amount], "credit")

Credit(r) ==
  /\ At(r, "credit")
  /\ Write(r, "delta", [tx[r].delta EXCEPT ![Target(r)] = @ + cmd[r].amount], "entries")

Entries(r) ==
  /\ At(r, "entries")
  /\ Write(r, "entries", TransferEntries(r, Payload(r)), "success")

\* UPDATE transfers SET status = 'SUCCESS', response_body = ...
Success(r) ==
  /\ At(r, "success")
  /\ Write(r, "row", [tx[r].row EXCEPT !.status = "SUCCESS"], "event")

\* Mutations of Event: the event is inserted outside the transaction; the
\* insert takes a second connection from the pool.
EventAtOnce(r) ==
  /\ At(r, "event")
  /\ outbox' = outbox \cup {tx[r].row.id}
  /\ tx' = [tx EXCEPT ![r].answer = tx[r].row]
  /\ GoTo(r, "commit")
  /\ UNCHANGED <<accounts, transfers, ledger, cmd, seen, locks, reply>>

EventSecondConnection(r) ==
  /\ At(r, "event")
  /\ Cardinality(Connected) < PoolMax
  /\ tx' = [tx EXCEPT ![r].events = {tx[r].row.id}, ![r].answer = tx[r].row]
  /\ GoTo(r, "commit")
  /\ UNCHANGED <<tables, cmd, seen, locks, reply>>

\* OutboxService.createEvent on the same client; the callback then returns.
Event(r) ==
  /\ At(r, "event")
  /\ tx' = [tx EXCEPT ![r].events = {tx[r].row.id}, ![r].answer = tx[r].row]
  /\ GoTo(r, "commit")
  /\ UNCHANGED <<tables, cmd, seen, locks, reply>>

-----------------------------------------------------------------------------
(* AccountsService *)

TopUpLock(r) ==
  /\ At(r, "topupLock")
  /\ LET account == accounts[Target(r)]
     IN  CASE account.status = "ABSENT" -> Rollback(r, "404")
           [] account.status = "LOCKED" -> Rollback(r, "400")
           [] OTHER -> /\ ForUpdate(r, Target(r))
                       /\ seen' = [seen EXCEPT ![r] = account]
                       /\ GoTo(r, "topupUpdate")
                       /\ UNCHANGED <<tables, cmd, tx, shared, keyLock, reply>>

\* Mutation of TopUpUpdate: the ledger row is forgotten.
TopUpUpdateOnly(r) ==
  /\ At(r, "topupUpdate")
  /\ Write(r, "delta", [tx[r].delta EXCEPT ![Target(r)] = @ + cmd[r].amount], "commit")

TopUpUpdate(r) ==
  /\ At(r, "topupUpdate")
  /\ Write(r, "delta", [tx[r].delta EXCEPT ![Target(r)] = @ + cmd[r].amount], "topupEntry")

TopUpEntry(r) ==
  /\ At(r, "topupEntry")
  /\ Write(r, "entries",
           {Entry(r, "TOPUP", Target(r), "CREDIT", cmd[r].amount, seen[r].currency)},
           "commit")

\* An autocommitted statement succeeded; its answer may still be lost.
Autocommit(r) == \E code \in {"ok", "500"} : Finish(r, code, NoTransfer)

\* Mutation of UpdateStatus: the status is the name of the operation.
UpdateStatusVerbatim(r) ==
  /\ At(r, "setStatus")
  /\ IF accounts[Target(r)].status = "ABSENT"
     THEN Rollback(r, "404")
     ELSE /\ accounts' = [accounts EXCEPT ![Target(r)].status = cmd[r].op]
          /\ UNCHANGED <<transfers, ledger, outbox>>
          /\ Autocommit(r)

\* lock and unlock: one UPDATE outside any transaction, whatever the status.
UpdateStatus(r) ==
  /\ At(r, "setStatus")
  /\ IF accounts[Target(r)].status = "ABSENT"
     THEN Rollback(r, "404")
     ELSE /\ accounts' = [accounts EXCEPT ![Target(r)].status =
                            IF cmd[r].op = "lock" THEN "LOCKED" ELSE "ACTIVE"]
          /\ UNCHANGED <<transfers, ledger, outbox>>
          /\ Autocommit(r)

\* create: one INSERT; the code is unique, the creator is the owner.
InsertAccount(r) ==
  /\ At(r, "insertAccount")
  /\ IF accounts[Target(r)].status # "ABSENT"
     THEN Rollback(r, "400")
     ELSE /\ accounts' = [accounts EXCEPT ![Target(r)] =
                            [status |-> "ACTIVE", balance |-> 0,
                             owner |-> cmd[r].user, currency |-> cmd[r].currency]]
          /\ UNCHANGED <<transfers, ledger, outbox>>
          /\ Autocommit(r)

-----------------------------------------------------------------------------
(* DbService.Transaction *)

\* COMMIT: everything the transaction wrote becomes visible at once.  The
\* connection may break before the acknowledgement arrives.
Commit(r) ==
  /\ At(r, "commit")
  /\ accounts' = [a \in Accounts |->
                    [accounts[a] EXCEPT !.balance = @ + tx[r].delta[a]]]
  /\ transfers' = IF tx[r].row = NoTransfer THEN transfers
                  ELSE [transfers EXCEPT ![Key(r)] = tx[r].row]
  /\ ledger' = ledger \cup tx[r].entries
  /\ outbox' = outbox \cup tx[r].events
  /\ \/ Finish(r, "ok", tx[r].answer)
     \/ Finish(r, "500", NoTransfer)

\* Any statement may fail and the process may die: the transaction is undone.
Fail(r) == r \in Connected /\ Rollback(r, "500")

\* Requests that wait for each other in a circle through r.
Deadlocked(r) ==
  \E ring \in SUBSET Requests :
    /\ r \in ring
    /\ \A q \in ring : /\ Blockers(q) \cap ring # {}
                       /\ \E p \in ring : q \in Blockers(p)

\* The deadlock detector aborts one of them with SQLSTATE 40P01.
DeadlockVictim(r) == Deadlocked(r) /\ Rollback(r, "40P01")

-----------------------------------------------------------------------------
TransferStep(r) ==
  \/ Insert(r) \/ CheckForeignKeys(r) \/ Existing(r)
  \/ LockFirst(r) \/ LockSecond(r)
  \/ Debit(r) \/ Credit(r) \/ Entries(r) \/ Success(r) \/ Event(r)

AccountStep(r) ==
  \/ TopUpLock(r) \/ TopUpUpdate(r) \/ TopUpEntry(r)
  \/ UpdateStatus(r) \/ InsertAccount(r)

Step(r) == Forbid(r) \/ Begin(r) \/ TransferStep(r) \/ AccountStep(r) \/ Commit(r)

Terminated == (\A r \in Requests : pc[r] = "done") /\ UNCHANGED vars

Next ==
  \/ \E r \in Requests : Step(r) \/ Fail(r) \/ DeadlockVictim(r)
  \/ Terminated

Spec == Init /\ [][Next]_vars

\* A request that can go on does, and PostgreSQL looks for deadlocks
\* (deadlock_timeout); failures are never owed.
Fairness ==
  /\ \A r \in Requests : WF_vars(Step(r))
  /\ WF_vars(\E r \in Requests : DeadlockVictim(r))

FairSpec == Spec /\ Fairness

-----------------------------------------------------------------------------
(* Properties *)

\* The committed rows of transfers.
StoredTransfers == {transfers[i] : i \in Index} \ {NoTransfer}

\* Every variable keeps its type.
TypeOK ==
  /\ accounts \in [Accounts -> AccountRow]
  /\ transfers \in [Index -> TransferRow \cup {NoTransfer}]
  /\ ledger \subseteq LedgerRow
  /\ outbox \subseteq Requests
  /\ cmd \in [Requests -> Commands]
  /\ pc \in [Requests -> Statements]
  /\ seen \in [Requests -> AccountRow \cup {NoRow}]
  /\ tx \in [Requests -> [row: TransferRow \cup {NoTransfer},
                          delta: [Accounts -> Int],
                          entries: SUBSET LedgerRow,
                          events: SUBSET Requests,
                          answer: TransferRow \cup {NoTransfer}]]
  /\ held \in [Accounts -> Requests \cup {Nobody}]
  /\ shared \in [Accounts -> SUBSET Requests]
  /\ keyLock \in [Index -> Requests \cup {Nobody}]
  /\ reply \in [Requests -> [code: Codes, transfer: TransferRow \cup {NoTransfer}]]

\* No interleaving of transfers overdraws an account, although no CHECK
\* constraint forbids it and the balance is read two statements before it is
\* written.  The one exception is a transfer out of the account that the
\* service does not recognise as such: a source spelled otherwise than
\* PostgreSQL spells it and sorted first, where the balance of the destination
\* is compared with the amount.
NeverOverdrawn ==
  \A a \in Accounts : accounts[a].balance < 0 =>
    \E t \in StoredTransfers : RowOf[t.body.src] = a /\ ~Recognised(t.body)

\* The reconciliation endpoint never reports a mismatch, at whatever moment
\* it runs: the stored balances are what the ledger adds up to.
LedgerExplainsBalances == Mismatches(accounts, ledger) = {}

\* Money is conserved: what the accounts of a currency hold together is what
\* was paid in in that currency.  Transfers neither make money nor lose it, and
\* take none from one currency to another, whatever runs at the same time.
MoneyConserved == \A c \in Currencies : Money(accounts, c) = PaidIn(ledger, c)

\* A transfer is recorded whole or not at all: a committed row has succeeded
\* and has exactly its two ledger rows and its outbox event, and there is no
\* TRANSFER ledger row and no event without such a row.
TransferRecordedWhole ==
  LET Succeeded == {t.id : t \in StoredTransfers}
  IN  /\ \A t \in StoredTransfers :
           /\ t.status = "SUCCESS"
           /\ {e \in ledger : e.by = t.id} = TransferEntries(t.id, t.body)
      /\ outbox = Succeeded
      /\ \A e \in ledger : e.entry = "TRANSFER" => e.by \in Succeeded

\* Idempotency as clients see it: whoever is told that a transfer succeeded
\* got the stored row of that key, for the body that was sent; whoever is told
\* 409 used a key whose stored row has another body.
AnswersAreStored ==
  \A r \in Requests : cmd[r].op = "transfer" =>
    /\ reply[r].code = "ok" => /\ reply[r].transfer = transfers[Key(r)]
                               /\ transfers[Key(r)].body = Payload(r)
    /\ reply[r].code = "409" => /\ transfers[Key(r)] # NoTransfer
                                /\ transfers[Key(r)].body # Payload(r)

\* No committed row carries the id of a request that has not committed.
Untraced(r) ==
  /\ r \notin outbox
  /\ \A e \in ledger : e.by # r
  /\ \A i \in Index : transfers[i] = NoTransfer \/ transfers[i].id # r

\* Whoever is refused changed nothing: no row of any table carries the id of
\* a request that was answered with an error before its COMMIT was sent.
RefusedLeavesNoTrace ==
  \A r \in Requests :
    reply[r].code \in {"400", "403", "404", "409", "40P01"} => Untraced(r)

\* What is stored stays: no step overwrites a row of transfers, and no account
\* loses its owner or its currency to a second creation.
StoredForGood ==
  [][/\ \A i \in Index : transfers[i] # NoTransfer => transfers'[i] = transfers[i]
     /\ \A a \in Accounts : accounts[a].status # "ABSENT" =>
          /\ accounts'[a].status # "ABSENT"
          /\ accounts'[a].owner = accounts[a].owner
          /\ accounts'[a].currency = accounts[a].currency]_vars

\* r ends in this step, and is a transfer out of a that its user may make:
\* the owner of the account the service checks, or an ADMIN.
PaysFrom(r, a) ==
  /\ pc[r] # "done" /\ pc'[r] = "done"
  /\ cmd[r].op = "transfer" /\ Source(r) = a
  /\ cmd[r].user \in Admins \cup {accounts[CheckedAccount(Payload(r))].owner}

\* The balance of a locked account stands still, also under a transfer or a
\* top-up that was under way when it was locked; and an account loses money
\* only to a transfer that names it as its source, from its owner or an ADMIN.
\* Where the service does not recognise the source, it is the owner of the
\* destination that it asks for, and so does this property.
BalancesMoveRightly ==
  [][\A a \in Accounts : accounts'[a].balance # accounts[a].balance =>
       /\ accounts[a].status = "ACTIVE"
       /\ accounts'[a].balance < accounts[a].balance =>
            \E r \in Requests : PaysFrom(r, a)]_vars

\* The statements, locks and failures above implement the atomic operations.
ImplementsBank == Bank!Spec

\* The spellings of r's ids sort as its accounts do.
SortsAsRows(r) ==
  cmd[r].op = "transfer" =>
    /\ cmd[r].src < cmd[r].dst => Source(r) <= Target(r)
    /\ cmd[r].dst < cmd[r].src => Target(r) <= Source(r)

\* Sorting the two ids before locking prevents deadlocks, on tables without
\* foreign keys (their checks lock both rows before the sorted SELECTs do), as
\* long as every transfer spells its ids so that they sort as the accounts do.
\* What is sorted is the spelling: 'A...' comes before 'b...', 'a...' after 'B...'.
NoDeadlockVictim ==
  (\A r \in Requests : SortsAsRows(r)) => \A r \in Requests : reply[r].code # "40P01"

\* Every request is answered in the end: no wait for a lock or for a
\* connection of the pool lasts forever.
EveryRequestAnswered == \A r \in Requests : <>(pc[r] = "done")

\* FR-04: the same key with another payload is refused with 409.  Of two
\* answered requests that share a key and differ in the body, one got 409.
KeyReuseRefused ==
  \A q, r \in Requests :
    /\ {cmd[q].op, cmd[r].op} = {"transfer"}
    /\ Key(q) = Key(r) /\ Payload(q) # Payload(r)
    /\ {reply[q].code, reply[r].code} \subseteq {"ok", "400", "403", "404", "409"}
    => "409" \in {reply[q].code, reply[r].code}

-----------------------------------------------------------------------------
(* The lock discipline: why the checks a transaction made still hold when  *)
(* it commits.  With TypeOK it is inductive.                               *)

Inserted == {"fkSource", "fkDestination", "lockFirst", "lockSecond",
             "debit", "credit", "entries", "success", "event"}
Checked  == {"debit", "credit", "entries", "success", "event"}

\* r is past its INSERT (and past its checks), or about to commit a transfer.
Settling(r)    == pc[r] = "commit" /\ tx[r].row # NoTransfer
HasInserted(r) == pc[r] \in Inserted \/ Settling(r)
HasChecked(r)  == pc[r] \in Checked \/ Settling(r)

\* The statements belong to the operation.
RightOperation(r) ==
  /\ pc[r] \in Inserted \cup {"insert", "existing"} =>
       cmd[r].op = "transfer" /\ cmd[r].src # cmd[r].dst
  /\ pc[r] \in {"topupLock", "topupUpdate", "topupEntry"} => cmd[r].op = "topup"
  /\ pc[r] \in {"setStatus", "insertAccount"} => cmd[r].op # "transfer"
  /\ pc[r] = "commit" => \/ cmd[r].op = "topup" /\ tx[r].row = NoTransfer
                         \/ cmd[r].op = "transfer" /\ cmd[r].src # cmd[r].dst

\* From its INSERT on a transfer owns its key, which has no committed row; a
\* transfer that met a conflict has a row to return.
OwnsKey(r) ==
  /\ HasInserted(r) => keyLock[Key(r)] = r /\ transfers[Key(r)] = NoTransfer
  /\ pc[r] = "existing" => transfers[Key(r)] # NoTransfer

\* What was read under a lock is still so, up to the COMMIT.
ReadsStand(r) ==
  /\ pc[r] = "lockSecond" => held[FirstRow(r)] = r /\ seen[r] = accounts[FirstRow(r)]
  /\ HasChecked(r) => /\ held[Source(r)] = r /\ held[Target(r)] = r
                      /\ Bank!MayTransfer(cmd[r].user, Payload(r))
  /\ \/ pc[r] \in {"topupUpdate", "topupEntry"}
     \/ pc[r] = "commit" /\ cmd[r].op = "topup"
     => /\ held[Target(r)] = r
        /\ accounts[Target(r)].status = "ACTIVE"
        /\ seen[r] = accounts[Target(r)]

\* What the transaction has written so far.
Written(r, row, delta, entries, events, answer) ==
  /\ tx[r].row = row /\ tx[r].delta = delta /\ tx[r].entries = entries
  /\ tx[r].events = events /\ tx[r].answer = answer

Stored(r, status) == [id |-> r, body |-> Payload(r), status |-> status]
Debited(r) == [NoChange EXCEPT ![Source(r)] = @ - cmd[r].amount]
Moved(r)   == [Debited(r) EXCEPT ![Target(r)] = @ + cmd[r].amount]
Paid(r)    == [NoChange EXCEPT ![Target(r)] = @ + cmd[r].amount]
TopUpRow(r) == Entry(r, "TOPUP", Target(r), "CREDIT", cmd[r].amount,
                     accounts[Target(r)].currency)

WritesOf(r) ==
  LET new == Stored(r, "PROCESSING")
      settled == Stored(r, "SUCCESS")
      rows == TransferEntries(r, Payload(r))
  IN  /\ pc[r] \in {"idle", "insert", "existing", "topupLock", "topupUpdate"} =>
           Written(r, NoTransfer, NoChange, {}, {}, NoTransfer)
      /\ pc[r] \in {"fkSource", "fkDestination", "lockFirst", "lockSecond", "debit"} =>
           Written(r, new, NoChange, {}, {}, NoTransfer)
      /\ pc[r] = "credit"  => Written(r, new, Debited(r), {}, {}, NoTransfer)
      /\ pc[r] = "entries" => Written(r, new, Moved(r), {}, {}, NoTransfer)
      /\ pc[r] = "success" => Written(r, new, Moved(r), rows, {}, NoTransfer)
      /\ pc[r] = "event"   => Written(r, settled, Moved(r), rows, {}, NoTransfer)
      /\ pc[r] = "topupEntry" => Written(r, NoTransfer, Paid(r), {}, {}, NoTransfer)
      /\ pc[r] = "commit" /\ cmd[r].op = "topup" =>
           Written(r, NoTransfer, Paid(r), {TopUpRow(r)}, {}, NoTransfer)
      /\ pc[r] = "commit" /\ cmd[r].op = "transfer" =>
           \/ Written(r, settled, Moved(r), rows, {r}, settled)
           \/ /\ transfers[Key(r)] # NoTransfer
              /\ transfers[Key(r)].body = Payload(r)
              /\ Written(r, NoTransfer, NoChange, {}, {}, transfers[Key(r)])

LockDiscipline ==
  /\ \A r \in Requests :
       /\ RightOperation(r) /\ OwnsKey(r) /\ ReadsStand(r) /\ WritesOf(r)
       /\ pc[r] # "done" => Untraced(r)
  /\ \A a \in Accounts : held[a] # Nobody => accounts[a].status # "ABSENT"
=============================================================================
