# Transaction simulator: TLA+ models, checks and proofs

The program is a NestJS API on PostgreSQL that transfers money between accounts, a
transactional outbox that a worker process relays to RabbitMQ, a second worker process
that consumes the events, and a Next.js client.  This directory holds its formal models:
what the parts promise, what they do statement by statement, the TLC runs that check the
second against the first on small instances, and proofs for every instance where the
proof system reaches.

Paths below are relative to `src/`; `be/` stands for `backend/src/`, `SRS` for
`docs/transaction_simulator_srs_problem_architecture.md`.

## 1. The system

| Part | State | Operations | Talks to |
|---|---|---|---|
| Transfers, `be/module/transfers` | tables `transfers`, `ledger_entries` | `create` (one transaction of up to nine statements), `findOne`, `list` | Accounts' rows by `FOR UPDATE`; `OutboxService.createEvent` on its own connection |
| Accounts, `be/module/accounts` | table `accounts` | `create`, `topUp` (transaction), `lock`/`unlock` (one autocommitted UPDATE), listings | the same rows as Transfers |
| DbService, `be/db` | pool of 10 connections | `query`, `Transaction` | PostgreSQL |
| Reconciliation, `be/module/admin-reconciliation` | none | compares stored balances with ledger sums | reads both tables in one statement |
| Outbox, `be/module/outbox` | table `outbox_events` (`published_at`, `locked_at`, `next_retry_at`, `attempts`) | `createEvent`; worker loop `pickEvents`, `publishOne` | Transfers writes it; the worker process polls it |
| Publisher, `be/module/messaging` | a cached connection and channel | `publish` | RabbitMQ exchange and main queue |
| Processing worker, `be/module/processing` | table `processed_messages`; unacked deliveries | `handleMessage`, `handleFailedMessage` | main, retry and dead letter queue |
| Dead letter administration, `be/module/admin-messaging` | none | peek, replay | dead letter queue, exchange |
| Users and guards, `be/module/auth`, `be/common/guards` | table `app_users`; tokens | `register`, `login`, `me`; role and token checks | every controller |
| Frontend, `frontend/src` | session storage, query cache, form state | login/logout, session query, transfer form, GETs of the pages, mutations with cache invalidation | HTTP API |

What is hard, and what makes each part correct:

* **Transfers and accounts.** Requests interleave at every statement, wait for each other's
  rows and keys, fail at every statement, and may lose the answer to a COMMIT.  Correct:
  each request acts as if in one step or not at all; no overdraft; balances are what the
  ledger says; a key names one transfer with one body; refusals leave nothing behind;
  everybody is answered and nobody deadlocks.
* **Outbox and publisher.** Several workers, leases that run out, crashes between publish
  and mark, a channel that buffers and never confirms.  Correct: every event of a committed
  transfer, and nothing else, gets to the queue at least once.
* **Processing and dead letters.** Redelivery, two consumers on two copies of a message,
  crash between COMMIT and ack or between send and ack, handlers that run on after their
  connection is closed, replays by hand.  Correct: an effect
  at most once, no message lost, a bounded number of retries.
* **Reconciliation.** Runs beside the writers; must never report a mismatch that is none.
* **Users.** Check-then-insert on the email; tokens that outlive a change of role.  Correct:
  a registration stands, its user can log in unless somebody raced for the email, roles are
  never made up.
* **Frontend.** Resubmission after a timeout; a session query that races a logout; answers
  to GETs that read before a write and arrive after it.  Correct: the page says what the
  bank has stored and pays once; storage, cache and screen are of one session; whoever is
  told that a mutation succeeded sees it on every page, without reloading.

`PROJECT.json` lists the components with what is and is not modelled, and the hazards with
the line where each bites.

## 2. Modules

```
BankTables ── Bank                     abstract: atomic operations on the tables
    └──────── TransferLedger           statements, locks, failures   (implements Bank)
                ├── MCTransferLedger   instances for TLC
                └── TransferLedgerProofs
Delivery                               abstract: at-least-once delivery
    └──────── OutboxRelay              workers, leases, channel      (implements Delivery)
                ├── MCOutboxRelay
                └── OutboxRelayProofs
MessageProcessing                      consumers, retries, dead letters, replay
    ├── MCMessageProcessing
    └── MessageProcessingProofs
Settlement                             abstract: one effect per stored transfer
    └──────── Pipeline                 Bank, OutboxRelay and MessageProcessing joined
                ├── MCPipeline                                   (implements Settlement)
                └── PipelineProofs
Authentication                         users, tokens, guards
    ├── MCAuthentication
    └── AuthenticationProofs
BankTables, Bank
    └──────── TransferPage             the form, its keys, the network (over Bank)
                ├── MCTransferPage
                └── TransferPageProofs
ClientSession                          storage, session query, login, logout of one tab
    ├── MCClientSession
    └── ClientSessionProofs
QueryCache                             pages, GETs, mutations and what they invalidate
    ├── MCQueryCache
    └── QueryCacheProofs
```

### BankTables, Bank, TransferLedger

`BankTables` has the rows and the reconciliation query (`Mismatches`).  `Bank` is the
promise: `Transfer`, `TopUp`, `SetStatus` and `Open` each happen in one step on the tables
as they are.

`TransferLedger` has one action per statement a request sends, together with the
JavaScript up to the next `await`.  `pc[r]` names the next statement:

| Code | Actions |
|---|---|
| `RolesGuard`, `pool.connect` + `BEGIN`, same-account check | `Forbid`, `Begin` |
| INSERT ... ON CONFLICT DO NOTHING (`transfers.service.ts:151`) and its foreign key checks | `Insert`, `CheckForeignKeys` |
| conflict: SELECT ... FOR UPDATE, compare `request_hash` (180) | `Existing` |
| the two SELECT ... FOR UPDATE in sorted order and the checks (210-247) | `LockFirst`, `LockSecond` (`Verdict`) |
| debit, credit, ledger rows, status, outbox row (250-325) | `Debit`, `Credit`, `Entries`, `Success`, `Event` |
| `topUp` | `TopUpLock`, `TopUpUpdate`, `TopUpEntry` |
| `lock`, `unlock`, `create` | `UpdateStatus`, `InsertAccount` |
| `DbService.Transaction` | `Commit`, `Fail` (any error, or the process dies), `Rollback`, `Finish` |
| PostgreSQL | `Blockers` (who keeps a statement waiting), `DeadlockVictim` |

Ids come as clients spell them (`Ids`), and `@IsUUID()` takes capitals.  The service compares
the two (`transfers.service.ts:133`) and sorts them (137) as strings, and takes the first row
for the source when its id, which PostgreSQL returns in small letters, equals the request's
string (236).  `Begin`, `First` and `Verdict` do the same.  A source in capitals that sorts
first is therefore not `Recognised`: owner and balance are checked on the destination
(`CheckedAccount`), and the source is debited all the same.  `Bank!MayTransfer` promises no
more than that.

A transaction's writes stay in `tx[r]` and become visible at `Commit`; READ COMMITTED is the
level a bare `BEGIN` gives.  Abstractions:

* A `throw` and the ROLLBACK after it are one step: between them the request only holds
  locks, which is the state before the step.
* The process dying is `Fail` of each open request, in any order.
* A request that was handled after its COMMIT answer was lost gets `500` with the commit in
  place; the same goes for autocommitted statements.
* An account that is not there yet has balance 0 (`OpeningAssumption`): `create` inserts no
  balance, and rows are never deleted.
* A number stands for an id as a request spells it, and the order of numbers for the order
  of strings.  `RowOf` is the account PostgreSQL reads a spelling as; `Accounts` are the
  spellings it returns, and stand for the accounts' codes too.  Amounts are exact integers.
  Every request has an idempotency key.
* The table definitions are not in the repository.  The CHECKs the SRS declares (balances not
  negative, source and destination different, 1375 and 1400) are not assumed, so what
  protects a balance has to be the service; its foreign keys (1390-1391) are a constant,
  `ForeignKeys`, since they change who waits for whom.
* `CLOSED`, which no statement writes, is left out; `LOCKED` stands for "not ACTIVE".

The properties about money: `NeverOverdrawn` (no interleaving takes a balance below zero; a
transfer whose source is not recognised can), `LedgerExplainsBalances` (each balance is the sum of its
account's rows), `MoneyConserved` (what the accounts of a currency hold together is what
TOPUP rows paid in), `BalancesMoveRightly` (a step changes the balance of an active account
only, and lowers it only by a transfer that names the account as its source, of an
administrator or of the owner of the account that is checked), `StoredForGood`
(no step overwrites a stored transfer, removes an account, or changes its owner or
currency).

### Delivery, OutboxRelay

`Delivery` says: `Arrive(e)` only for committed events, and eventually for each.
`OutboxRelay` has the rows of `outbox_events` (`status`, `lease`, `due`) and per worker its
next statement, batch, channel and what the channel has buffered.  `Pick`/`CommitPick` are
the pick transaction (the row locks of `FOR UPDATE SKIP LOCKED` live between the two),
`Publish`, `PublishFails`, `PublishOnClosed` the outcomes of `RabbitmqPublisher.publish`,
`Mark`, `MarkFails`, `RecordFailure`, `RecordFailureFails` the two UPDATEs of `publishOne`
with their failures, `LoopError` the catch of `start`.  Time is abstract: a lease may be
found expired and a retry may be found due at any later moment; `attempts` only picks the
length of the delay and is left out.  An event's number is its place in `created_at` order,
and events are committed in any order.  `pickEvents` returns rows in no promised order, so a
batch is a set.

What amqplib does is modelled from how the publisher uses it: `channel.publish` buffers
(`buffer`), the client flushes in its own time (`Flush`), a broken connection raises an
unhandled `error` that ends the process (`Crash`), an orderly close by the broker closes
the channel silently and publishing on it throws (`BrokerCloses`, `PublishOnClosed`).
The last two are not in the repository; they are the documented behaviour of the library.
The publisher caches its channel for good, so a worker that survives an orderly close goes
on picking events, fails to publish each of them, and gives it back for a later retry.

Two history variables: `late` has the events whose lease ran out while a worker was at work
on them, which two workers may then have in hand (`BatchIsOwn` is about the others);
`unsent` those whose message was still in the buffer of a connection that broke.  With no
publisher confirms such a message is gone, and its row may be marked published all the same.
`OnlyUnsentLost` says that this is the only way to lose an event, and `ImplementsDelivery`
promises delivery for every event that is not `Lost` in this way.

### MessageProcessing

A copy is one message in one queue: `at[k]` is the queue it is in, or the stage of
`handleMessage` it is at, or the hands of an administrator.  `Publish` puts copies of any
event into the main queue any number of times: at-least-once delivery, which is what the
relay gives.  `InsertProcessed` waits for another open transaction with the same id, as the
unique index makes it, and sees its outcome; `Commit` is the commit of the dedup row and of
the effect.  (`processTransferEvent` only logs today; `effects` counts the commits in which
it ran.)  `sendToQueue` and the `ack` that follows are sent on one channel in that order, so
a crash leaves both, the first, or neither at the broker: `HandleFailed`, `CrashBeforeAck`,
`Crash`.  The retry queue's TTL routes back to the main queue with the headers as they were.
Queues are sets: redelivery and several consumers reorder them anyway.  Messages without
`messageId`, which the publisher never sends, are left out.

An orderly close by the broker ends the consumer and not the process: the worker lives on
and never consumes again (`deaf`), since nothing listens to `close`.  The handlers that were
running are `orphans`: their messages are back in the queue while their transactions go on
(`OrphanInserts`, `OrphanCommits`), side by side with the redelivery to somebody else and
with other orphans of the same process.  The ack that follows throws on the closed channel,
the rejection is unhandled, and the process ends, with the orphans it still has, and is
replaced (`OrphanEnds`, `Renewed`).  One without orphans stays deaf until somebody does
`Restart` it.

### Pipeline, Settlement

`Pipeline` takes the steps of `Bank`, `OutboxRelay` and `MessageProcessing`, each on its own
variables, and joins them where the code does.  `Transfer` is `Bank!Transfer` and the
relay's `Create` in one step: `createEvent` is a statement of the transfer's transaction,
and the number of a request's event is its place in `created_at` order (`Number`).  `Arrive`
is the relay's `Flush` and the consumers' `Publish`: the publisher asserts the exchange and
binds the main queue to it before it publishes (`rabbitmq.publisher.ts:35-43`).  The events
that have arrived are one variable of both.  No message is poison, since the publisher sends
`JSON.stringify` of an event.  `Relay` and `Worker` are instances of the proof modules, which
extend the components, so that `PipelineProofs` can cite what is proved there.

`Settlement` is the promise of the whole: the effect of a transfer is committed at most once,
after the transfer is stored, and in the end it is.  The relay's loss carries over:
`TransferNeverLost` excepts events in `unsent`, `ImplementsSettlement` those `Lost` by it.
The form and the API's lists name accounts as PostgreSQL returns them, so every account has
one spelling here and in `TransferPage` (`OneSpelling`).

### Authentication

One action per statement or bcrypt call of `register` (`CheckEmail`, `Hash`, `InsertUser`) and
`login` (`SelectUser`, `Compare`); `Guard` and `Unauthorized` are `JwtAuthGuard` followed by
`RolesGuard`, `Me` is `me`, `Administer` the handler of any controller method with
`@Roles('ADMIN')`.  `logout` does nothing.  A token is the record it signs and is valid until it
expires (`Expire`, at any time); tokens that do not verify are refused.  `Fail` is an exception
of any statement; an INSERT may also have committed when its client sees an error (`Store`).  No
statement changes a user's role or status, so an operator does (`SetRole`, `SetStatus`).
Nothing in the code relies on a unique index on `app_users.email`, whose definition is not in
the repository, and none is assumed; with one, the second INSERT is a `Fail`.

### TransferPage

A form is one visit of `app/(protected)/transfers/new/page.tsx`.  `Submit` is the button with
its `disabled`, the schema and `useCreateTransferMutation`, which sends a fresh key (`Post`);
`GiveUp` is the 10-second timeout or a network error of `shared/api/client.ts`; `Receive` is an
answer that arrives, and means something to the form only when it is still `Awaited`.  The
network loses requests (`Drop`) and answers (`DropAnswer`), and delays both past the timeout.
`Serve` is the API as the abstract `Bank` says, which `TransferLedger` implements: accepted with
201, refused (400 stands for every 4xx), or 500 with or without effect.  A key is a request's
id, since `generateRequestId` makes each of them new, and stands for the id of its transfer.
After an error that says nothing about whether the transfer was stored, `phase` is `unclear`;
users of the forms in `Cautious` leave then, the others submit again, as the form allows.

### ClientSession

The two keys of sessionStorage and the two that an older version used in localStorage, the
cached result of `useSessionQuery`, its open requests, and the page.  Reading a token moves
an old one (`MigrateToken`), reading the session moves an old user (`MigrateUser`).
`StartQuery` and `EndQuery` are the two halves of the query function, with its three
outcomes `MeAnswers`, `MeRefuses` (401) and `MeFails` (the stored session has to do).
`LoggedIn`, `LoginFails` and `LoggedOut` are the ends of the mutations, `Browse` a GET of a
page, with the stored token, whose result the query cache keeps (`views`: whose data it
has), `Redirect` the
effects of the layouts, `Reload` a reload of the tab.  From TanStack Query two things are
taken: `QueryClient.clear` forgets a query but does not stop what its function does with
the answer, and `setQueryData` does not cancel a fetch.  `raced` remembers whether a request to
`/me` was open when the last login or logout ended, `unclean` whether a session has ended
otherwise than by a logout, which alone clears the query cache: a 401 and a second login do
not.

### QueryCache

The keys are those of `queryKeys`; `Mounts` and `Tab` say which queries a page mounts, from
the page components: the account's page mounts its tab once `DataState` has the account.
`Open` follows a link.  A GET is `Serve`, in which the API reads the rows, and `Receive`,
later; the COUNT that follows the rows is left out.  Of an answer only the set of writes it
shows is kept.  `stale` stands for `isInvalidated` and for data older than `staleTime`
(`Age`), which have one effect, a fetch at the next mount; `Collect` is `gcTime`, `Clear`
the logout, `FetchFails` a failure that is retried once or not, `Retry` the button of
`ErrorAlert`.

A mutation is `Send`, `Store` (the API commits it, perhaps after the client has given up),
then `Success` or `Fail`.  `Success` runs `onSuccess`: `Filters` are the keys it names,
`Invalidation` matches them as prefixes, marks the queries stale and starts fetches for the
mounted ones.  `Fail` invalidates nothing.  An invalidation starts the fetch of a mounted
query with data again (`Restarted`).  It cannot do so for a first load, or for a load whose
page was left (`LeftAlone`): when such a load has read before the write, its answer hides the
write and counts as fresh.  `missed` has these writes and no others, and the two properties
except them; a query on the page that has data must be fetched again.

What TanStack Query does (`Mounting`, `Restarted`, `Invalidated`, `IsPrefix` matching) is
taken from how the code uses it and from the documented behaviour of the version it names
(5.100.11).

## 3. Runs

| Run | Question | Bounds |
|---|---|---|
| `ledger` | do concurrent requests act like the atomic bank, with true answers, whole records, explained balances, no money made or lost and no overdraft by a race? does sorting prevent deadlocks, and does every refusal leave nothing? | 3 requests out of 7 commands that race, or of transfers to an account that is being created in either currency, or of 5 that lock one pair in both orders, or of 10 that cover the refusals, or of 4 that name account 2 in two spellings; foreign keys off |
| `ledger_answers` | is everybody answered, with fewer connections than requests? | 3 requests out of the races or the openings, pool of 2, foreign keys on, fairness; requests differ in their commands only, so each choice of commands is handed out once |
| `ledger_key_reuse` | (violation) is a key with another body always refused? | 2 bodies, one refused |
| `outbox` | does the relay implement at-least-once delivery, but for what a broken connection takes, and does nobody publish somebody else's event while leases last? | 2 events, 2 workers, batches of 2, 3 failures, orderly closes, fairness |
| `outbox_unconfirmed` | (violation) is a published event never lost? | 2 events, 1 failure |
| `processing` | effect once, nothing lost, retries bounded, everything settled? | 2 messages (one poison), 3 copies, 2 consumers, prefetch 2, 1 retry, 2 failures, orderly closes, fairness |
| `pipeline` | from COMMIT to effect: nothing lost but by a broken connection, one effect per stored transfer at most, everything else settled? | 1 transfer among other operations on 2 accounts, 2 outbox workers with 1 failure, 2 copies, 1 consumer with 2 failures, 1 retry, orderly closes, fairness |
| `users` | do registrations stand, roles come from rows, and logins find their user? | 3 requests, 2 emails, 2 passwords, 1 administrator |
| `page_answers` | does the page say what the bank has stored, and does a careful user pay once? | 2 visits, 3 submissions, funds for one large transfer |
| `page_retry` | (violation) does trying again pay once? | same |
| `client_session` | is the session whole, does the tab act as the user it shows, and show only that user's data? | 3 tokens of 2 users, one from an older version, 2 requests |
| `query_cache` | is data that counts as fresh current, and is every success shown in the end, but for writes a load that is left alone has overlooked? | 1 mutation of 3 kinds, 5 pages, 3 visits, 1 failure, fairness |

**Why the bounds are enough.**  Interference in the ledger is between a transfer and one
other request over a row or a key; a third request lets a change come between the two, or
waits in a ring of three.  The funds (3) cover one transfer of 2 and not two.  Prefetch,
batch and pool limits (5, 10, 10) are set at or below the number of messages, events and
requests, so that they are reached.  Three registrations or logins are two that race for an email and
one that observes; three submissions let one visit try again while another pays; three
tokens are an old one, a newer one of the same user and one of somebody else.
`pipeline` is about what neither side shows alone, and follows one event: events only meet in
a worker's batch and a consumer's prefetch, which `outbox` and `processing` cover.
Its two copies are a message and a duplicate; a third would wait on its channel for a free one.
`MaxFaults` bounds failures: a second one lets failures hit a retry, a redelivery or the
worker that took over, or close the second consumer's connection; three failures on two
events let a connection break with one message, a lease run out and a crash follow.  In the query cache each
write is hidden, shown and invalidated by itself, so one is enough; three visits let the
user leave a page while a fetch is under way, change something elsewhere, and come back.

**Fairness.**  A request whose statement need not wait goes on (node's event loop and
PostgreSQL make progress; `deadlock_timeout` makes the detector run).  A worker that can go
on does, and is restarted after it dies, as a supervisor restarts a container.  Messages on
an open connection get through, leases and TTLs run out.  Strong fairness is used only for
a delivery to a consumer (`Deliver`): prefetch slots are taken and freed again and again,
and the broker serves its queue in order.  A deaf worker is not a dead one: nobody owes it a
restart.  A GET is answered or times out (`client.ts` gives it ten seconds).  Failures are
never owed and are bounded, so a
liveness result reads "after any bounded number of failures".  Users owe nothing, so
`Authentication`, `TransferPage` and `ClientSession` state safety only.  The `page_*` and
`query_cache` runs do not check for deadlock: a visit may end, and keys, visits and
mutations are finite.

**What the violations show.**

* `ledger_key_reuse`: `README.md:112` and `SRS:237` promise 409 for a known key with another
  body.  The idempotency row lives in the transaction that a refused transfer rolls back,
  so the key of a refused transfer is free again.
* `outbox_unconfirmed`: `SRS:538` says no event is lost after its COMMIT; the relay marks
  an event published when the client library has buffered it, without a confirm.
* `page_retry`: `docs/agents/frontend/frontend-srs.md:387` asks that a retry of the same form
  after a timeout make no uncontrolled second request; the key is generated per call of the
  mutation (`transfers.queries.ts:31`), so the bank takes the retry for another transfer.
  `page_answers` shows that who does not submit again then pays at most once per visit.

**What the passing runs leave open.**  Three properties of the ledger except ids that are
spelled otherwise than PostgreSQL does: `NeverOverdrawn` and `BalancesMoveRightly` say what
the service checks when it does not recognise the source, and `NoDeadlockVictim` asks that
every transfer's ids sort as the accounts do, since two spellings of one pair may be locked
in opposite orders.  `ledger` includes such requests, the overdraft among them.
`NoDeadlockVictim` is checked without foreign keys:
the ones `SRS:1390-1391` declares make INSERT take FOR KEY SHARE on both accounts before the
sorted FOR UPDATEs, so opposite transfers may deadlock, which `ledger_answers` includes
(`DeadlockVictim`, answered with an error); the proofs below cover tables with and without
them.  Three promises hold for those who are not cut off by an orderly close of the broker, which the
code does not notice: `ImplementsDelivery` excepts behaviours in which a publisher lives on
its closed channel for good (the cached channel is never reset), `EveryMessageSettles`
those in which every consumer is deaf, and `ImplementsSettlement` both.  And no delivery is
promised for an event whose row is marked published and whose message broke off with its
connection (`OnlyUnsentLost`, `outbox_unconfirmed`).  `FreshDataIsCurrent` and
`SuccessIsShown` are about successes the API has reported: a mutation that timed out and was
stored later invalidates nothing.  Of the reported ones they except those in `missed`, which
stay hidden for up to five minutes.  `SessionIsLatest`, `ActsAsShown` and `OwnDataOnly` say
nothing about the time after a login or logout that ended while a session query was open
(`raced`): the answer of that query writes its token back (`auth.hooks.ts:24`).
`OwnDataOnly` says nothing after a session that ended without a logout (`unclean`): a login
then puts the new session beside the old user's data (`auth.hooks.ts:64`).  No property
covers these two hazards; the code is exposed to both.

## 4. Proofs

Every safety property of the passing runs is proved, for all constants that satisfy the
`ASSUME`s.  The liveness properties are model-checked only.

`TransferLedgerProofs`, with or without foreign keys, for any number of accounts, requests,
users and keys and any pool size:

| Theorem | Statement |
|---|---|
| `TypeCorrect` | `Spec => []TypeOK` (balances are integers, no more) |
| `AccountsNeverOverdrawn` | `Spec => []NeverOverdrawn` |
| `LocksProtect` | `Spec => []LockDiscipline` |
| `Refinement` | `Spec => ImplementsBank`, which is `Bank!Spec` |
| `RecordedWholeAlways` | `Spec => []TransferRecordedWhole` |
| `AnswersAlwaysStored` | `Spec => []AnswersAreStored` |
| `RefusedNeverTraced` | `Spec => []RefusedLeavesNoTrace` |
| `LedgerAlwaysExplains` | `Spec => []LedgerExplainsBalances` |
| `MoneyAlwaysConserved` | `IsFiniteSet(Accounts) /\ Spec => []MoneyConserved` |
| `StoredStaysForGood` | `Spec => StoredForGood`, an action property |
| `BalancesAlwaysMoveRightly` | `Spec => BalancesMoveRightly`, an action property |
| `NeverDeadlockVictim` | `~ForeignKeys /\ Spec => []NoDeadlockVictim` |

`NeverOverdrawn` is not inductive: `Commit` subtracts an amount that was compared with a
balance five statements before.  `LockDiscipline` says why that is sound.  For each request
(`RightOperation`, `OwnsKey`, `ReadsStand`, `WritesOf`): from its INSERT on it owns its key,
which has no committed row; past its checks it holds both accounts, and
`Bank!MayTransfer` is true *now*; what it has written is a function of its command.
`TypeOK /\ LockDiscipline` is inductive.  The proof takes one action at a time, first what
it does to the request that acts, then that it leaves the others their locks and the rows
they rely on (`OthersKept`, `RowsKept`): a step changes a row only if nobody else holds it.
The refinement follows: `Commit` is `Bank!Transfer` or `Bank!TopUp` because the checks still
hold, of the account that was checked; `UpdateStatus` and `InsertAccount` are `SetStatus` and `Open`; every other step leaves
the tables alone.  `RecordedWholeAlways`, `AnswersAlwaysStored` and `RefusedNeverTraced`
have invariants of their own on top.

`LedgerAlwaysExplains` is proved on `Bank`'s steps: each adds to a balance what its rows add to
the sum (`Explained`).  The sums are recursive functions on finite sets, and the induction
theorems of the library take operators the provers cannot instantiate; the lemmas show, for any
function `g`, that such a recursion has one solution only (`SumUnique`), that equal functions
have equal sums (`TotalSame`), that a new element adds its share (`TotalAdds`), and that what
one element loses and another gains leaves the sum alone (`TotalMoves`), by looking at a
smallest set for which the claim fails (`SubsetInduction`).

`AccountsNeverOverdrawn` goes by `Bank`'s steps too (`StepOverdraws`): a transfer takes no more
than the balance of the account it checks, which is its source, unless the source is not
recognised, and then its row is stored as the property asks.

`MoneyAlwaysConserved` rests on them and on `CommitEffect`, which says what any step does to
the tables: a transfer moves an amount between two accounts of one currency, a top-up adds
it to an account and to a TOPUP row of the account's currency, an account that is created in
another currency was empty (`AbsentIsEmpty`).  It assumes finitely many accounts, without
which there is no sum.  The two action properties go through the operations of `Bank` in the
same way; `BalancesAlwaysMoveRightly` uses that the checks of `MayTransfer` are true at the
COMMIT.

`NeverDeadlockVictim` starts from `LocksInOrder`: without foreign keys whoever holds a row
of `accounts` and waits is a transfer at its second lock, and holds the smaller account of
its pair; here the property's condition on the spellings is used.  Topups, status changes and INSERTs wait while holding nothing.  A request in a
circle both waits and is waited for, so all in it are at their second lock; whoever is
waited for at its first account is waited for by one whose first account is smaller still,
and nobody waits for the smallest.

`AuthenticationProofs` proves, for any number of requests, emails and passwords, with or
without a unique index:

| Theorem | Statement |
|---|---|
| `TypeCorrect` | `Spec => []TypeOK` |
| `RegistrationAlwaysStands` | `Spec => []RegistrationStands` |
| `RolesAlwaysHeld` | `Spec => []RolesWereHeld` |
| `LoginAlwaysFindsUser` | `Spec => LoginFindsUser` |

The invariant adds what requests hold between two awaits: a login that compares has a row,
whose role was held (`RolesOnTheWay`); a request past the guard has the token of a
registered user (`InHand`); and a registration that has not inserted has no row
(`Unregistered`), so the INSERT cannot be about anybody a token names.  For
`LoginAlwaysFindsUser` the row a login has read stays what it was (`SeenStands`), since no
statement changes a user's email or password.

`PipelineProofs` derives what holds of the whole from what is proved of the parts:

| Theorem | Statement |
|---|---|
| `PipelineIsItsParts` | `Spec => Bank!Spec /\ Relay!Spec /\ Worker!Spec` |
| `EffectsAlwaysTransfers` | `Spec => []EffectsAreTransfers` |
| `TransfersNeverLost` | `Spec => []TransferNeverLost` |
| `RefinesSettlement` | `Spec => Settled!Safety` |

By `PipelineIsItsParts` each step of the pipeline is a step or a stutter of each part (which
needs that the relay lets messages arrive and the consumers publish none:
`OperateKeepsRows`, `ConsumePublishesNothing`), so every theorem about a part holds of the
whole.  One invariant is new (`EventsOfTransfers`): the rows of `outbox_events` are those of
the stored transfers, each with both its ledger rows.  `EffectsAlwaysTransfers` then goes
backwards from an effect: what has one is processed, what is processed has arrived, what has
arrived is in the outbox, and what is in the outbox is stored.  `TransfersNeverLost` goes
forwards: the relay keeps an event until it has arrived, or is in `unsent`, the queues from
then on.  For
`RefinesSettlement`, a consumer's step commits at most one effect, of a published message
that had none (`ConsumeEffects`).  `TransferLedger` implements `Bank`, so the tables the
relay reads are those the statements of the services leave.

The other modules, each for any values of its constants:

| Module | Theorem | Statement |
|---|---|---|
| `OutboxRelayProofs` | `TypeCorrect` | `Spec => []TypeOK` |
| | `BatchAlwaysOwn` | `Spec => []BatchIsOwn` |
| | `NoEventLost` | `Spec => []OnlyUnsentLost` |
| | `RefinesDelivery` | `Spec => Delivered!Safety` |
| `MessageProcessingProofs` | `TypeCorrect` | `Spec => []TypeOK` |
| | `RetriesAlwaysBounded` | `Spec => []RetriesBounded` |
| | `EffectAlwaysOnce` | `Spec => []EffectOnce` |
| | `MessageNeverLost` | `Spec => []NeverLost` |
| `TransferPageProofs` | `TypeCorrect` | `Spec => []TypeOK` |
| | `UserAlwaysToldTheTruth` | `Spec => []UserIsToldTheTruth` |
| | `AlwaysPaidOnce` | `Spec => []PaidOnce` |
| `ClientSessionProofs` | `TypeCorrect` | `Spec => []TypeOK` |
| | `SnapshotAlwaysMatches` | `Spec => []SnapshotMatchesToken` |
| | `SessionAlwaysLatest` | `Spec => []SessionIsLatest` |
| | `AlwaysActsAsShown` | `Spec => []ActsAsShown` |
| | `OnlyOwnData` | `Spec => []OwnDataOnly` |
| `QueryCacheProofs` | `TypeCorrect` | `Spec => []TypeOK` |
| | `FreshAlwaysCurrent` | `Spec => []FreshDataIsCurrent` |

What the invariants add:

* `OutboxRelayProofs`: a worker holds a fresh lease on each event of its batch, unless the
  lease ran out on it (`LeaseHeld`), so no other worker's pick finds it; the message of an
  event about to be marked has been handed to the channel (`InFlight`); workers, channels
  and the queue have events of committed rows only (`Created`), which makes each arrival a
  step of `Delivery`.
* `MessageProcessingProofs`: at most one open transaction has inserted a message, an
  orphan's included, and then it is not processed yet (`OneInserts`); a copy about to be
  acked is processed.  The prefetch is counted with `IsFiniteSet(Copies)`.
* `TransferPageProofs`: a request on its way has no row, an answer on its way is true
  (`Unserved`, `Answered`), and of a cautious user's earlier submissions none has a row or
  a request on its way (`Past`).
* `ClientSessionProofs`: unless a login or logout raced them, open requests carry the token
  of the last login (`RequestsAreCurrent`), and what is cached is its owner's
  (`ViewsAreCurrent`); a session on the screen has a token in storage unless it ended
  without a logout (`StorageHeld`).
* `QueryCacheProofs`: also the answer on its way shows what was reported since, or has it in
  `missed` (`Current`): a fetch that goes on after an invalidation is one that is `LeftAlone`.  `FiltersMatch` is the heart: for every mutation and every query
  that shows rows it has written, `onSuccess` names a key that is a prefix of the query's.
  Every other step is shown to reveal nothing new (`Calm`).

Only model-checked: `EveryRequestAnswered`, the promise halves of `ImplementsDelivery` and
`ImplementsSettlement`, `EveryMessageSettles` and `SuccessIsShown`.  They rest on fairness,
which the proof system does not reason about here.

## 5. Not modelled, and the plan

1. `Pipeline` with `TransferLedger` in the place of `Bank`: that this implements `Pipeline`
   follows step by step as `Refinement` does, with the event of a commit joined to
   `Create`; it is not stated as a theorem yet.
2. `Number()` of 64-bit balances (`transfers.service.ts:243`): amounts are exact integers in
   every module, and the conversion loses digits above 2^53 only.
3. The page arithmetic of the listings and the totals of the reconciliation: pure
   functions of one answer.

Left out for good: rendering, layout and wording of the frontend, CORS and validation
wiring, the health endpoint, scripts and packaging: no state another part depends on.
