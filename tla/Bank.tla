-------------------------------- MODULE Bank --------------------------------
(***************************************************************************)
(* What the banking core promises: every operation on money happens in one *)
(* indivisible step, on the tables as they are at that moment.  A transfer *)
(* moves the amount, stores its result under the idempotency key, writes   *)
(* both ledger rows and the outbox event, or it does nothing at all.       *)
(*                                                                         *)
(* TransferLedger models the statements the services really execute, with  *)
(* their locks, their concurrency and their failures, and implements this  *)
(* specification.                                                          *)
(***************************************************************************)
EXTENDS BankTables

VARIABLES
  accounts,   \* [Accounts -> AccountRow]
  transfers,  \* [Index -> TransferRow or NoTransfer]
  ledger,     \* the rows of ledger_entries
  outbox      \* ids of the transfers that have a transfer.completed event

tables == <<accounts, transfers, ledger, outbox>>

Init ==
  /\ accounts = Opening
  /\ transfers = [i \in Index |-> NoTransfer]
  /\ ledger = OpeningEntries
  /\ outbox = {}

\* Transaction ids are fresh: the database generates them.
Fresh(r) == \A e \in ledger : e.by # r

MayTransfer(user, body) ==
  /\ body.src # body.dst
  /\ \A id \in {body.src, body.dst} :
       /\ accounts[RowOf[id]].status = "ACTIVE"
       /\ accounts[RowOf[id]].currency = body.currency
  /\ user \in Admins \/ accounts[CheckedAccount(body)].owner = user
  /\ body.amount <= accounts[CheckedAccount(body)].balance

\* What a transfer adds to the balance of account a.
Change(body, a) == (IF a = RowOf[body.dst] THEN body.amount ELSE 0)
                     - (IF a = RowOf[body.src] THEN body.amount ELSE 0)

Transfer(r, user, key, body) ==
  /\ outbox' = outbox \cup {r}
  /\ Fresh(r)
  /\ transfers[<<user, key>>] = NoTransfer
  /\ MayTransfer(user, body)
  /\ accounts' = [a \in Accounts |->
                    [accounts[a] EXCEPT !.balance = @ + Change(body, a)]]
  /\ transfers' = [transfers EXCEPT ![<<user, key>>] =
                     [id |-> r, body |-> body, status |-> "SUCCESS"]]
  /\ ledger' = ledger \cup TransferEntries(r, body)

TopUp(r, a, amount) ==
  /\ Fresh(r)
  /\ accounts[a].status = "ACTIVE"
  /\ accounts' = [accounts EXCEPT ![a].balance = @ + amount]
  /\ ledger' = ledger \cup {Entry(r, "TOPUP", a, "CREDIT", amount, accounts[a].currency)}
  /\ UNCHANGED <<transfers, outbox>>

SetStatus(a, status) ==
  /\ accounts[a].status # "ABSENT"
  /\ accounts' = [accounts EXCEPT ![a].status = status]
  /\ UNCHANGED <<transfers, ledger, outbox>>

Open(user, a, currency) ==
  /\ accounts[a].status = "ABSENT"
  /\ accounts' = [accounts EXCEPT ![a] = [status |-> "ACTIVE", balance |-> 0,
                                          owner |-> user, currency |-> currency]]
  /\ UNCHANGED <<transfers, ledger, outbox>>

Next ==
  \/ \E r \in Requests, i \in Index, body \in Body : Transfer(r, i[1], i[2], body)
  \/ \E r \in Requests, a \in Accounts, amount \in Amounts : TopUp(r, a, amount)
  \/ \E a \in Accounts, status \in {"ACTIVE", "LOCKED"} : SetStatus(a, status)
  \/ \E user \in Users, a \in Accounts, currency \in Currencies : Open(user, a, currency)

Spec == Init /\ [][Next]_tables
=============================================================================
