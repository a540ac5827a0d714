----------------------------- MODULE BankTables -----------------------------
(***************************************************************************)
(* The PostgreSQL tables of the transaction simulator, as the services     *)
(* under backend/src/module read and write them: the shape of the rows and *)
(* the reconciliation query over them.  The atomic specification (Bank)    *)
(* and the statement-level one (TransferLedger) share these definitions.   *)
(*                                                                         *)
(* Ids are the strings a request may name an account by; the order of the  *)
(* numbers is their string order, which transfers.service.ts sorts by.     *)
(* The hexadecimal digits of a UUID may be capitals or not (@IsUUID()      *)
(* accepts both), so an account may have several spellings.  PostgreSQL    *)
(* reads them all as one uuid (RowOf) and returns it in small letters: an  *)
(* account's own number is that spelling, and its code.  Amounts are exact *)
(* integers: a BIGINT column of minor units.                               *)
(***************************************************************************)
EXTENDS Integers, FiniteSetsExt, Functions

CONSTANTS
  Accounts,    \* every account that exists or may be created
  Ids,         \* the spellings of their ids that requests may use
  RowOf,       \* the account each spelling is the id of
  Users,       \* client_id / owner_user_id
  Admins,      \* the users whose role is ADMIN
  Keys,        \* Idempotency-Key header values
  Currencies,
  Amounts,     \* the amounts a request may carry, in minor units
  Requests,    \* HTTP requests; a request's name is also the id its row gets
  Opening,     \* the accounts table at the start
  Nobody,      \* "by" of the opening ledger rows, holder of a free lock
  NoTransfer   \* no row in the transfers table

\* A row of accounts; ABSENT stands for "no such row".  No CHECK constraint
\* keeps the balance from going below zero: the repository creates none.
AccountRow == [status: {"ABSENT", "ACTIVE", "LOCKED"}, balance: Int,
               owner: Users, currency: Currencies]

\* What request_hash digests: the four fields of CreateTransferDto, the ids
\* as the client spelled them.
Body == [src: Ids, dst: Ids, amount: Amounts, currency: Currencies]

\* (client_id, idem_key), the unique index of transfers.
Index == Users \X Keys

TransferRow == [id: Requests, body: Body, status: {"PROCESSING", "SUCCESS"}]

LedgerRow == [by: Requests \cup {Nobody}, entry: {"TRANSFER", "TOPUP"},
              account: Accounts, side: {"DEBIT", "CREDIT"},
              amount: Nat \ {0}, currency: Currencies]

ASSUME TablesAssumption ==
  /\ Accounts \subseteq Ids /\ Ids \subseteq Nat
  /\ RowOf \in [Ids -> Accounts]
  /\ \A a \in Accounts : RowOf[a] = a
  /\ Admins \subseteq Users
  /\ Amounts \subseteq Nat \ {0}
  /\ Opening \in [Accounts -> AccountRow]
  /\ Nobody \notin Requests
  /\ NoTransfer \notin TransferRow

\* No account is overdrawn at the start, and one that does not exist has no
\* money.
ASSUME OpeningAssumption ==
  \A a \in Accounts : /\ Opening[a].balance >= 0
                      /\ Opening[a].status = "ABSENT" => Opening[a].balance = 0

\* firstAccount.id === dto.source_account_id compares the id as PostgreSQL
\* returns it with the id as the client spelled it.  The source is recognised
\* when it is spelled as PostgreSQL does, or when it is the second of the
\* sorted ids and so is taken for the source anyway.
Recognised(body) == body.src \in Accounts \/ body.dst < body.src

\* The row whose owner and balance TransfersService.create looks at: the
\* source where it is recognised, else the destination.
CheckedAccount(body) == IF Recognised(body) THEN RowOf[body.src] ELSE RowOf[body.dst]

\* One row of ledger_entries.
Entry(by, entry, account, side, amount, currency) ==
  [by |-> by, entry |-> entry, account |-> account, side |-> side,
   amount |-> amount, currency |-> currency]

\* The two rows the ledger statement of TransfersService.create inserts.
TransferEntries(r, body) ==
  {Entry(r, "TRANSFER", RowOf[body.src], "DEBIT", body.amount, body.currency),
   Entry(r, "TRANSFER", RowOf[body.dst], "CREDIT", body.amount, body.currency)}

\* The opening balances were paid in by TOPUP rows.
OpeningEntries ==
  {Entry(Nobody, "TOPUP", a, "CREDIT", Opening[a].balance, Opening[a].currency) :
     a \in {x \in Accounts : Opening[x].balance > 0}}

\* SUM(CASE side WHEN 'CREDIT' THEN amount_minor WHEN 'DEBIT' THEN -amount_minor)
LedgerBalance(rows, a) ==
  SumFunctionOnSet([e \in rows |-> IF e.side = "CREDIT" THEN e.amount ELSE -e.amount],
                   {e \in rows : e.account = a})

\* The rows checkAllAccounts selects: the stored balance is not what the
\* ledger adds up to.  One SQL statement, so one snapshot of both tables.
Mismatches(table, rows) ==
  {a \in Accounts : /\ table[a].status # "ABSENT"
                    /\ table[a].balance # LedgerBalance(rows, a)}

\* What the accounts of a currency hold together, and what TOPUP rows paid in.
Money(table, c) ==
  SumFunctionOnSet([a \in Accounts |-> table[a].balance],
                   {a \in Accounts : table[a].currency = c})
PaidIn(rows, c) ==
  SumFunctionOnSet([e \in rows |-> e.amount],
                   {e \in rows : e.entry = "TOPUP" /\ e.currency = c})
=============================================================================
