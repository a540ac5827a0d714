---------------------------- MODULE TransferPage ----------------------------
(***************************************************************************)
(* The page that creates transfers (NewTransferPage, TransferForm,         *)
(* useCreateTransferMutation) in front of the atomic bank: submissions,    *)
(* idempotency keys, answers that come late or never, and the user who     *)
(* tries again.  A form is one visit of the page by somebody who wants to  *)
(* pay once.                                                               *)
(***************************************************************************)
EXTENDS BankTables

CONSTANTS
  Forms,     \* visits of the page
  Payer,     \* the user of each form
  Cautious,  \* forms whose user does not submit again after an error that
             \* leaves it open whether the transfer was stored
  None       \* no key, no body

ASSUME PageAssumption ==
  /\ Payer \in [Forms -> Users]
  /\ Keys = Requests  \* generateRequestId: a key of its own per submission
  /\ Ids = Accounts   \* the form offers the accounts as the API lists them
  /\ Cautious \subseteq Forms
  /\ None \notin Keys \cup Body

VARIABLES
  accounts, transfers, ledger, outbox,  \* the tables behind the API
  phase,    \* what the page shows
  key,      \* idempotency-key of the last submission
  wanted,   \* the body of the last submission
  shown,    \* the transfer whose page the router has opened
  keys,     \* the keys each form has generated
  sent,     \* requests on their way to the API
  answers   \* answers on their way back

tables == <<accounts, transfers, ledger, outbox>>
vars   == <<tables, phase, key, wanted, shown, keys, sent, answers>>

Bank == INSTANCE Bank

\* createTransferSchema; the form offers existing accounts.
Valid == {b \in Body : b.src # b.dst}

Init ==
  /\ Bank!Init
  /\ phase = [f \in Forms |-> "editing"]
  /\ key = [f \in Forms |-> None]
  /\ wanted = [f \in Forms |-> None]
  /\ shown = [f \in Forms |-> NoTransfer]
  /\ keys = [f \in Forms |-> {}]
  /\ sent = {} /\ answers = {}

-----------------------------------------------------------------------------
(* The browser *)

Used == UNION {keys[f] : f \in Forms}

\* Mutation of Post: a key may come twice.
PostAnyKey(f, k, body) ==
  /\ keys' = [keys EXCEPT ![f] = @ \cup {k}]
  /\ sent' = sent \cup {[form |-> f, key |-> k, body |-> body]}
  /\ key' = [key EXCEPT ![f] = k]
  /\ wanted' = [wanted EXCEPT ![f] = body]
  /\ phase' = [phase EXCEPT ![f] = "pending"]
  /\ UNCHANGED <<tables, shown, answers>>

\* A POST with a fresh key.
Post(f, k, body) ==
  /\ k \notin Used
  /\ keys' = [keys EXCEPT ![f] = @ \cup {k}]
  /\ sent' = sent \cup {[form |-> f, key |-> k, body |-> body]}
  /\ key' = [key EXCEPT ![f] = k]
  /\ wanted' = [wanted EXCEPT ![f] = body]
  /\ phase' = [phase EXCEPT ![f] = "pending"]
  /\ UNCHANGED <<tables, shown, answers>>

\* Mutation of Submit: the button stays enabled while a request is pending.
SubmitWhilePending(f) ==
  /\ phase[f] \in {"editing", "pending", "refused"}
  /\ \E k \in Keys, body \in Valid : Post(f, k, body)

\* handleSubmit; the button is disabled while isPending.
Submit(f) ==
  /\ phase[f] \in {"editing", "refused"} \cup (IF f \in Cautious THEN {} ELSE {"unclear"})
  /\ \E k \in Keys, body \in Valid : Post(f, k, body)

\* No answer within 10 seconds, or a network error: the browser drops the
\* request, and its answer if there will be one.
GiveUp(f) ==
  /\ phase[f] = "pending"
  /\ phase' = [phase EXCEPT ![f] = "unclear"]
  /\ UNCHANGED <<tables, key, wanted, shown, keys, sent, answers>>

\* What the interceptor and mutateAsync make of a status code.
Outcome(code) == CASE code = 201 -> "paid"
                   [] code = 400 -> "refused"
                   [] code = 500 -> "unclear"

\* Mutation of Awaited: an answer counts for whatever the form submitted last.
AwaitedByForm(a) == phase[a.form] = "pending"

\* The form still waits for just this answer.
Awaited(a) == phase[a.form] = "pending" /\ key[a.form] = a.key

Receive(a) ==
  /\ a \in answers
  /\ answers' = answers \ {a}
  /\ IF Awaited(a)
     THEN /\ phase' = [phase EXCEPT ![a.form] = Outcome(a.code)]
          /\ shown' = [shown EXCEPT ![a.form] = a.transfer]
     ELSE UNCHANGED <<phase, shown>>
  /\ UNCHANGED <<tables, key, wanted, keys, sent>>

-----------------------------------------------------------------------------
(* The network and the API *)

Reply(q, code, transfer) ==
  /\ q \in sent
  /\ sent' = sent \ {q}
  /\ answers' = answers \cup {[form |-> q.form, key |-> q.key, code |-> code,
                               transfer |-> transfer]}
  /\ UNCHANGED <<phase, key, wanted, shown, keys>>

Accept(q) == Bank!Transfer(q.key, Payer[q.form], q.key, q.body)

Row(q) == [id |-> q.key, body |-> q.body, status |-> "SUCCESS"]

\* A request is accepted, refused, or fails with or without effect.
Serve(q) ==
  \/ Accept(q) /\ Reply(q, 201, Row(q))
  \/ /\ ~Bank!MayTransfer(Payer[q.form], q.body)
     /\ UNCHANGED tables
     /\ Reply(q, 400, NoTransfer)
  \/ (Accept(q) \/ UNCHANGED tables) /\ Reply(q, 500, NoTransfer)

\* The request never arrives.
Drop(q) ==
  /\ sent' = sent \ {q}
  /\ UNCHANGED <<tables, phase, key, wanted, shown, keys, answers>>

\* The answer never arrives.
DropAnswer(a) ==
  /\ answers' = answers \ {a}
  /\ UNCHANGED <<tables, phase, key, wanted, shown, keys, sent>>

-----------------------------------------------------------------------------
Next ==
  \/ \E f \in Forms : Submit(f) \/ GiveUp(f)
  \/ \E q \in sent : Serve(q)
  \/ \E q \in sent : Drop(q)
  \/ \E a \in answers : Receive(a)
  \/ \E a \in answers : DropAnswer(a)

Spec == Init /\ [][Next]_vars

-----------------------------------------------------------------------------
(* Properties *)

\* Every variable keeps its type; no two forms generate the same key.
TypeOK ==
  /\ phase \in [Forms -> {"editing", "pending", "paid", "refused", "unclear"}]
  /\ key \in [Forms -> Keys \cup {None}]
  /\ wanted \in [Forms -> Valid \cup {None}]
  /\ shown \in [Forms -> TransferRow \cup {NoTransfer}]
  /\ keys \in [Forms -> SUBSET Keys]
  /\ sent \subseteq [form: Forms, key: Used, body: Valid]
  /\ answers \subseteq [form: Forms, key: Used, code: {201, 400, 500},
                        transfer: TransferRow \cup {NoTransfer}]
  /\ \A f \in Forms : key[f] = None <=> phase[f] = "editing"
  /\ \A f, g \in Forms : f # g => keys[f] \cap keys[g] = {}

\* What the user is told is so: the page that opens is of the transfer last
\* submitted, as the bank has stored it, and a refused one was not stored.
UserIsToldTheTruth ==
  \A f \in Forms :
    LET row == transfers[<<Payer[f], key[f]>>]
    IN  /\ phase[f] = "paid" => /\ shown[f] = row
                                /\ row # NoTransfer /\ row.body = wanted[f]
        /\ phase[f] = "refused" => row = NoTransfer

\* The transfers one visit of the page has made.
Paid(f) == {k \in keys[f] : transfers[<<Payer[f], k>>] # NoTransfer}

\* Whoever does not try again while it is open whether they have paid pays once
\* per visit, whatever was refused before and whatever the network does.
PaidOnce == \A f \in Cautious : Cardinality(Paid(f)) <= 1

\* FE-FR-11: trying again from the same form after a timeout makes no second
\* transfer either.
RetryPaysOnce == \A f \in Forms : Cardinality(Paid(f)) <= 1
=============================================================================
