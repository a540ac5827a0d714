-------------------------- MODULE MCTransferLedger --------------------------
(***************************************************************************)
(* Instances of TransferLedger for TLC.  Three accounts: 1 of alice, 2 of  *)
(* bob, 3 not there yet; 0 is another spelling of 2, which sorts before    *)
(* both.  root is the administrator.                                       *)
(***************************************************************************)
EXTENDS TransferLedger, TLC

CONSTANTS alice, bob, root, k1, k2, vnd, usd

Row(status, balance, owner) ==
  [status |-> status, balance |-> balance, owner |-> owner, currency |-> vnd]

\* PostgreSQL reads either spelling as account 2.
MCRowOf == [id \in Ids |-> IF id = 0 THEN 2 ELSE id]

\* alice can pay 2 once; twice would overdraw her.
MCOpening ==
  <<Row("ACTIVE", 3, alice), Row("ACTIVE", 1, bob), Row("ABSENT", 0, alice)>>

Pay(user, key, src, dst, amount) ==
  [op |-> "transfer", user |-> user, key |-> key, src |-> src, dst |-> dst,
   amount |-> amount, currency |-> vnd]

Admin(op, a, amount) ==
  [op |-> op, user |-> root, key |-> k1, src |-> a, dst |-> a,
   amount |-> amount, currency |-> vnd]

\* The races over balances, keys and lock order.
RaceList ==
  <<Pay(alice, k1, 1, 2, 2),   \* the transfer
    Pay(alice, k1, 1, 2, 1),   \* its key with another body
    Pay(alice, k2, 1, 2, 2),   \* a second one: both would overdraw alice
    Pay(bob, k1, 2, 1, 1),     \* the opposite direction
    Admin("topup", 1, 1), Admin("lock", 2, 1), Admin("unlock", 2, 1)>>

\* Every refusal, and accounts that appear while a transfer looks for them.
Refusals ==
  {Pay(alice, k1, 1, 2, 2),
   Pay(alice, k1, 1, 3, 2),
   Pay(alice, k2, 1, 1, 1),                             \* to itself
   Pay(bob, k1, 1, 2, 1),                               \* not the owner's
   Pay(root, k1, 1, 2, 1),                              \* ADMIN may
   [Pay(alice, k2, 1, 2, 1) EXCEPT !.currency = usd],
   [Admin("topup", 1, 1) EXCEPT !.user = bob],          \* not an ADMIN
   Admin("topup", 3, 1), Admin("lock", 3, 1), Admin("create", 3, 1)}

\* An account appears while transfers to it run, in one of two currencies.
OpeningList ==
  <<Pay(alice, k1, 1, 3, 2), Pay(alice, k1, 1, 2, 2), Admin("create", 3, 1),
    [Admin("create", 3, 1) EXCEPT !.currency = usd]>>

\* One key, two bodies; alice cannot afford the second.
Reuse == {Pay(alice, k1, 1, 2, 2), Pay(alice, k1, 1, 2, 4)}

\* Transfers in both directions between two accounts, and others who lock them.
Opposites ==
  {Pay(alice, k1, 1, 2, 2), Pay(alice, k2, 1, 2, 2), Pay(bob, k1, 2, 1, 1),
   Admin("topup", 1, 1), Admin("lock", 2, 1)}

\* Account 2 under both spellings: as a source that is not recognised, as a
\* destination that sorts first and one that does not, and twice in a transfer.
Spellings ==
  {Pay(alice, k1, 0, 1, 2), Pay(alice, k1, 1, 0, 2), Pay(alice, k2, 1, 2, 2),
   Pay(bob, k2, 0, 2, 1)}

\* What the requests of a run are drawn from: the races, the openings, the
\* opposites, the refusals or the spellings.
RacesAndOpenings == Range(RaceList) \cup Range(OpeningList)
Everything       == RacesAndOpenings \cup Opposites \cup Refusals \cup Spellings

From(commands) == cmd \in [Requests -> commands]
MixInit ==
  /\ Init
  /\ \E set \in {Range(RaceList), Range(OpeningList), Opposites, Refusals, Spellings} :
       From(set)
MixSpec == MixInit /\ [][Next]_vars

\* Requests differ in what they ask for only, so it is enough to hand out the
\* commands of a list in its order (liveness is checked without SYMMETRY).
Turn == CHOOSE t \in [Requests -> 1..Cardinality(Requests)] : IsInjective(t)
InOrder(list) ==
  \E place \in [Requests -> DOMAIN list] :
    /\ \A q, r \in Requests : Turn[q] < Turn[r] => place[q] <= place[r]
    /\ cmd = [r \in Requests |-> list[place[r]]]

RaceInit     == Init /\ (InOrder(RaceList) \/ InOrder(OpeningList))
RaceFairSpec == RaceInit /\ [][Next]_vars /\ Fairness

Symmetric == Permutations(Requests)
=============================================================================
