---------------------------- MODULE MCQueryCache -----------------------------
(* Instances of QueryCache for TLC: what changes the second account, seen    *)
(* from its page, the list of transfers and the form.                        *)
EXTENDS QueryCache

CONSTANTS first, second

Does(op) == [op |-> op, src |-> first, dst |-> second]

MCKinds == {Does("transfer"), Does("topup"), Does("create")}

MCPages ==
  {<<"transfers">>, <<"newTransfer">>, <<"account", second, "ledger">>,
   <<"account", second, "transfers">>, Elsewhere}
=============================================================================
