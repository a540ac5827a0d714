----------------------------- MODULE QueryCache -----------------------------
(***************************************************************************)
(* The query cache of one tab (query-client.ts, accounts.queries.ts,       *)
(* transfers.queries.ts): the pages that mount queries, the GETs that fill *)
(* them, the mutations and what they invalidate when the API has reported  *)
(* success.                                                                *)
(*                                                                         *)
(* Of the answer to a GET only the writes it shows are kept.  Staleness    *)
(* (five minutes) and invalidation have the same effect, a fetch at the    *)
(* next mount, and are one flag.  A transfer's own page is left out: a     *)
(* committed transfer never changes.                                       *)
(***************************************************************************)
EXTENDS Integers, FiniteSets, SequencesExt

CONSTANTS
  Accounts,   \* ids of accounts
  Writes,     \* the mutations of a behaviour
  Kinds,      \* what they may do: records [op, src, dst]
  Pages,      \* the pages the user may open
  MaxVisits,  \* bound on how often pages are opened
  MaxFaults   \* bound on the failures of a behaviour

\* queryKeys
AccountLists      == <<"accounts", "list">>
AccountList(n)    == <<"accounts", "list", n>>
Detail(a)         == <<"accounts", "detail", a>>
LedgerOf(a)       == <<"accounts", "detail", a, "ledger">>
Ledger(a, n)      == <<"accounts", "detail", a, "ledger", n>>
TransfersOf(a, n) == <<"accounts", "detail", a, "transfers", n>>
TransferLists     == <<"transfers", "list">>
TransferList(n)   == <<"transfers", "list", n>>

\* The queries a page mounts at once, and the tab it mounts below the account
\* once that is there.
Mounts(p) ==
  CASE p[1] = "dashboard"   -> {AccountList("5"), TransferList("5")}
    [] p[1] = "accounts"    -> {AccountList("10")}
    [] p[1] = "transfers"   -> {TransferList("10")}
    [] p[1] = "newTransfer" -> {AccountList("100")}
    [] p[1] = "account"     -> {Detail(p[2])}
    [] OTHER                -> {}

Tab(p) == IF p[1] # "account" THEN {}
          ELSE IF p[3] = "ledger" THEN {Ledger(p[2], "10")} ELSE {TransfersOf(p[2], "10")}

Queries == UNION {Mounts(p) \cup Tab(p) : p \in Pages}

Elsewhere == <<"elsewhere">>

ASSUME CacheAssumption ==
  /\ Kinds \subseteq [op: {"create", "topup", "status", "transfer"},
                      src: Accounts, dst: Accounts]
  /\ Elsewhere \in Pages
  /\ MaxVisits \in Nat /\ MaxFaults \in Nat

VARIABLES
  kind,    \* what each mutation does
  phase,   \* how far its mutationFn is
  stored,  \* mutations the API has committed
  page,    \* the page that is open
  cache,   \* the state of each query
  visits, faults

vars == <<kind, phase, stored, page, cache, visits, faults>>

NoFetch == [stage |-> "none", saw |-> {}, again |-> FALSE]
Asked   == [stage |-> "asked", saw |-> {}, again |-> FALSE]

\* A query: the writes its data shows (hasData), isInvalidated or older than
\* staleTime, in error, its fetch, and the reported writes that a first load or a
\* load behind a page that was left has overlooked (no part of the program).
Missing == [hasData |-> FALSE, data |-> {}, stale |-> FALSE, error |-> FALSE,
            fetch |-> NoFetch, missed |-> {}]

Init ==
  /\ kind \in [Writes -> Kinds]
  /\ phase = [m \in Writes |-> "idle"]
  /\ stored = {}
  /\ page = Elsewhere
  /\ cache = [k \in Queries |-> Missing]
  /\ visits = 0 /\ faults = 0

-----------------------------------------------------------------------------
(* The API *)

\* The rows a mutation writes, by account.  A new account has no page yet.
Changes(m) ==
  LET op == kind[m].op
      ends == CASE op = "create"   -> {}
                [] op = "transfer" -> {kind[m].src, kind[m].dst}
                [] OTHER           -> {kind[m].dst}
  IN  [accounts  |-> ends,
       ledger    |-> IF op \in {"topup", "transfer"} THEN ends ELSE {},
       transfers |-> IF op = "transfer" THEN ends ELSE {}]

\* The SELECT behind a query finds rows m has written.
Affects(m, k) ==
  LET rows == Changes(m)
  IN  \/ k[1] = "transfers" /\ rows.transfers # {}
      \/ k[1] = "accounts" /\ k[2] = "list"
      \/ Len(k) = 3 /\ k[2] = "detail" /\ k[3] \in rows.accounts
      \/ Len(k) = 5 /\ k[4] = "ledger" /\ k[3] \in rows.ledger
      \/ Len(k) = 5 /\ k[4] = "transfers" /\ k[3] \in rows.transfers

\* The rows are read.  The COUNT that follows is a statement of its own.
Serve(k) ==
  /\ cache[k].fetch.stage = "asked"
  /\ cache' = [cache EXCEPT ![k].fetch =
                 [@ EXCEPT !.stage = "read", !.saw = {m \in stored : Affects(m, k)}]]
  /\ UNCHANGED <<kind, phase, stored, page, visits, faults>>

\* A mutation is committed, perhaps after its client has given up.
Store(m) ==
  /\ phase[m] \in {"pending", "error"} /\ m \notin stored
  /\ stored' = stored \cup {m}
  /\ UNCHANGED <<kind, phase, page, cache, visits, faults>>

-----------------------------------------------------------------------------
(* Mounted queries *)

\* DataState hides the tab behind the error of the account.
Mounted(p, c) ==
  Mounts(p) \cup (IF \A k \in Mounts(p) : c[k].hasData /\ ~c[k].error THEN Tab(p) ELSE {})

\* Queries that get mounted with no data or stale data are fetched.
Mounting(p, c, before) ==
  [k \in Queries |->
     IF /\ k \in Mounted(p, c) \ before
        /\ ~c[k].hasData \/ c[k].stale
        /\ c[k].fetch = NoFetch
     THEN [c[k] EXCEPT !.fetch = Asked]
     ELSE c[k]]

SameAccount(p) == page[1] = "account" /\ p[1] = "account" /\ page[2] = p[2]

\* The user follows a link.  The page of an account opens with the ledger; the
\* other tab leaves the account mounted.
Open(p) ==
  /\ visits < MaxVisits
  /\ visits' = visits + 1
  /\ p # page /\ page' = p
  /\ p[1] = "account" /\ p[3] = "transfers" => SameAccount(p)
  /\ cache' = Mounting(p, cache, IF SameAccount(p) THEN Mounts(p) ELSE {})
  /\ UNCHANGED <<kind, phase, stored, faults>>

\* Mutation of Receive: the tab that appears with the account is not fetched.
ReceiveOnly(k) ==
  /\ cache[k].fetch.stage = "read"
  /\ cache' = [cache EXCEPT ![k] =
                 [Missing EXCEPT !.hasData = TRUE, !.data = cache[k].fetch.saw,
                                 !.missed = cache[k].missed \ cache[k].fetch.saw]]
  /\ UNCHANGED <<kind, phase, stored, page, visits, faults>>

\* The answer arrives; what was invalidated meanwhile counts as fresh.
Receive(k) ==
  /\ cache[k].fetch.stage = "read"
  /\ LET received == [Missing EXCEPT !.hasData = TRUE, !.data = cache[k].fetch.saw,
                                     !.missed = cache[k].missed \ cache[k].fetch.saw]
     IN  cache' = Mounting(page, [cache EXCEPT ![k] = received], Mounted(page, cache))
  /\ UNCHANGED <<kind, phase, stored, page, visits, faults>>

\* A GET fails.  It is tried once more, unless the answer says that this is of
\* no use.
FetchFails(k) ==
  /\ cache[k].fetch # NoFetch
  /\ faults < MaxFaults /\ faults' = faults + 1
  /\ \/ /\ ~cache[k].fetch.again
        /\ cache' = [cache EXCEPT ![k].fetch = [Asked EXCEPT !.again = TRUE]]
     \/ cache' = [cache EXCEPT ![k] =
                     [@ EXCEPT !.fetch = NoFetch, !.error = TRUE, !.stale = TRUE]]
  /\ UNCHANGED <<kind, phase, stored, page, visits>>

\* Mutation of Restarted: a fetch under way goes on (cancelRefetch: false).
RestartedContinues(q) == IF q.fetch = NoFetch THEN [q EXCEPT !.fetch = Asked] ELSE q

\* query.refetch: a query with data starts its fetch again, one without goes on.
Restarted(q) == IF q.hasData \/ q.fetch = NoFetch THEN [q EXCEPT !.fetch = Asked] ELSE q

\* The button of ErrorAlert.
Retry(k) ==
  /\ k \in Mounted(page, cache) /\ page[1] # "dashboard"
  /\ cache[k].error /\ cache[k].fetch = NoFetch
  /\ cache' = [cache EXCEPT ![k] = Restarted(@)]
  /\ UNCHANGED <<kind, phase, stored, page, visits, faults>>

\* staleTime and gcTime.  The age of a query matters when it gets mounted.
Age(k) ==
  /\ cache[k].hasData /\ ~cache[k].stale
  /\ cache[k].fetch = NoFetch /\ k \notin Mounted(page, cache)
  /\ cache' = [cache EXCEPT ![k].stale = TRUE]
  /\ UNCHANGED <<kind, phase, stored, page, visits, faults>>

Collect(k) ==
  /\ cache[k] # Missing /\ cache[k].fetch = NoFetch /\ k \notin Mounted(page, cache)
  /\ cache' = [cache EXCEPT ![k] = Missing]
  /\ UNCHANGED <<kind, phase, stored, page, visits, faults>>

\* useLogoutMutation: queryClient.clear, and the login page.
Clear ==
  /\ visits < MaxVisits
  /\ visits' = visits + 1
  /\ page' = Elsewhere
  /\ cache' = [k \in Queries |-> Missing]
  /\ UNCHANGED <<kind, phase, stored, faults>>

-----------------------------------------------------------------------------
(* Mutations *)

\* The form or the button is there: on the page of new transfers once its list
\* of accounts is, on the page of the account once that is.
Offered(m) ==
  CASE kind[m].op = "transfer" -> /\ page[1] = "newTransfer"
                                  /\ cache[AccountList("100")].hasData
    [] kind[m].op \in {"topup", "status"} -> /\ page[1] = "account"
                                             /\ page[2] = kind[m].dst
                                             /\ cache[Detail(page[2])].hasData
    [] kind[m].op = "create" -> page = Elsewhere

Send(m) ==
  /\ phase[m] = "idle" /\ Offered(m)
  /\ phase' = [phase EXCEPT ![m] = "pending"]
  /\ UNCHANGED <<kind, stored, page, cache, visits, faults>>

\* Mutation of Filters: only the queries of the source.
FiltersOfSource(m) ==
  LET b == kind[m].dst
  IN  CASE kind[m].op = "create"   -> {AccountLists}
        [] kind[m].op = "topup"    -> {Detail(b), AccountLists, LedgerOf(b)}
        [] kind[m].op = "status"   -> {Detail(b), AccountLists}
        [] kind[m].op = "transfer" -> {TransferLists, AccountLists,
                                       Detail(kind[m].src), LedgerOf(kind[m].src)}

\* The keys each onSuccess invalidates.
Filters(m) ==
  LET a == kind[m].src
      b == kind[m].dst
  IN  CASE kind[m].op = "create"   -> {AccountLists}
        [] kind[m].op = "topup"    -> {Detail(b), AccountLists, LedgerOf(b)}
        [] kind[m].op = "status"   -> {Detail(b), AccountLists}
        [] kind[m].op = "transfer" -> {TransferLists, AccountLists, Detail(a), Detail(b),
                                       LedgerOf(a), LedgerOf(b)}

\* The fetches the library never starts again: the first load of a query, and
\* that of a query no open page has mounted.
LeftAlone(q, mounted) == ~mounted \/ ~q.hasData

\* Invalidate one query: it is stale, and fetched if it is mounted.  A load that
\* is left alone and has read before the write overlooks it.
Invalidated(q, m, mounted) ==
  [(IF mounted THEN Restarted(q) ELSE q) EXCEPT
     !.stale = TRUE,
     !.missed = IF /\ LeftAlone(q, mounted)
                   /\ q.fetch.stage = "read" /\ m \notin q.fetch.saw
                THEN @ \cup {m} ELSE @]

\* invalidateQueries matches every key that begins with the filter.
Invalidation(m) ==
  [k \in Queries |->
     IF cache[k] # Missing /\ \E f \in Filters(m) : IsPrefix(f, k)
     THEN Invalidated(cache[k], m, k \in Mounted(page, cache))
     ELSE cache[k]]

\* The API reports success: onSuccess, then the handler that waits for it, which
\* opens the page of the new transfer or account.
Success(m) ==
  /\ phase[m] = "pending" /\ m \in stored
  /\ phase' = [phase EXCEPT ![m] = "ok"]
  /\ cache' = Invalidation(m)
  /\ page' = IF kind[m].op \in {"transfer", "create"} THEN Elsewhere ELSE page
  /\ UNCHANGED <<kind, stored, visits, faults>>

\* No answer within 10 seconds, or an error, whatever the API does.
Fail(m) ==
  /\ phase[m] = "pending"
  /\ phase' = [phase EXCEPT ![m] = "error"]
  /\ UNCHANGED <<kind, stored, page, cache, visits, faults>>

-----------------------------------------------------------------------------
Fetching(k) == Serve(k) \/ Receive(k)

Next ==
  \/ \E p \in Pages : Open(p)
  \/ \E k \in Queries : Fetching(k) \/ FetchFails(k) \/ Retry(k) \/ Age(k) \/ Collect(k)
  \/ Clear
  \/ \E m \in Writes : Send(m) \/ Store(m) \/ Success(m) \/ Fail(m)

Spec == Init /\ [][Next]_vars

\* A GET is answered or times out.
FairSpec == Spec /\ \A k \in Queries : WF_vars(Fetching(k))

-----------------------------------------------------------------------------
(* Properties *)

\* Every variable keeps its type; answers only show what is committed and
\* concerns the query; what a page has mounted has data, an error or a fetch
\* under way.
TypeOK ==
  /\ phase \in [Writes -> {"idle", "pending", "ok", "error"}]
  /\ stored \subseteq Writes /\ {m \in Writes : phase[m] = "ok"} \subseteq stored
  /\ page \in Pages /\ visits \in 0..MaxVisits /\ faults \in 0..MaxFaults
  /\ \A k \in Queries :
       LET q == cache[k]
       IN  /\ q.data \cup q.fetch.saw \subseteq {m \in stored : Affects(m, k)}
           /\ q.fetch.stage \in {"none", "asked", "read"}
           /\ {q.hasData, q.stale, q.error} \subseteq BOOLEAN
           /\ k \in Mounted(page, cache) => q.hasData \/ q.error \/ q.fetch # NoFetch

Reported(k) == {m \in Writes : phase[m] = "ok" /\ Affects(m, k)}

\* Data that counts as fresh shows every write whose success the API has
\* reported, of whatever page and whatever was open then.  Excepted is a write
\* that was reported between the read and the answer of a first load, or of a load
\* whose page was left: those are not started again, and count as fresh without
\* it.  A query on the page that has data gets no such exception: its load has to
\* be started again.
FreshDataIsCurrent ==
  \A k \in Queries :
    cache[k].hasData /\ ~cache[k].stale => Reported(k) \subseteq cache[k].data \cup cache[k].missed

\* What a page shows of k contains m.
Shown(m, k) == m \in cache[k].data

\* Whoever stays on a page in the end is shown every reported write there,
\* whatever they have opened in between, or an error; or the write is one that a
\* first load, or the load of a page that was left, has overlooked (see
\* FreshDataIsCurrent).
SuccessIsShown ==
  \A m \in Writes :
    phase[m] = "ok" ~>
      [](\A k \in Mounted(page, cache) :
           Affects(m, k) => Shown(m, k) \/ cache[k].error \/ m \in cache[k].missed)
=============================================================================
