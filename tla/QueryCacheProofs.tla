-------------------------- MODULE QueryCacheProofs ---------------------------
(***************************************************************************)
(* Data that counts as fresh shows every reported write: for any pages,    *)
(* accounts and mutations, and whatever is fetched when.                   *)
(***************************************************************************)
EXTENDS QueryCache, TLAPS

Fetch == [stage: {"none", "asked", "read"}, saw: SUBSET Writes, again: BOOLEAN]
Query == [hasData: BOOLEAN, data: SUBSET Writes, stale: BOOLEAN, error: BOOLEAN,
          fetch: Fetch, missed: SUBSET Writes]

\* The fields that decide what is mounted.
Alike(q, r) == r.hasData = q.hasData /\ r.error = q.error

-----------------------------------------------------------------------------
(* Keys *)

\* A query is one of five kinds.
LEMMA KeysOfQueries ==
  ASSUME NEW k \in Queries
  PROVE  \/ \E n : k = AccountList(n) \/ k = TransferList(n)
         \/ \E a : k = Detail(a)
         \/ \E a, n : k = Ledger(a, n) \/ k = TransfersOf(a, n)
<1>1. PICK p \in Pages : k \in Mounts(p) \cup Tab(p) BY DEF Queries
<1>2. CASE k \in Tab(p)
  <2>1. k = Ledger(p[2], "10") \/ k = TransfersOf(p[2], "10") BY <1>2 DEF Tab
  <2> QED BY <2>1
<1>3. CASE k \in Mounts(p)
  <2>1. \/ k \in {AccountList("5"), TransferList("5")} \/ k = AccountList("10")
        \/ k = TransferList("10") \/ k = AccountList("100") \/ k = Detail(p[2])
    BY <1>3 DEF Mounts
  <2> QED BY <2>1
<1> QED BY <1>1, <1>2, <1>3

\* The filters of a mutation match every query that shows rows it has written.
LEMMA FiltersMatch ==
  ASSUME NEW m \in Writes, NEW k \in Queries, Affects(m, k),
         kind[m] \in [op: {"create", "topup", "status", "transfer"}, src: Accounts, dst: Accounts]
  PROVE  \E f \in Filters(m) : IsPrefix(f, k)
<1> DEFINE op == kind[m].op
<1>0. op \in {"create", "topup", "status", "transfer"} OBVIOUS
<1>1. CASE \E n : k = AccountList(n)
  <2>1. PICK n : k = AccountList(n) BY <1>1
  <2>2. AccountLists \in Filters(m) BY <1>0 DEF Filters
  <2>3. IsPrefix(AccountLists, k) BY <2>1 DEF IsPrefix, AccountLists, AccountList
  <2> QED BY <2>2, <2>3
<1>2. CASE \E n : k = TransferList(n)
  <2>1. PICK n : k = TransferList(n) BY <1>2
  <2>2. op = "transfer"
    BY <2>1, <1>0 DEF Affects, Changes, TransferList
  <2>3. TransferLists \in Filters(m) BY <2>2 DEF Filters
  <2>4. IsPrefix(TransferLists, k) BY <2>1 DEF IsPrefix, TransferLists, TransferList
  <2> QED BY <2>3, <2>4
<1>3. CASE \E a : k = Detail(a)
  <2>1. PICK a : k = Detail(a) BY <1>3
  <2>2. Len(k) = 3 /\ k[1] = "accounts" /\ k[2] = "detail" /\ k[3] = a BY <2>1 DEF Detail
  <2>3. a \in Changes(m).accounts BY <2>2 DEF Affects
  <2>4. Detail(a) \in Filters(m) BY <2>3, <1>0 DEF Changes, Filters
  <2>5. IsPrefix(Detail(a), k) BY <2>1 DEF IsPrefix, Detail
  <2> QED BY <2>4, <2>5
<1>4. CASE \E a, n : k = Ledger(a, n)
  <2>1. PICK a, n : k = Ledger(a, n) BY <1>4
  <2>2. Len(k) = 5 /\ k[1] = "accounts" /\ k[2] = "detail" /\ k[3] = a /\ k[4] = "ledger"
    BY <2>1 DEF Ledger
  <2>3. a \in Changes(m).ledger BY <2>2 DEF Affects
  <2>4. LedgerOf(a) \in Filters(m) BY <2>3, <1>0 DEF Changes, Filters
  <2>5. IsPrefix(LedgerOf(a), k) BY <2>1 DEF IsPrefix, LedgerOf, Ledger
  <2> QED BY <2>4, <2>5
<1>5. CASE \E a, n : k = TransfersOf(a, n)
  <2>1. PICK a, n : k = TransfersOf(a, n) BY <1>5
  <2>2. Len(k) = 5 /\ k[1] = "accounts" /\ k[2] = "detail" /\ k[3] = a /\ k[4] = "transfers"
    BY <2>1 DEF TransfersOf
  <2>3. a \in Changes(m).transfers BY <2>2 DEF Affects
  <2>4. Detail(a) \in Filters(m) BY <2>3, <1>0 DEF Changes, Filters
  <2>5. IsPrefix(Detail(a), k) BY <2>1 DEF IsPrefix, Detail, TransfersOf
  <2> QED BY <2>4, <2>5
<1> QED BY <1>1, <1>2, <1>3, <1>4, <1>5, KeysOfQueries
-----------------------------------------------------------------------------
(* Types *)

Types ==
  /\ kind \in [Writes -> [op: {"create", "topup", "status", "transfer"},
                          src: Accounts, dst: Accounts]]
  /\ phase \in [Writes -> {"idle", "pending", "ok", "error"}]
  /\ stored \subseteq Writes
  /\ \A m \in Writes : phase[m] = "ok" => m \in stored
  /\ page \in Pages /\ visits \in 0..MaxVisits /\ faults \in 0..MaxFaults
  /\ cache \in [Queries -> Query]

\* What a step does to one query: nothing; it starts a fetch; the answer comes;
\* it is forgotten, or out of date.
LEMMA QueryTypes ==
  ASSUME NEW q \in Query
  PROVE  /\ Missing \in Query /\ Asked \in Fetch /\ NoFetch \in Fetch
         /\ [q EXCEPT !.fetch = Asked] \in Query
         /\ [q EXCEPT !.stale = TRUE] \in Query
         /\ Restarted(q) \in Query
<1>1. Asked \in Fetch /\ NoFetch \in Fetch BY SMT DEF Fetch, Asked, NoFetch
<1>2. Missing \in Query BY <1>1, Zenon DEF Query, Missing
<1>3. [q EXCEPT !.fetch = Asked] \in Query BY <1>1 DEF Query
<1>4. [q EXCEPT !.stale = TRUE] \in Query
  <2>1. TRUE \in BOOLEAN OBVIOUS
  <2>2. \A v \in BOOLEAN : [q EXCEPT !.stale = v] \in Query BY SMT DEF Query
  <2> QED BY <2>1, <2>2
<1> QED BY <1>1, <1>2, <1>3, <1>4, Zenon DEF Restarted

\* What is mounted depends on what is there and what has failed.
LEMMA MountedAlike ==
  ASSUME NEW p \in Pages, NEW c, NEW d, \A k \in Queries : Alike(c[k], d[k])
  PROVE  Mounted(p, c) = Mounted(p, d)
<1>1. Mounts(p) \subseteq Queries BY DEF Queries
<1> QED BY <1>1 DEF Mounted, Alike

\* What a page mounts are queries.
LEMMA MountedQueries ==
  ASSUME NEW p \in Pages, NEW c
  PROVE  Mounted(p, c) \subseteq Queries
BY DEF Mounted, Queries

\* Mounting starts the fetches of queries that need one, and nothing else.
LEMMA MountingEffect ==
  ASSUME NEW p \in Pages, NEW c \in [Queries -> Query], NEW before
  PROVE  /\ Mounting(p, c, before) \in [Queries -> Query]
         /\ \A k \in Queries :
              LET new == Mounting(p, c, before)[k]
              IN  /\ Alike(c[k], new)
                  /\ new = c[k] \/ new = [c[k] EXCEPT !.fetch = Asked]
                  /\ k \in Mounted(p, c) \ before => new.hasData \/ new.fetch # NoFetch
<1> DEFINE new(k) == Mounting(p, c, before)[k]
<1>1. ASSUME NEW k \in Queries
      PROVE  /\ new(k) = c[k] \/ new(k) = [c[k] EXCEPT !.fetch = Asked]
             /\ k \in Mounted(p, c) \ before /\ ~c[k].hasData /\ c[k].fetch = NoFetch
                  => new(k) = [c[k] EXCEPT !.fetch = Asked]
  BY DEF Mounting
<1>2. ASSUME NEW k \in Queries
      PROVE  /\ new(k) \in Query /\ Alike(c[k], new(k))
             /\ k \in Mounted(p, c) \ before => new(k).hasData \/ new(k).fetch # NoFetch
  <2>1. c[k] \in Query OBVIOUS
  <2>2. Asked # NoFetch BY DEF Asked, NoFetch
  <2>3. \/ new(k) = c[k]
        \/ new(k) = [c[k] EXCEPT !.fetch = Asked]
    BY <1>1
  <2>4. CASE new(k) = c[k]
    <3>1. ASSUME k \in Mounted(p, c) \ before, ~c[k].hasData, c[k].fetch = NoFetch PROVE FALSE
      <4>1. c[k] = [c[k] EXCEPT !.fetch = Asked] BY <1>1, <2>4, <3>1
      <4> QED BY <4>1, <2>1, <2>2, <3>1, SMT DEF Query
    <3> QED BY <2>1, <2>4, <3>1 DEF Alike
  <2>5. CASE new(k) = [c[k] EXCEPT !.fetch = Asked]
    <3>1. new(k) \in Query BY <2>1, <2>5, QueryTypes
    <3>2. new(k).fetch = Asked /\ new(k).hasData = c[k].hasData /\ new(k).error = c[k].error
      BY <2>1, <2>5, SMT DEF Query
    <3> QED BY <3>1, <3>2, <2>2 DEF Alike
  <2> QED BY <2>3, <2>4, <2>5
<1>3. Mounting(p, c, before) \in [Queries -> Query]
  <2>1. Mounting(p, c, before) = [k \in Queries |-> new(k)] BY DEF Mounting
  <2> QED BY <2>1, <1>2
<1> QED BY <1>1, <1>2, <1>3
-----------------------------------------------------------------------------
(* Steps that show nothing new *)

\* Such a step may start, drop or fail a fetch, forget data or call it stale.
Calm(q, r) ==
  /\ r \in Query
  /\ r.hasData /\ ~r.stale =>
       q.hasData /\ ~q.stale /\ r.data = q.data /\ r.missed = q.missed
  /\ r.fetch.stage = "read" => r.fetch = q.fetch /\ r.missed = q.missed
  /\ r.data \cup r.fetch.saw \subseteq q.data \cup q.fetch.saw

\* The ways in which they change a query.
LEMMA CalmChanges ==
  ASSUME NEW q \in Query
  PROVE  /\ Calm(q, q)
         /\ Calm(q, [q EXCEPT !.fetch = Asked])
         /\ Calm(q, [q EXCEPT !.fetch = [Asked EXCEPT !.again = TRUE]])
         /\ Calm(q, [q EXCEPT !.fetch = NoFetch, !.error = TRUE, !.stale = TRUE])
         /\ Calm(q, [q EXCEPT !.stale = TRUE])
         /\ Calm(q, Missing)
<1>1. Calm(q, q) BY DEF Calm
<1>2. ASSUME NEW f \in Fetch, f.stage # "read", f.saw = {}
      PROVE  Calm(q, [q EXCEPT !.fetch = f])
  <2>1. [q EXCEPT !.fetch = f] \in Query BY <1>2, SMT DEF Query
  <2>2. [q EXCEPT !.fetch = f].fetch = f BY SMT DEF Query
  <2> QED BY <1>2, <2>1, <2>2, SMT DEF Query, Calm
<1>3. Calm(q, [q EXCEPT !.fetch = Asked])
  <2>1. Asked.stage # "read" /\ Asked.saw = {} BY DEF Asked
  <2> QED BY <1>2, <2>1, QueryTypes
<1>4. Calm(q, [q EXCEPT !.fetch = [Asked EXCEPT !.again = TRUE]])
  <2> DEFINE f == [Asked EXCEPT !.again = TRUE]
  <2>1. \A v \in BOOLEAN : [Asked EXCEPT !.again = v] \in Fetch BY SMT DEF Fetch, Asked
  <2>2. f \in Fetch BY <2>1
  <2>3. f.stage # "read" /\ f.saw = {} BY SMT DEF Asked
  <2> QED BY <1>2, <2>2, <2>3
<1>5. ASSUME NEW r \in Query, r.stale, r.fetch \in {q.fetch, NoFetch}, r.data = q.data,
             r.missed = q.missed
      PROVE  Calm(q, r)
  <2>1. NoFetch.stage # "read" /\ NoFetch.saw = {} BY DEF NoFetch
  <2> QED BY <1>5, <2>1, SMT DEF Calm
<1>6. Calm(q, [q EXCEPT !.fetch = NoFetch, !.error = TRUE, !.stale = TRUE])
  <2> DEFINE r == [q EXCEPT !.fetch = NoFetch, !.error = TRUE, !.stale = TRUE]
  <2>0. NoFetch \in Fetch BY QueryTypes
  <2>1. \A v, w \in BOOLEAN : [q EXCEPT !.fetch = NoFetch, !.error = v, !.stale = w] \in Query
    <3>1. ASSUME NEW s \in Query PROVE \A v \in BOOLEAN : [s EXCEPT !.error = v] \in Query
      BY SMT DEF Query
    <3>2. ASSUME NEW s \in Query PROVE \A v \in BOOLEAN : [s EXCEPT !.stale = v] \in Query
      BY SMT DEF Query
    <3>3. [q EXCEPT !.fetch = NoFetch] \in Query BY <2>0, SMT DEF Query
    <3>4. ASSUME NEW v \in BOOLEAN, NEW w \in BOOLEAN
          PROVE  [[[q EXCEPT !.fetch = NoFetch] EXCEPT !.error = v] EXCEPT !.stale = w] \in Query
      BY <3>1, <3>2, <3>3
    <3> QED BY <3>4
  <2>2. r \in Query BY <2>1
  <2>3. r.stale /\ r.fetch = NoFetch /\ r.data = q.data /\ r.missed = q.missed BY SMT DEF Query
  <2> QED BY <1>5, <2>2, <2>3
<1>7. Calm(q, [q EXCEPT !.stale = TRUE])
  <2> DEFINE r == [q EXCEPT !.stale = TRUE]
  <2>1. r.stale /\ r.fetch = q.fetch /\ r.data = q.data /\ r.missed = q.missed BY SMT DEF Query
  <2> QED BY <1>5, <2>1, QueryTypes
<1>8. Calm(q, Missing)
  <2>1. ~Missing.hasData /\ Missing.data = {} /\ Missing.fetch = NoFetch BY DEF Missing
  <2>2. NoFetch.stage # "read" /\ NoFetch.saw = {} BY DEF NoFetch
  <2>3. Missing.fetch.stage # "read" /\ Missing.data \cup Missing.fetch.saw = {} BY <2>1, <2>2
  <2>4. Missing \in Query BY QueryTypes
  <2> QED BY <2>1, <2>3, <2>4, Zenon DEF Calm
<1> QED BY <1>1, <1>3, <1>4, <1>6, <1>7, <1>8

\* What is committed and reported, and the queries, change in different steps.
CalmStep ==
  /\ cache' \in [Queries -> Query]
  /\ \A k \in Queries : Calm(cache[k], cache'[k])
  /\ kind' = kind /\ stored \subseteq stored'
  /\ \A m \in Writes : phase'[m] = "ok" => phase[m] = "ok"

\* A calm change of one query leaves the others alone.
LEMMA CalmAt ==
  ASSUME Types, NEW k \in Queries, NEW r, cache' = [cache EXCEPT ![k] = r],
         Calm(cache[k], r)
  PROVE  /\ cache' \in [Queries -> Query]
         /\ \A j \in Queries : Calm(cache[j], cache'[j])
<1>1. r \in Query BY DEF Calm
<1>2. cache' \in [Queries -> Query] BY <1>1, SMT DEF Types
<1>3. \A j \in Queries : cache'[j] = IF j = k THEN r ELSE cache[j] BY SMT DEF Types
<1>4. \A j \in Queries : Calm(cache[j], cache[j]) BY CalmChanges DEF Types
<1> QED BY <1>2, <1>3, <1>4

\* So does no change at all.
LEMMA CalmSame ==
  ASSUME Types, cache' = cache
  PROVE  /\ cache' \in [Queries -> Query]
         /\ \A j \in Queries : Calm(cache[j], cache'[j])
BY CalmChanges DEF Types

\* The actions that show nothing new.
LEMMA CalmActions ==
  ASSUME Types,
         \/ \E p \in Pages : Open(p)
         \/ \E k \in Queries : FetchFails(k) \/ Retry(k) \/ Age(k) \/ Collect(k)
         \/ Clear \/ (\E m \in Writes : Send(m) \/ Store(m) \/ Fail(m)) \/ UNCHANGED vars
  PROVE  CalmStep
<1> DEFINE CacheIsCalm == /\ cache' \in [Queries -> Query]
                          /\ \A k \in Queries : Calm(cache[k], cache'[k])
<1>0. \A k \in Queries : cache[k] \in Query BY DEF Types
<1>1. ASSUME NEW p \in Pages, Open(p) PROVE CalmStep
  <2>1. PICK before : cache' = Mounting(p, cache, before) BY <1>1 DEF Open
  <2>2. /\ cache' \in [Queries -> Query]
        /\ \A k \in Queries : cache'[k] = cache[k] \/ cache'[k] = [cache[k] EXCEPT !.fetch = Asked]
    BY <2>1, MountingEffect DEF Types
  <2>3. \A k \in Queries : Calm(cache[k], cache'[k]) BY <2>2, <1>0, CalmChanges
  <2> QED BY <1>1, <2>2, <2>3 DEF Open, CalmStep
<1>2. ASSUME NEW k \in Queries, FetchFails(k) PROVE CalmStep
  <2> DEFINE f == [Asked EXCEPT !.again = TRUE]
  <2>1. ASSUME cache' = [cache EXCEPT ![k].fetch = f] PROVE CacheIsCalm
    <3>1. cache' = [cache EXCEPT ![k] = [cache[k] EXCEPT !.fetch = f]] BY <2>1
    <3> QED BY <3>1, <1>0, CalmAt, CalmChanges
  <2>2. ASSUME cache' = [cache EXCEPT ![k] =
                          [cache[k] EXCEPT !.fetch = NoFetch, !.error = TRUE, !.stale = TRUE]]
        PROVE  CacheIsCalm
    BY <1>0, <2>2, CalmAt, CalmChanges
  <2> QED BY <1>2, <2>1, <2>2 DEF FetchFails, CalmStep
<1>3. ASSUME NEW k \in Queries, Retry(k) PROVE CalmStep
  <2>1. cache' = [cache EXCEPT ![k] = Restarted(cache[k])] BY <1>3 DEF Retry
  <2>2. Calm(cache[k], Restarted(cache[k])) BY <1>0, CalmChanges DEF Restarted
  <2>3. CacheIsCalm BY <2>1, <2>2, CalmAt
  <2> QED BY <1>3, <2>3 DEF Retry, CalmStep
<1>4. ASSUME NEW k \in Queries, Age(k) PROVE CalmStep
  <2>1. cache' = [cache EXCEPT ![k] = [cache[k] EXCEPT !.stale = TRUE]]
    BY <1>4, SMT DEF Age, Types, Query
  <2>2. CacheIsCalm BY <2>1, <1>0, CalmAt, CalmChanges
  <2> QED BY <1>4, <2>2 DEF Age, CalmStep
<1>5. ASSUME NEW k \in Queries, Collect(k) PROVE CalmStep
  <2>1. CacheIsCalm BY <1>5, <1>0, CalmAt, CalmChanges DEF Collect
  <2> QED BY <1>5, <2>1 DEF Collect, CalmStep
<1>6. CASE Clear
  <2>1. CacheIsCalm BY <1>6, <1>0, CalmChanges, QueryTypes DEF Clear
  <2> QED BY <1>6, <2>1 DEF Clear, CalmStep
<1>7. ASSUME NEW m \in Writes, Send(m) \/ Fail(m) PROVE CalmStep
  <2>1. \A n \in Writes : phase'[n] = "ok" => phase[n] = "ok"
    BY <1>7, SMT DEF Send, Fail, Types
  <2> QED BY <1>7, <2>1, CalmSame DEF Send, Fail, CalmStep
<1>8. ASSUME NEW m \in Writes, Store(m) PROVE CalmStep
  BY <1>8, CalmSame DEF Store, CalmStep
<1>9. CASE UNCHANGED vars BY <1>9, CalmSame DEF vars, CalmStep
<1> QED BY <1>1, <1>2, <1>3, <1>4, <1>5, <1>6, <1>7, <1>8, <1>9
-----------------------------------------------------------------------------
(* The invariant *)

\* Fresh data, and the answer that is on its way, show what has been reported,
\* but for what a load that is left alone has overlooked.
Current(q, reported) ==
  /\ q.hasData /\ ~q.stale => reported \subseteq q.data \cup q.missed
  /\ q.fetch.stage = "read" => reported \subseteq q.fetch.saw \cup q.missed

\* Nothing is shown that is not committed.
Shows(q, k) == q.data \cup q.fetch.saw \subseteq {m \in stored : Affects(m, k)}

\* Nobody looks at a query that is empty for good.
Filled(k) == k \in Mounted(page, cache) =>
               cache[k].hasData \/ cache[k].error \/ cache[k].fetch # NoFetch

IInv ==
  /\ Types
  /\ \A k \in Queries : Current(cache[k], Reported(k)) /\ Shows(cache[k], k) /\ Filled(k)

\* A calm change keeps a query current.
LEMMA CurrentIfCalm ==
  ASSUME NEW q, NEW r, NEW R, NEW S, Current(q, R), Calm(q, r), S \subseteq R
  PROVE  Current(r, S)
BY DEF Current, Calm

\* Affects depends on the kinds of the mutations, which never change.
LEMMA ReportedStep ==
  ASSUME kind' = kind, NEW k
  PROVE  /\ \A m \in Writes : Affects(m, k)' = Affects(m, k)
         /\ Reported(k)' = {m \in Writes : phase'[m] = "ok" /\ Affects(m, k)}
<1>1. \A m \in Writes : Affects(m, k)' = Affects(m, k) BY DEF Affects, Changes
<1> QED BY <1>1 DEF Reported

\* The invariant holds at the start, when no query has data.
LEMMA InitInv == ASSUME Init PROVE IInv
<1>1. Types
  <2>1. \A k \in Queries : Missing \in Query BY SMT DEF Missing, NoFetch, Query, Fetch
  <2> QED BY <2>1, CacheAssumption DEF Init, Types
<1>2. ASSUME NEW k \in Queries
      PROVE  Current(cache[k], Reported(k)) /\ Shows(cache[k], k) /\ Filled(k)
  <2>1. cache[k] = Missing BY DEF Init
  <2>2. /\ ~Missing.hasData /\ Missing.data = {} /\ Missing.fetch.stage = "none"
        /\ Missing.fetch.saw = {}
    BY DEF Missing, NoFetch
  <2>3. Mounted(page, cache) = {}
    BY DEF Init, Mounted, Mounts, Tab, Elsewhere
  <2> QED BY <2>1, <2>2, <2>3 DEF Current, Shows, Filled
<1> QED BY <1>1, <1>2 DEF IInv

-----------------------------------------------------------------------------
(* Calm steps *)

\* A calm step keeps the types.
LEMMA CalmTypes ==
  ASSUME Types, CalmStep, [Next]_vars,
         ~(\E k \in Queries : Fetching(k)), ~(\E m \in Writes : Success(m))
  PROVE  Types'
<1>1. kind' = kind /\ cache' \in [Queries -> Query] BY DEF CalmStep
<1>2. /\ page' \in Pages /\ visits' \in 0..MaxVisits /\ faults' \in 0..MaxFaults
      /\ phase' \in [Writes -> {"idle", "pending", "ok", "error"}]
      /\ stored' \subseteq Writes
  <2>1. CASE \E p \in Pages : Open(p) BY <2>1, CacheAssumption, SMT DEF Open, Types
  <2>2. CASE \E k \in Queries : FetchFails(k) BY <2>2, CacheAssumption, SMT DEF FetchFails, Types
  <2>3. CASE \E k \in Queries : Retry(k) \/ Age(k) \/ Collect(k)
    BY <2>3 DEF Retry, Age, Collect, Types
  <2>4. CASE Clear BY <2>4, CacheAssumption, SMT DEF Clear, Types
  <2>5. CASE \E m \in Writes : Send(m) \/ Fail(m) BY <2>5, SMT DEF Send, Fail, Types
  <2>6. CASE \E m \in Writes : Store(m) BY <2>6, SMT DEF Store, Types
  <2>7. CASE UNCHANGED vars BY <2>7 DEF vars, Types
  <2> QED BY <2>1, <2>2, <2>3, <2>4, <2>5, <2>6, <2>7 DEF Next
<1>3. \A m \in Writes : phase'[m] = "ok" => m \in stored' BY DEF CalmStep, Types
<1> QED BY <1>1, <1>2, <1>3 DEF Types

\* A calm step keeps queries current and truthful.
LEMMA CalmKeeps ==
  ASSUME IInv, CalmStep, NEW k \in Queries
  PROVE  Current(cache[k], Reported(k))' /\ Shows(cache[k], k)'
<1>1. kind' = kind /\ Calm(cache[k], cache'[k]) BY DEF CalmStep
<1>2. Reported(k)' \subseteq Reported(k) BY <1>1, ReportedStep DEF CalmStep, Reported
<1>3. Current(cache'[k], Reported(k)') BY <1>1, <1>2, CurrentIfCalm DEF IInv
<1>4. {m \in stored : Affects(m, k)} \subseteq {m \in stored' : Affects(m, k)'}
  BY <1>1, ReportedStep DEF CalmStep, IInv, Types
<1>5. cache'[k].data \cup cache'[k].fetch.saw \subseteq {m \in stored' : Affects(m, k)'}
  BY <1>1, <1>4 DEF Calm, IInv, Shows
<1> QED BY <1>3, <1>5 DEF Current, Shows
-----------------------------------------------------------------------------
(* Answers *)

\* The API reads everything that has been reported, since that is committed.
LEMMA ServeKeeps ==
  ASSUME IInv, NEW k \in Queries, Serve(k)
  PROVE  /\ Types'
         /\ \A j \in Queries : /\ Current(cache[j], Reported(j))' /\ Shows(cache[j], j)'
                               /\ Alike(cache[j], cache'[j])
                               /\ cache[j].fetch # NoFetch => cache'[j].fetch # NoFetch
<1> DEFINE S == {m \in stored : Affects(m, k)}
           f == [cache[k].fetch EXCEPT !.stage = "read", !.saw = S]
           r == [cache[k] EXCEPT !.fetch = f]
<1>0. Types /\ cache[k] \in Query /\ cache[k].fetch \in Fetch BY DEF IInv, Types, Query
<1>1. f \in Fetch /\ f.stage = "read" /\ f.saw = S
  <2>1. S \in SUBSET Writes BY <1>0 DEF Types
  <2> HIDE DEF S
  <2>2. f \in Fetch
    <3>1. \A g \in Fetch : [g EXCEPT !.stage = "read"] \in Fetch BY SMT DEF Fetch
    <3>2. \A g \in Fetch : [g EXCEPT !.saw = S] \in Fetch BY <2>1, SMT DEF Fetch
    <3>3. [[cache[k].fetch EXCEPT !.stage = "read"] EXCEPT !.saw = S] \in Fetch
      BY <1>0, <3>1, <3>2
    <3> QED BY <3>3
  <2>3. f.stage = "read" /\ f.saw = S BY <1>0, SMT DEF Fetch
  <2> QED BY <2>2, <2>3
<1>2. /\ r \in Query /\ r.fetch = f /\ r.data = cache[k].data /\ r.missed = cache[k].missed
      /\ Alike(cache[k], r)
      /\ r.stale = cache[k].stale
  <2> HIDE DEF S, f
  <2>1. r \in Query BY <1>0, <1>1, SMT DEF Query
  <2>2. r.fetch = f /\ r.data = cache[k].data /\ r.missed = cache[k].missed BY <1>0, SMT DEF Query
  <2>3. r.hasData = cache[k].hasData /\ r.error = cache[k].error /\ r.stale = cache[k].stale
    BY <1>0, SMT DEF Query
  <2> QED BY <2>1, <2>2, <2>3 DEF Alike
<1>3. /\ cache' \in [Queries -> Query]
      /\ \A j \in Queries : cache'[j] = IF j = k THEN r ELSE cache[j]
  <2>1. cache' = [cache EXCEPT ![k] = r] BY DEF Serve
  <2> QED BY <1>0, <1>2, <2>1, SMT DEF Types
<1>4. kind' = kind /\ phase' = phase /\ stored' = stored BY DEF Serve
<1>5. Types' BY <1>0, <1>3 DEF Serve, Types
<1>6. \A j \in Queries : Reported(j)' = Reported(j) /\ \A m \in Writes : Affects(m, j)' = Affects(m, j)
  BY <1>4, ReportedStep DEF Reported
<1>7. Reported(k) \subseteq S BY <1>0 DEF Reported, Types
<1>8. Current(r, Reported(k))
  BY <1>1, <1>2, <1>7 DEF Current, Alike, IInv
<1>9. r.data \cup r.fetch.saw \subseteq S BY <1>1, <1>2 DEF IInv, Shows
<1>10. ASSUME NEW j \in Queries
       PROVE  Current(cache'[j], Reported(j)') /\ cache'[j].data \cup cache'[j].fetch.saw
                \subseteq {m \in stored' : Affects(m, j)'}
  <2>1. {m \in stored' : Affects(m, j)'} = {m \in stored : Affects(m, j)}
    BY <1>0, <1>4, <1>6 DEF Types
  <2> QED BY <1>3, <1>6, <1>8, <1>9, <2>1 DEF IInv, Shows
<1>11. f # NoFetch BY <1>1 DEF NoFetch
<1>12. ASSUME NEW j \in Queries
       PROVE  /\ Alike(cache[j], cache'[j])
              /\ cache[j].fetch # NoFetch => cache'[j].fetch # NoFetch
  BY <1>2, <1>3, <1>11 DEF Alike
<1> QED BY <1>5, <1>10, <1>12 DEF Current, Shows

\* The answer is as current as the fetch was.
LEMMA ReceiveKeeps ==
  ASSUME IInv, NEW k \in Queries, Receive(k)
  PROVE  /\ Types'
         /\ \A j \in Queries : Current(cache[j], Reported(j))' /\ Shows(cache[j], j)' /\ Filled(j)'
<1> DEFINE saw == cache[k].fetch.saw
           r == [Missing EXCEPT !.hasData = TRUE, !.data = saw, !.missed = cache[k].missed \ saw]
           c == [cache EXCEPT ![k] = r]
<1>0. Types /\ cache[k] \in Query /\ cache[k].fetch.stage = "read" BY DEF IInv, Types, Receive
<1>1. /\ r \in Query /\ r.data = saw /\ r.missed = cache[k].missed \ saw /\ r.fetch = NoFetch
      /\ r.hasData
  <2>1. saw \in SUBSET Writes /\ cache[k].missed \ saw \in SUBSET Writes
    BY <1>0, SMT DEF Query, Fetch
  <2>2. Missing \in Query BY <1>0, QueryTypes
  <2>3. r \in Query
    <3>1. \A q \in Query : \A v \in BOOLEAN : [q EXCEPT !.hasData = v] \in Query
      BY SMT DEF Query
    <3>2. \A q \in Query : \A d \in SUBSET Writes : [q EXCEPT !.data = d] \in Query
      BY SMT DEF Query
    <3>3. \A q \in Query : \A d \in SUBSET Writes : [q EXCEPT !.missed = d] \in Query
      BY SMT DEF Query
    <3>4. [[[Missing EXCEPT !.hasData = TRUE] EXCEPT !.data = saw]
             EXCEPT !.missed = cache[k].missed \ saw] \in Query
      BY <2>1, <2>2, <3>1, <3>2, <3>3
    <3> QED BY <3>4
  <2>4. Missing.fetch = NoFetch BY DEF Missing
  <2>5. r.data = saw /\ r.missed = cache[k].missed \ saw /\ r.fetch = Missing.fetch
    BY <2>2, SMT DEF Query
  <2>6. r.hasData BY <2>2, SMT DEF Query
  <2> QED BY <2>3, <2>4, <2>5, <2>6
<1>2. c \in [Queries -> Query] /\ \A j \in Queries : c[j] = IF j = k THEN r ELSE cache[j]
  BY <1>0, <1>1, SMT DEF Types
<1>3. cache' = Mounting(page, c, Mounted(page, cache)) BY DEF Receive
<1> HIDE DEF c
<1>4. page \in Pages /\ page' = page BY <1>0 DEF Receive, Types
<1>5. /\ cache' \in [Queries -> Query]
      /\ \A j \in Queries :
           /\ Alike(c[j], cache'[j])
           /\ cache'[j] = c[j] \/ cache'[j] = [c[j] EXCEPT !.fetch = Asked]
           /\ j \in Mounted(page, c) \ Mounted(page, cache)
                => cache'[j].hasData \/ cache'[j].fetch # NoFetch
  BY <1>2, <1>3, <1>4, MountingEffect
<1>6. kind' = kind /\ phase' = phase /\ stored' = stored BY DEF Receive
<1>7. Types' BY <1>0, <1>5 DEF Receive, Types
<1>8. \A j \in Queries : Calm(c[j], cache'[j]) BY <1>2, <1>5, CalmChanges
<1>9. \A j \in Queries : Reported(j)' = Reported(j) /\ \A m \in Writes : Affects(m, j)' = Affects(m, j)
  BY <1>6, ReportedStep DEF Reported
<1>10. \A j \in Queries : Current(c[j], Reported(j))
  <2>1. NoFetch.stage # "read" BY DEF NoFetch
  <2>2. Reported(k) \subseteq saw \cup cache[k].missed BY <1>0 DEF IInv, Current
  <2>3. Current(r, Reported(k)) BY <1>1, <2>1, <2>2 DEF Current
  <2> QED BY <1>2, <2>3 DEF IInv
<1>11. \A j \in Queries : c[j].data \cup c[j].fetch.saw \subseteq {m \in stored : Affects(m, j)}
  <2>1. NoFetch.saw = {} BY DEF NoFetch
  <2>2. r.data \cup r.fetch.saw = saw BY <1>1, <2>1
  <2> QED BY <1>2, <2>2 DEF IInv, Shows
<1>12. ASSUME NEW j \in Queries PROVE Current(cache[j], Reported(j))' /\ Shows(cache[j], j)'
  <2>1. Current(cache'[j], Reported(j)') BY <1>8, <1>9, <1>10, CurrentIfCalm
  <2>2. {m \in stored' : Affects(m, j)'} = {m \in stored : Affects(m, j)}
    BY <1>0, <1>6, <1>9 DEF Types
  <2>3. cache'[j].data \cup cache'[j].fetch.saw \subseteq {m \in stored' : Affects(m, j)'}
    BY <1>8, <1>11, <2>2 DEF Calm
  <2> QED BY <2>1, <2>3 DEF Current, Shows
<1>13. ASSUME NEW j \in Queries, j \in Mounted(page, cache)'
       PROVE  cache'[j].hasData \/ cache'[j].error \/ cache'[j].fetch # NoFetch
  <2>1. j \in Mounted(page, c) BY <1>4, <1>5, <1>13, MountedAlike
  <2>2. CASE j \notin Mounted(page, cache) BY <1>5, <2>1, <2>2
  <2>3. CASE j = k BY <1>1, <1>2, <1>5, <2>3 DEF Alike
  <2>4. CASE j \in Mounted(page, cache) /\ j # k
    <3>1. c[j] = cache[j] BY <1>2, <2>4
    <3>2. cache[j].hasData \/ cache[j].error \/ cache[j].fetch # NoFetch
      BY <2>4 DEF IInv, Filled
    <3>3. [cache[j] EXCEPT !.fetch = Asked].fetch # NoFetch
      <4>1. cache[j] \in Query BY <1>0 DEF Types
      <4>2. [cache[j] EXCEPT !.fetch = Asked].fetch = Asked BY <4>1, SMT DEF Query
      <4> QED BY <4>2 DEF Asked, NoFetch
    <3> QED BY <1>5, <3>1, <3>2, <3>3 DEF Alike
  <2> QED BY <2>2, <2>3, <2>4
<1> QED BY <1>7, <1>12, <1>13 DEF Filled
-----------------------------------------------------------------------------
(* Reported successes *)

\* A success makes every query stale that shows rows it has changed.
LEMMA SuccessKeeps ==
  ASSUME IInv, NEW m \in Writes, Success(m)
  PROVE  /\ Types'
         /\ \A k \in Queries : /\ Current(cache[k], Reported(k))' /\ Shows(cache[k], k)'
                               /\ Alike(cache[k], cache'[k])
                               /\ cache[k].fetch # NoFetch => cache'[k].fetch # NoFetch
<1>0. /\ Types /\ kind' = kind /\ stored' = stored /\ m \in stored
      /\ phase' = [phase EXCEPT ![m] = "ok"]
  BY DEF IInv, Success
<1>1. \A n \in Writes : phase'[n] = "ok" => n = m \/ phase[n] = "ok"
  BY <1>0, SMT DEF Types
<1>2. ASSUME NEW k \in Queries
      PROVE  Reported(k)' \subseteq IF Affects(m, k) THEN Reported(k) \cup {m} ELSE Reported(k)
  <2>1. Reported(k)' = {n \in Writes : phase'[n] = "ok" /\ Affects(n, k)}
    BY <1>0, ReportedStep
  <2> QED BY <1>1, <2>1 DEF Reported
<1>3. ASSUME NEW q \in Query, NEW mounted
      PROVE  LET r == Invalidated(q, m, mounted)
             IN  /\ r \in Query /\ r.stale /\ Alike(q, r) /\ r.data = q.data
                 /\ r.fetch = q.fetch \/ r.fetch = Asked
                 /\ r.fetch.stage = "read" => r.fetch = q.fetch /\ q.missed \subseteq r.missed
                                              /\ m \in r.fetch.saw \cup r.missed
  <2> DEFINE n == IF mounted THEN Restarted(q) ELSE q
             missed == IF /\ LeftAlone(q, mounted)
                          /\ q.fetch.stage = "read" /\ m \notin q.fetch.saw
                       THEN n.missed \cup {m} ELSE n.missed
             r == [n EXCEPT !.stale = TRUE, !.missed = missed]
  <2>1. r = Invalidated(q, m, mounted) BY DEF Invalidated
  <2>2. n = q \/ n = [q EXCEPT !.fetch = Asked] BY DEF Restarted
  <2>a. [q EXCEPT !.fetch = Asked].fetch.stage # "read" BY SMT DEF Query, Asked
  <2>b. ~LeftAlone(q, mounted) => n = [q EXCEPT !.fetch = Asked] BY DEF LeftAlone, Restarted
  <2>c. n.fetch.stage = "read" => n = q /\ LeftAlone(q, mounted) BY <2>2, <2>a, <2>b
  <2>3. n \in Query BY <2>2, QueryTypes
  <2>4. /\ Alike(q, n) /\ n.data = q.data /\ n.missed = q.missed
        /\ n.fetch = q.fetch \/ n.fetch = Asked
    <3>1. CASE n = q BY <3>1 DEF Alike
    <3>2. CASE n = [q EXCEPT !.fetch = Asked]
      <4> DEFINE s == [q EXCEPT !.fetch = Asked]
      <4>1. s.data = q.data /\ s.missed = q.missed /\ s.fetch = Asked BY SMT DEF Query
      <4>2. s.hasData = q.hasData /\ s.error = q.error BY SMT DEF Query
      <4> QED BY <3>2, <4>1, <4>2 DEF Alike
    <3> QED BY <2>2, <3>1, <3>2
  <2> HIDE DEF n
  <2>5. missed \in SUBSET Writes BY <2>3, SMT DEF Query
  <2>6. n.missed \subseteq missed OBVIOUS
  <2>7. n.fetch.stage = "read" => m \in n.fetch.saw \cup missed BY <2>c
  <2> HIDE DEF missed
  <2>8. r \in Query
    <3>1. \A p \in Query : [p EXCEPT !.stale = TRUE] \in Query BY QueryTypes
    <3>2. \A p \in Query : [p EXCEPT !.missed = missed] \in Query BY <2>5, SMT DEF Query
    <3>3. [[n EXCEPT !.stale = TRUE] EXCEPT !.missed = missed] \in Query BY <2>3, <3>1, <3>2
    <3> QED BY <3>3
  <2>9. r.data = n.data /\ r.missed = missed /\ r.fetch = n.fetch BY <2>3, SMT DEF Query
  <2>10. r.stale /\ r.hasData = n.hasData /\ r.error = n.error BY <2>3, SMT DEF Query
  <2>11. Asked.stage # "read" BY DEF Asked
  <2> HIDE DEF r
  <2>12. r.fetch.stage = "read" => r.fetch = q.fetch /\ q.missed \subseteq r.missed
                                   /\ m \in r.fetch.saw \cup r.missed
    BY <2>4, <2>6, <2>7, <2>9, <2>11
  <2> QED BY <2>1, <2>4, <2>8, <2>9, <2>10, <2>12 DEF Alike
<1>4. ASSUME NEW k \in Queries
      PROVE  \/ /\ cache'[k] = cache[k]
                /\ Affects(m, k) => cache[k] = Missing
             \/ \E mounted : cache'[k] = Invalidated(cache[k], m, mounted)
  <2>1. cache' = Invalidation(m) BY DEF Success
  <2>2. kind[m] \in [op: {"create", "topup", "status", "transfer"}, src: Accounts, dst: Accounts]
    BY <1>0 DEF Types
  <2>3. Affects(m, k) => \E f \in Filters(m) : IsPrefix(f, k) BY <2>2, FiltersMatch
  <2>4. CASE cache[k] # Missing /\ \E f \in Filters(m) : IsPrefix(f, k)
    <3>1. cache'[k] = Invalidated(cache[k], m, k \in Mounted(page, cache))
      BY <2>1, <2>4 DEF Invalidation
    <3> QED BY <3>1
  <2>5. CASE ~(cache[k] # Missing /\ \E f \in Filters(m) : IsPrefix(f, k))
    <3>1. cache'[k] = cache[k] BY <2>1, <2>5 DEF Invalidation
    <3> QED BY <2>3, <2>5, <3>1
  <2> QED BY <2>4, <2>5
<1>5. ASSUME NEW k \in Queries
      PROVE  /\ cache'[k] \in Query /\ Alike(cache[k], cache'[k])
             /\ Current(cache'[k], Reported(k)')
             /\ cache'[k].data \cup cache'[k].fetch.saw \subseteq cache[k].data \cup cache[k].fetch.saw
             /\ cache[k].fetch # NoFetch => cache'[k].fetch # NoFetch
  <2>0. cache[k] \in Query /\ Current(cache[k], Reported(k)) BY <1>0 DEF Types, IInv
  <2>1. ASSUME cache'[k] = cache[k], ~Affects(m, k)
        PROVE  Current(cache'[k], Reported(k)')
    BY <1>2, <2>0, <2>1 DEF Current
  <2>2. ASSUME cache'[k] = cache[k], cache[k] = Missing
        PROVE  Current(cache'[k], Reported(k)')
    BY <2>2 DEF Current, Missing, NoFetch
  <2>3. ASSUME NEW mounted, cache'[k] = Invalidated(cache[k], m, mounted)
        PROVE  /\ cache'[k] \in Query /\ Alike(cache[k], cache'[k])
               /\ Current(cache'[k], Reported(k)')
               /\ cache'[k].data \cup cache'[k].fetch.saw \subseteq cache[k].data \cup cache[k].fetch.saw
               /\ cache[k].fetch # NoFetch => cache'[k].fetch # NoFetch
    <3> DEFINE r == cache'[k]
    <3>1. /\ r \in Query /\ r.stale /\ Alike(cache[k], r) /\ r.data = cache[k].data
          /\ r.fetch = cache[k].fetch \/ r.fetch = Asked
          /\ r.fetch.stage = "read" => r.fetch = cache[k].fetch /\ cache[k].missed \subseteq r.missed
                                       /\ m \in r.fetch.saw \cup r.missed
      BY <1>3, <2>0, <2>3
    <3> HIDE DEF r
    <3>2. Reported(k)' \subseteq Reported(k) \cup {m} BY <1>2
    <3>3. Current(r, Reported(k)') BY <2>0, <3>1, <3>2 DEF Current
    <3>4. Asked.saw = {} /\ Asked # NoFetch BY DEF Asked, NoFetch
    <3>5. r.data \cup r.fetch.saw \subseteq cache[k].data \cup cache[k].fetch.saw BY <3>1, <3>4
    <3> USE DEF r
    <3> QED BY <3>1, <3>3, <3>4, <3>5
  <2> QED BY <1>4, <2>0, <2>1, <2>2, <2>3 DEF Alike
<1>6. Types'
  <2>1. cache' \in [Queries -> Query]
    <3>1. cache' = [k \in Queries |-> cache'[k]] BY DEF Success, Invalidation
    <3> QED BY <1>5, <3>1
  <2>2. phase' \in [Writes -> {"idle", "pending", "ok", "error"}] BY <1>0, SMT DEF Types
  <2>3. page' \in Pages BY <1>0, CacheAssumption DEF Success, Types
  <2> QED BY <1>0, <1>1, <2>1, <2>2, <2>3 DEF Success, Types
<1>7. ASSUME NEW k \in Queries PROVE Shows(cache[k], k)'
  <2>1. {n \in stored' : Affects(n, k)'} = {n \in stored : Affects(n, k)}
    BY <1>0, ReportedStep DEF Types
  <2>2. cache'[k].data \cup cache'[k].fetch.saw \subseteq {n \in stored' : Affects(n, k)'}
    BY <1>5, <2>1 DEF IInv, Shows
  <2> QED BY <2>2 DEF Shows
<1>8. \A k \in Queries : Current(cache[k], Reported(k))' BY <1>5 DEF Current
<1> QED BY <1>5, <1>6, <1>7, <1>8
-----------------------------------------------------------------------------
(* What is mounted *)

\* Elsewhere mounts nothing.
LEMMA ElsewhereIsEmpty == \A c : Mounted(Elsewhere, c) = {}
BY DEF Mounted, Mounts, Tab, Elsewhere

\* Fetches that start or go on leave nothing empty.
LEMMA FilledIfAlike ==
  ASSUME IInv, page' = page \/ page' = Elsewhere,
         \A k \in Queries : /\ Alike(cache[k], cache'[k])
                            /\ cache[k].fetch # NoFetch => cache'[k].fetch # NoFetch
  PROVE  \A k \in Queries : Filled(k)'
<1>1. page \in Pages BY DEF IInv, Types
<1>2. Mounted(page, cache') = Mounted(page, cache) BY <1>1, MountedAlike
<1>3. CASE page' = page BY <1>2, <1>3 DEF Filled, IInv, Alike
<1>4. CASE page' = Elsewhere BY <1>4, ElsewhereIsEmpty DEF Filled
<1> QED BY <1>3, <1>4

\* Opening a page fetches what it mounts and has no data of.
LEMMA OpenFills == ASSUME IInv, NEW p \in Pages, Open(p) PROVE \A k \in Queries : Filled(k)'
<1> DEFINE before == IF SameAccount(p) THEN Mounts(p) ELSE {}
<1>0. cache \in [Queries -> Query] BY DEF IInv, Types
<1>1. cache' = Mounting(p, cache, before) /\ page' = p BY DEF Open
<1>2. \A k \in Queries :
        /\ Alike(cache[k], cache'[k])
        /\ cache'[k] = cache[k] \/ cache'[k] = [cache[k] EXCEPT !.fetch = Asked]
        /\ k \in Mounted(p, cache) \ before => cache'[k].hasData \/ cache'[k].fetch # NoFetch
  BY <1>0, <1>1, MountingEffect
<1>3. Mounted(p, cache') = Mounted(p, cache) BY <1>2, MountedAlike
<1>4. before \subseteq Mounted(page, cache)
  BY DEF SameAccount, Mounts, Mounted
<1>5. ASSUME NEW k \in Queries, k \in Mounted(p, cache')
      PROVE  cache'[k].hasData \/ cache'[k].error \/ cache'[k].fetch # NoFetch
  <2>1. CASE k \notin before BY <1>2, <1>3, <1>5, <2>1
  <2>2. CASE k \in before
    <3>1. cache[k].hasData \/ cache[k].error \/ cache[k].fetch # NoFetch
      BY <1>4, <2>2 DEF IInv, Filled
    <3>2. [cache[k] EXCEPT !.fetch = Asked].fetch # NoFetch
      <4>1. cache[k] \in Query BY <1>0
      <4>2. [cache[k] EXCEPT !.fetch = Asked].fetch = Asked BY <4>1, SMT DEF Query
      <4> QED BY <4>2 DEF Asked, NoFetch
    <3> QED BY <1>2, <3>1, <3>2 DEF Alike
  <2> QED BY <2>1, <2>2
<1> QED BY <1>1, <1>5 DEF Filled

\* A query that is mounted no longer, or has failed, mounts nothing new.
LEMMA FilledIfLess ==
  ASSUME IInv, NEW k \in Queries, page' = page,
         \A j \in Queries \ {k} : cache'[j] = cache[j],
         \/ cache'[k].error
         \/ k \notin Mounted(page, cache)
  PROVE  \A j \in Queries : Filled(j)'
<1>0. page \in Pages BY DEF IInv, Types
<1>1. Mounts(page) \subseteq Queries BY <1>0 DEF Queries
<1>2. Mounted(page, cache') \subseteq Mounted(page, cache)
  <2>1. CASE cache'[k].error BY <1>1, <2>1 DEF Mounted
  <2>2. CASE k \notin Mounted(page, cache)
    <3>1. k \notin Mounts(page) BY <2>2 DEF Mounted
    <3> QED BY <1>1, <3>1 DEF Mounted
  <2> QED BY <2>1, <2>2
<1>3. ASSUME NEW j \in Queries, j \in Mounted(page, cache')
      PROVE  cache'[j].hasData \/ cache'[j].error \/ cache'[j].fetch # NoFetch
  <2>1. j \in Mounted(page, cache) BY <1>2, <1>3
  <2>2. CASE j # k BY <2>1, <2>2 DEF IInv, Filled
  <2>3. CASE j = k BY <2>1, <2>3
  <2> QED BY <2>2, <2>3
<1> QED BY <1>3 DEF Filled

\* No step leaves a mounted query empty.
LEMMA FilledStep ==
  ASSUME IInv, NEW k \in Queries, FetchFails(k) \/ Retry(k) \/ Age(k) \/ Collect(k)
  PROVE  \A j \in Queries : Filled(j)'
<1> DEFINE Kept == \A j \in Queries : /\ Alike(cache[j], cache'[j])
                                      /\ cache[j].fetch # NoFetch => cache'[j].fetch # NoFetch
<1>0. /\ cache \in [Queries -> Query] /\ cache[k] \in Query BY DEF IInv, Types
<1>1. page' = page BY DEF FetchFails, Retry, Age, Collect
<1>2. ASSUME NEW r, cache' = [cache EXCEPT ![k] = r]
      PROVE  cache'[k] = r /\ \A j \in Queries \ {k} : cache'[j] = cache[j]
  BY <1>0, <1>2
<1>3. ASSUME NEW r, cache' = [cache EXCEPT ![k] = r], Alike(cache[k], r),
             cache[k].fetch # NoFetch => r.fetch # NoFetch
      PROVE  \A j \in Queries : Filled(j)'
  <2>1. Kept BY <1>2, <1>3 DEF Alike
  <2> QED BY <1>1, <2>1, FilledIfAlike
<1>4. ASSUME NEW f, f # NoFetch
      PROVE  LET r == [cache[k] EXCEPT !.fetch = f] IN Alike(cache[k], r) /\ r.fetch # NoFetch
  <2> DEFINE r == [cache[k] EXCEPT !.fetch = f]
  <2>1. r.fetch = f /\ r.hasData = cache[k].hasData /\ r.error = cache[k].error
    BY <1>0, SMT DEF Query
  <2> QED BY <1>4, <2>1 DEF Alike
<1>5. CASE FetchFails(k)
  <2> DEFINE f == [Asked EXCEPT !.again = TRUE]
             r == [cache[k] EXCEPT !.fetch = NoFetch, !.error = TRUE, !.stale = TRUE]
  <2>1. ASSUME cache' = [cache EXCEPT ![k].fetch = f] PROVE \A j \in Queries : Filled(j)'
    <3>1. cache' = [cache EXCEPT ![k] = [cache[k] EXCEPT !.fetch = f]] BY <2>1
    <3>2. f.stage = "asked" BY SMT DEF Asked
    <3>3. f # NoFetch BY <3>2 DEF NoFetch
    <3> HIDE DEF f
    <3> QED BY <1>3, <1>4, <3>1, <3>3
  <2>2. ASSUME cache' = [cache EXCEPT ![k] = r] PROVE \A j \in Queries : Filled(j)'
    <3>1. r.error BY <1>0, SMT DEF Query
    <3> HIDE DEF r
    <3> QED BY <1>1, <1>2, <2>2, <3>1, FilledIfLess
  <2> QED BY <1>5, <2>1, <2>2 DEF FetchFails
<1>6. CASE Retry(k)
  <2>1. cache' = [cache EXCEPT ![k] = Restarted(cache[k])] BY <1>6 DEF Retry
  <2>2. Asked # NoFetch BY DEF Asked, NoFetch
  <2>3. Alike(cache[k], Restarted(cache[k])) /\
        (cache[k].fetch # NoFetch => Restarted(cache[k]).fetch # NoFetch)
    BY <1>4, <2>2 DEF Restarted, Alike
  <2> QED BY <1>3, <2>1, <2>3
<1>7. CASE Age(k)
  <2> DEFINE r == [cache[k] EXCEPT !.stale = TRUE]
  <2>1. cache' = [cache EXCEPT ![k] = r] BY <1>0, <1>7, SMT DEF Age, Query
  <2>2. r.fetch = cache[k].fetch /\ r.hasData = cache[k].hasData /\ r.error = cache[k].error
    BY <1>0, SMT DEF Query
  <2> HIDE DEF r
  <2> QED BY <1>3, <2>1, <2>2 DEF Alike
<1>8. CASE Collect(k)
  <2>1. k \notin Mounted(page, cache) /\ cache' = [cache EXCEPT ![k] = Missing]
    BY <1>8 DEF Collect
  <2> QED BY <1>1, <1>2, <2>1, FilledIfLess
<1> QED BY <1>5, <1>6, <1>7, <1>8

-----------------------------------------------------------------------------
(* Theorems *)

\* The invariant is inductive.
LEMMA StepInv == ASSUME IInv, [Next]_vars PROVE IInv'
<1>1. ASSUME NEW k \in Queries, Serve(k) PROVE IInv'
  <2>1. page' = page BY <1>1 DEF Serve
  <2> QED BY <1>1, <2>1, ServeKeeps, FilledIfAlike DEF IInv
<1>2. ASSUME NEW k \in Queries, Receive(k) PROVE IInv' BY <1>2, ReceiveKeeps DEF IInv
<1>3. ASSUME NEW m \in Writes, Success(m) PROVE IInv'
  <2>1. page' = page \/ page' = Elsewhere BY <1>3 DEF Success
  <2> QED BY <1>3, <2>1, SuccessKeeps, FilledIfAlike DEF IInv
<1>4. CASE /\ ~(\E k \in Queries : Fetching(k)) /\ ~(\E m \in Writes : Success(m))
  <2>0. Types BY DEF IInv
  <2>1. \/ \E p \in Pages : Open(p)
        \/ \E k \in Queries : FetchFails(k) \/ Retry(k) \/ Age(k) \/ Collect(k)
        \/ Clear \/ (\E m \in Writes : Send(m) \/ Store(m) \/ Fail(m)) \/ UNCHANGED vars
    BY <1>4 DEF Next
  <2>2. CalmStep BY <2>0, <2>1, CalmActions
  <2>3. Types' BY <1>4, <2>0, <2>2, CalmTypes
  <2>4. \A k \in Queries : Filled(k)'
    <3>1. CASE \E p \in Pages : Open(p) BY <3>1, OpenFills
    <3>2. CASE \E k \in Queries : FetchFails(k) \/ Retry(k) \/ Age(k) \/ Collect(k)
      BY <3>2, FilledStep
    <3>3. CASE Clear BY <3>3, ElsewhereIsEmpty DEF Clear, Filled
    <3>4. CASE (\E m \in Writes : Send(m) \/ Store(m) \/ Fail(m)) \/ UNCHANGED vars
      <4>1. cache' = cache /\ page' = page BY <3>4 DEF Send, Store, Fail, vars
      <4> QED BY <4>1 DEF IInv, Filled
    <3> QED BY <2>1, <3>1, <3>2, <3>3, <3>4
  <2>5. \A k \in Queries : Current(cache[k], Reported(k))' /\ Shows(cache[k], k)'
    BY <2>2, CalmKeeps
  <2> QED BY <2>3, <2>4, <2>5 DEF IInv
<1> QED BY <1>1, <1>2, <1>3, <1>4 DEF Fetching

\* The invariant, always.
LEMMA SpecInv == Spec => []IInv
<1>1. Init => IInv BY InitInv
<1>2. IInv /\ [Next]_vars => IInv' BY StepInv
<1> QED BY <1>1, <1>2, PTL DEF Spec

\* Queries, mutations and pages keep their types; a query shows only what is
\* committed, and whatever a page has mounted has data, an error or a fetch.
THEOREM TypeCorrect == Spec => []TypeOK
<1>1. ASSUME IInv PROVE TypeOK
  <2>0. Types BY <1>1 DEF IInv
  <2>1. ASSUME NEW k \in Queries
        PROVE  LET q == cache[k]
               IN  /\ q.data \cup q.fetch.saw \subseteq {m \in stored : Affects(m, k)}
                   /\ q.fetch.stage \in {"none", "asked", "read"}
                   /\ {q.hasData, q.stale, q.error} \subseteq BOOLEAN
                   /\ k \in Mounted(page, cache) => q.hasData \/ q.error \/ q.fetch # NoFetch
    <3>1. cache[k] \in Query BY <2>0 DEF Types
    <3>2. cache[k].fetch \in Fetch BY <3>1, SMT DEF Query
    <3>3. cache[k].fetch.stage \in {"none", "asked", "read"} BY <3>2, SMT DEF Fetch
    <3>4. {cache[k].hasData, cache[k].stale, cache[k].error} \subseteq BOOLEAN
      BY <3>1, SMT DEF Query
    <3> QED BY <1>1, <3>3, <3>4 DEF IInv, Shows, Filled
  <2> QED BY <2>0, <2>1 DEF TypeOK, Types
<1> QED BY <1>1, SpecInv, PTL

\* Data that counts as fresh shows every write whose success was reported, but
\* for those reported between the read and the answer of a first load, or of a load
\* whose page was left.
THEOREM FreshAlwaysCurrent == Spec => []FreshDataIsCurrent
<1>1. ASSUME IInv PROVE FreshDataIsCurrent BY <1>1 DEF IInv, Current, FreshDataIsCurrent
<1> QED BY <1>1, SpecInv, PTL
=============================================================================
