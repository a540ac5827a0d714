--------------------------- MODULE ClientSession ----------------------------
(***************************************************************************)
(* The session of one browser tab: the access token and the user in the    *)
(* browser's storage, the session query (useSessionQuery) and its cached   *)
(* result, login, logout and the redirects of the pages.                   *)
(*                                                                         *)
(* An action is what runs between two awaits.  QueryClient.clear, which    *)
(* logout calls, forgets the query; a request the query function has sent  *)
(* goes on, and what it does with the answer still happens, but for the    *)
(* cached result.                                                          *)
(***************************************************************************)
EXTENDS Integers, FiniteSets

CONSTANTS
  Tokens,       \* access tokens the API may issue
  Owner,        \* the user of each token
  Legacy,       \* the token an older version left in localStorage, or None
  MaxRequests,  \* bound on the requests to /me at a time
  None          \* nothing

Users == {Owner[t] : t \in Tokens}

ASSUME SessionAssumption ==
  /\ Owner = [t \in Tokens |-> Owner[t]]
  /\ Legacy \in Tokens \cup {None}
  /\ None \notin Tokens \cup Users
  /\ MaxRequests \in Nat \ {0}

VARIABLES
  token, user,              \* sessionStorage
  legacyToken, legacyUser,  \* localStorage, keys of the older version
  cached,    \* data of the session query: NoData, NoSession or a session
  requests,  \* open requests to /v1/auth/me
  mutation,  \* the mutation that is pending: "none", "login", "logout"
  page,      \* "login" or "private"
  issued,    \* tokens logins have returned
  current,   \* the token of the last login; None after a logout
  raced,     \* a request to /me was open when the last login or logout ended
  views,     \* users whose accounts and transfers are in the query cache
  unclean    \* since the cache was last cleared, a session has ended otherwise
             \* than by a logout

storage == <<token, user, legacyToken, legacyUser>>
vars == <<storage, cached, requests, mutation, page, issued, current, raced, views, unclean>>

Session(t, u) == [token |-> t, user |-> u]
NoData    == [token |-> None, user |-> "no data"]
NoSession == [token |-> None, user |-> "no session"]

\* sessionQuery.data is there.
HasSession == cached \notin {NoData, NoSession}

-----------------------------------------------------------------------------
(* auth.storage.ts and the token functions of client.ts *)

\* getStoredAccessToken and the users readStoredSession finds.
StoredToken == IF token # None THEN token ELSE legacyToken
StoredUser  == IF user # None THEN user ELSE legacyUser

\* A token that is only in localStorage moves to sessionStorage when read.
MigrateToken ==
  /\ token' = StoredToken
  /\ legacyToken' = IF token # None THEN legacyToken ELSE None

MigrateUser ==
  /\ user' = StoredUser
  /\ legacyUser' = IF user # None THEN legacyUser ELSE None

\* Mutation of WriteStoredSession: the user snapshot is not written.
WriteStoredToken(t, u) ==
  token' = t /\ legacyToken' = None /\ UNCHANGED <<user, legacyUser>>

\* Mutation of WriteStoredSession: under the key of the older version.
WriteLegacySession(t, u) ==
  legacyToken' = t /\ legacyUser' = u /\ UNCHANGED <<token, user>>

WriteStoredSession(t, u) ==
  /\ token' = t /\ legacyToken' = None
  /\ user' = u /\ legacyUser' = None

ClearStoredSession ==
  token' = None /\ user' = None /\ legacyToken' = None /\ legacyUser' = None

Init ==
  /\ token = None /\ user = None
  /\ legacyToken = Legacy
  /\ legacyUser = IF Legacy = None THEN None ELSE Owner[Legacy]
  /\ cached = NoData
  /\ requests = {}
  /\ mutation = "none"
  /\ page \in {"login", "private"}
  /\ issued = {Legacy} \ {None}
  /\ current = Legacy
  /\ raced = FALSE
  /\ views = {} /\ unclean = FALSE

-----------------------------------------------------------------------------
(* useSessionQuery *)

\* A page is mounted while the result is missing or older than a minute, and
\* no fetch of this query is under way.
StartQuery ==
  /\ ~\E q \in requests : q.live
  /\ MigrateToken /\ UNCHANGED <<user, legacyUser>>
  /\ IF StoredToken = None
     THEN cached' = NoSession /\ UNCHANGED requests
     ELSE /\ Cardinality(requests) < MaxRequests
          /\ requests' = requests \cup {[token |-> StoredToken, live |-> TRUE]}
          /\ UNCHANGED cached
  /\ UNCHANGED <<mutation, page, issued, current, raced, views, unclean>>

\* The result of a query that was forgotten is dropped.
Cache(q, session) == cached' = IF q.live THEN session ELSE cached

\* 200: the session is written, with the token the query has started with.
MeAnswers(q) ==
  /\ WriteStoredSession(q.token, Owner[q.token])
  /\ Cache(q, Session(q.token, Owner[q.token]))

\* Mutation of MeRefuses: the cached session is kept.
MeRefusesKeepsCache(q) == ClearStoredSession /\ UNCHANGED cached

\* 401: the token has expired, or the user is locked.
MeRefuses(q) == ClearStoredSession /\ Cache(q, NoSession)

\* No answer or another error: what is stored has to do; without it the query
\* fails and keeps the data it had.
MeFails(q) ==
  /\ MigrateToken /\ MigrateUser
  /\ IF StoredToken # None /\ StoredUser # None
     THEN Cache(q, Session(StoredToken, StoredUser))
     ELSE Cache(q, IF cached = NoData THEN NoSession ELSE cached)

EndQuery(q) ==
  /\ \/ (MeAnswers(q) \/ MeFails(q)) /\ UNCHANGED unclean
     \/ MeRefuses(q) /\ unclean' = TRUE
  /\ requests' = requests \ {q}
  /\ UNCHANGED <<mutation, page, issued, current, raced, views>>

-----------------------------------------------------------------------------
(* useLoginMutation, useLogoutMutation *)

Begin(m) ==
  /\ mutation = "none"
  /\ mutation' = m
  /\ UNCHANGED <<storage, cached, requests, page, issued, current, raced, views, unclean>>

SubmitLogin == page = "login" /\ Begin("login")
PressLogout == page = "private" /\ HasSession /\ Begin("logout")

LoggedIn(t) ==
  /\ mutation = "login"
  /\ t \notin issued
  /\ WriteStoredSession(t, Owner[t])
  /\ cached' = Session(t, Owner[t])
  /\ issued' = issued \cup {t}
  /\ current' = t
  /\ page' = "private"
  /\ mutation' = "none"
  /\ raced' = (requests # {})
  /\ unclean' = (unclean \/ HasSession)
  /\ UNCHANGED <<requests, views>>

LoginFails ==
  /\ mutation = "login"
  /\ mutation' = "none"
  /\ UNCHANGED <<storage, cached, requests, page, issued, current, raced, views, unclean>>

\* Mutation of LoggedOut: without an answer the storage is not cleared.
LoggedOutIfAnswered ==
  /\ mutation = "logout"
  /\ ClearStoredSession \/ UNCHANGED storage
  /\ cached' = NoData
  /\ requests' = {[q EXCEPT !.live = FALSE] : q \in requests}
  /\ current' = None
  /\ raced' = (requests # {})
  /\ views' = {} /\ unclean' = FALSE
  /\ page' = "login"
  /\ mutation' = "none"
  /\ UNCHANGED issued

\* Mutation of LoggedOut: only the session query is forgotten.
LoggedOutKeepsViews ==
  /\ mutation = "logout"
  /\ ClearStoredSession
  /\ cached' = NoData
  /\ requests' = {[q EXCEPT !.live = FALSE] : q \in requests}
  /\ current' = None
  /\ raced' = (requests # {})
  /\ unclean' = FALSE /\ UNCHANGED views
  /\ page' = "login"
  /\ mutation' = "none"
  /\ UNCHANGED issued

\* Whatever the API says to it, the storage and the cache are cleared.
LoggedOut ==
  /\ mutation = "logout"
  /\ ClearStoredSession
  /\ cached' = NoData
  /\ requests' = {[q EXCEPT !.live = FALSE] : q \in requests}
  /\ current' = None
  /\ raced' = (requests # {})
  /\ views' = {} /\ unclean' = FALSE
  /\ page' = "login"
  /\ mutation' = "none"
  /\ UNCHANGED issued

-----------------------------------------------------------------------------
(* The pages *)

\* A private page fetches accounts or transfers, with the token that is stored;
\* the API answers with those of its owner.
Browse ==
  /\ page = "private" /\ HasSession /\ StoredToken # None
  /\ MigrateToken
  /\ views' = views \cup {Owner[StoredToken]}
  /\ UNCHANGED <<user, legacyUser, cached, requests, mutation, page, issued, current,
                 raced, unclean>>

\* A private page without a session goes to /login, /login with a session to
\* the dashboard, once the session query has a result.
Redirect ==
  /\ page' = IF page = "login" THEN "private" ELSE "login"
  /\ IF page = "login" THEN HasSession ELSE cached = NoSession
  /\ UNCHANGED <<storage, cached, requests, mutation, issued, current, raced, views, unclean>>

\* The tab is reloaded: memory is gone, storage stays.
Reload ==
  /\ cached' = NoData
  /\ requests' = {} /\ mutation' = "none"
  /\ views' = {} /\ unclean' = FALSE
  /\ UNCHANGED <<storage, page, issued, current, raced>>

Next ==
  \/ StartQuery
  \/ \E q \in requests : EndQuery(q)
  \/ SubmitLogin \/ PressLogout \/ LoginFails \/ LoggedOut
  \/ \E t \in Tokens : LoggedIn(t)
  \/ Browse \/ Redirect \/ Reload

Spec == Init /\ [][Next]_vars

-----------------------------------------------------------------------------
(* Properties *)

\* Every variable keeps its type; the query has one fetch under way at most,
\* and localStorage only ever holds what the older version left there.
TypeOK ==
  /\ token \in Tokens \cup {None} /\ user \in Users \cup {None}
  /\ legacyToken \in {Legacy, None}
  /\ legacyUser # None => Legacy # None /\ legacyUser = Owner[Legacy]
  /\ cached \in [token: Tokens, user: Users] \cup {NoData, NoSession}
  /\ requests \subseteq [token: Tokens, live: BOOLEAN]
  /\ Cardinality({q \in requests : q.live}) <= 1
  /\ mutation \in {"none", "login", "logout"} /\ page \in {"login", "private"}
  /\ issued \subseteq Tokens /\ current \in issued \cup {None} /\ raced \in BOOLEAN
  /\ views \subseteq Users /\ unclean \in BOOLEAN

\* The stored user is the owner of the stored token, wherever each of them is
\* stored and however requests overlap.
SnapshotMatchesToken ==
  StoredToken # None /\ StoredUser # None => StoredUser = Owner[StoredToken]

\* The tab holds the token of the last login or none, and none after a logout.
\* This says nothing of a tab in which a request to /me was open when the last
\* login or logout ended: the answer to one writes its older token back ...
SessionIsLatest == ~raced => StoredToken \in {None, current}

\* ... and, with the same exception, it acts as the user it shows: its requests
\* carry a token of that user.
ActsAsShown ==
  ~raced /\ HasSession => StoredToken # None /\ Owner[StoredToken] = cached.user

\* What the pages may show from the cache is the data of the user who is logged
\* in: logging out leaves nothing of it for the next one, who logs in without
\* clearing anything.  So this says nothing of a session that ended otherwise, by
\* a 401 or another login: its data is there for the next user.
OwnDataOnly == ~raced /\ ~unclean /\ HasSession => views \subseteq {cached.user}
=============================================================================
