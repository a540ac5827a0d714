------------------------ MODULE ClientSessionProofs -------------------------
(***************************************************************************)
(* The tab acts as the user it shows, with the token of the last login, on *)
(* a snapshot that matches it, and shows the data of this user only: for   *)
(* any tokens and users and any number of overlapping requests.            *)
(***************************************************************************)
EXTENDS ClientSession, FiniteSetTheorems, TLAPS

\* The end of a query, apart from what its answer does.
Ends(q, refused) ==
  /\ requests' = requests \ {q}
  /\ unclean' = (unclean \/ refused)
  /\ UNCHANGED <<mutation, page, issued, current, raced, views>>

\* The three ends of a request to /me.
LEMMA EndsCases ==
  ASSUME NEW q \in requests, unclean \in BOOLEAN, EndQuery(q)
  PROVE  \/ MeAnswers(q) /\ Ends(q, FALSE)
         \/ MeFails(q) /\ Ends(q, FALSE)
         \/ MeRefuses(q) /\ Ends(q, TRUE)
BY Zenon DEF EndQuery, Ends

-----------------------------------------------------------------------------
(* Types *)

\* TypeOK, with "at most one" said without a cardinality.
Types ==
  /\ token \in Tokens \cup {None} /\ user \in Users \cup {None}
  /\ legacyToken \in {Legacy, None}
  /\ legacyUser # None => Legacy # None /\ legacyUser = Owner[Legacy]
  /\ cached \in [token: Tokens, user: Users] \cup {NoData, NoSession}
  /\ requests \subseteq [token: Tokens, live: BOOLEAN]
  /\ \A p, q \in requests : p.live /\ q.live => p = q
  /\ mutation \in {"none", "login", "logout"} /\ page \in {"login", "private"}
  /\ issued \subseteq Tokens /\ current \in issued \cup {None} /\ raced \in BOOLEAN
  /\ views \subseteq Users /\ unclean \in BOOLEAN

\* Owner maps tokens to users, and None is neither.
LEMMA OwnerType ==
  /\ \A t \in Tokens : Owner[t] \in Users /\ Owner[t] # None
  /\ Legacy \in Tokens \cup {None} /\ None \notin Tokens /\ None \notin Users
BY SessionAssumption, SMT DEF Users

\* Sessions, no data and no session are told apart.
LEMMA SessionType ==
  /\ NoData # NoSession
  /\ \A t \in Tokens, u \in Users :
       /\ Session(t, u) \in [token: Tokens, user: Users]
       /\ Session(t, u).token = t /\ Session(t, u).user = u
  /\ \A s \in [token: Tokens, user: Users] : s # NoData /\ s # NoSession
<1>1. NoData # NoSession
  <2>1. NoData.user = "no data" /\ NoSession.user = "no session" BY DEF NoData, NoSession
  <2> QED BY <2>1
<1>2. \A t \in Tokens, u \in Users :
       /\ Session(t, u) \in [token: Tokens, user: Users]
       /\ Session(t, u).token = t /\ Session(t, u).user = u
  BY SMT DEF Session
<1>3. NoData.token = None /\ NoSession.token = None BY SMT DEF NoData, NoSession
<1> QED BY <1>1, <1>2, <1>3, OwnerType, SMT

\* Forgetting a request keeps it a request.
LEMMA LiveType ==
  ASSUME NEW S, NEW T, NEW q \in [token: S, live: T], NEW v \in T
  PROVE  [q EXCEPT !.live = v] \in [token: S, live: T] /\ [q EXCEPT !.live = v].live = v
OBVIOUS

\* No step breaks the types.
LEMMA TypesStep == ASSUME Types, [Next]_vars PROVE Types'
<1> USE OwnerType, SessionType DEF storage
<1>1. CASE StartQuery
  <2>1. StoredToken \in Tokens \cup {None} /\ legacyToken' \in {Legacy, None} /\ token' = StoredToken
    BY <1>1, SMT DEF StartQuery, MigrateToken, StoredToken, Types
  <2>2. CASE StoredToken = None
    BY <1>1, <2>1, <2>2, SMT DEF StartQuery, Types
  <2>3. CASE StoredToken # None
    <3> DEFINE new == [token |-> StoredToken, live |-> TRUE]
    <3>1. requests' = requests \cup {new} /\ \A q \in requests : ~q.live
      BY <1>1, <2>3, Zenon DEF StartQuery
    <3>2. new \in [token: Tokens, live: BOOLEAN] BY <2>1, <2>3, SMT
    <3> HIDE DEF new
    <3>3. requests' \subseteq [token: Tokens, live: BOOLEAN] BY <3>1, <3>2, Zenon DEF Types
    <3>4. \A p, q \in requests' : p.live /\ q.live => p = q BY <3>1, Zenon
    <3> QED BY <1>1, <2>1, <2>3, <3>3, <3>4, SMT DEF StartQuery, Types
  <2> QED BY <2>2, <2>3
<1>2. ASSUME NEW q \in requests, MeAnswers(q) /\ Ends(q, FALSE) PROVE Types'
  BY <1>2, SMT DEF MeAnswers, WriteStoredSession, Cache, Ends, StoredToken, StoredUser,
                    Types
<1>3. ASSUME NEW q \in requests, MeFails(q) /\ Ends(q, FALSE) PROVE Types'
  BY <1>3, SMT DEF MeFails, MigrateToken, MigrateUser, Cache, Ends, StoredToken,
                    StoredUser, Types
<1>4. ASSUME NEW q \in requests, MeRefuses(q) /\ Ends(q, TRUE) PROVE Types'
  BY <1>4, SMT DEF MeRefuses, ClearStoredSession, Cache, Ends, StoredToken, StoredUser,
                    Types
<1>5. CASE SubmitLogin
  BY <1>5, SMT DEF SubmitLogin, Begin, StoredToken, StoredUser, Types
<1>6. CASE PressLogout
  BY <1>6, SMT DEF PressLogout, Begin, StoredToken, StoredUser, Types
<1>7. ASSUME NEW t \in Tokens, LoggedIn(t) PROVE Types'
  BY <1>7, SMT DEF LoggedIn, WriteStoredSession, StoredToken, StoredUser, Types
<1>8. CASE LoginFails
  BY <1>8, SMT DEF LoginFails, StoredToken, StoredUser, Types
<1>9. CASE LoggedOut
  <2>1. unclean' \in BOOLEAN /\ raced' \in BOOLEAN BY <1>9, Zenon DEF LoggedOut
  <2>2. \A q \in requests' : q \in [token: Tokens, live: BOOLEAN] /\ q.live = FALSE
    <3>1. requests' = {[q EXCEPT !.live = FALSE] : q \in requests} BY <1>9 DEF LoggedOut
    <3>2. ASSUME NEW q \in requests
          PROVE  /\ [q EXCEPT !.live = FALSE] \in [token: Tokens, live: BOOLEAN]
                 /\ [q EXCEPT !.live = FALSE].live = FALSE
      <4>1. q \in [token: Tokens, live: BOOLEAN] BY DEF Types
      <4>2. FALSE \in BOOLEAN BY Zenon
      <4> QED BY <4>1, <4>2, LiveType
    <3> QED BY <3>1, <3>2
  <2>3. current' = None /\ issued' = issued /\ views' = {} BY <1>9, Zenon DEF LoggedOut
  <2> QED BY <1>9, <2>1, <2>2, <2>3, SMT DEF LoggedOut, ClearStoredSession, Types
<1>10. CASE Browse
  BY <1>10, SMT DEF Browse, MigrateToken, StoredToken, StoredUser, Types
<1>11. CASE Redirect
  BY <1>11, SMT DEF Redirect, StoredToken, StoredUser, Types
<1>12. CASE Reload
  <2>1. unclean' \in BOOLEAN /\ raced' \in BOOLEAN BY <1>12, Zenon DEF Reload, Types
  <2> QED BY <1>12, <2>1, SMT DEF Reload, Types
<1>13. CASE UNCHANGED vars BY <1>13, SMT DEF vars, StoredToken, StoredUser, Types
<1>14. ASSUME NEW q \in requests, EndQuery(q) PROVE Types'
  BY <1>2, <1>3, <1>4, <1>14, EndsCases, Zenon DEF Types
<1> QED
  BY <1>1, <1>5, <1>6, <1>7, <1>8, <1>9, <1>10, <1>11, <1>12, <1>13, <1>14 DEF Next

\* The types, always.
LEMMA AlwaysTypes == Spec => []Types
<1>1. Init => Types
  <2> SUFFICES ASSUME Init PROVE Types OBVIOUS
  <2>1. raced \in BOOLEAN /\ unclean \in BOOLEAN BY Zenon DEF Init
  <2>2. issued \subseteq Tokens /\ current \in issued \cup {None}
    BY OwnerType, SMT DEF Init
  <2>3. legacyUser # None => Legacy # None /\ legacyUser = Owner[Legacy] BY SMT DEF Init
  <2> QED BY OwnerType, <2>1, <2>2, <2>3, SMT DEF Init, Types
<1>2. Types /\ [Next]_vars => Types' BY TypesStep
<1> QED BY <1>1, <1>2, PTL DEF Spec

\* Every variable keeps its type, and the session query has one fetch at most.
THEOREM TypeCorrect == Spec => []TypeOK
<1>1. Types => TypeOK
  <2> SUFFICES ASSUME Types PROVE Cardinality({q \in requests : q.live}) <= 1
    BY Zenon DEF Types, TypeOK
  <2>1. CASE {q \in requests : q.live} = {} BY <2>1, FS_EmptySet
  <2>2. CASE {q \in requests : q.live} # {}
    <3>1. PICK q \in requests : q.live BY <2>2
    <3>2. {p \in requests : p.live} = {q} BY <3>1, SMT DEF Types
    <3>3. Cardinality({q}) = 1 BY FS_Singleton
    <3> QED BY <3>2, <3>3
  <2> QED BY <2>1, <2>2
<1> QED BY <1>1, AlwaysTypes, PTL

-----------------------------------------------------------------------------
(* Storage, cache and requests agree *)

\* Without a race, requests carry the last login's token and will be cached.
RequestsAreCurrent ==
  ~raced => \A q \in requests : q.live /\ q.token = current

\* Only a 401 takes the storage away under a session that is shown.
StorageHeld == ~unclean /\ HasSession => StoredToken # None

\* Data is fetched under a session that stays until the data is cleared.
ViewsHaveSession == ~unclean /\ views # {} => HasSession

\* The data is that of the last login.
ViewsAreCurrent ==
  ~raced /\ ~unclean /\ views # {} => current # None /\ views = {Owner[current]}

Agree ==
  /\ SnapshotMatchesToken /\ SessionIsLatest /\ ActsAsShown
  /\ RequestsAreCurrent /\ StorageHeld /\ ViewsHaveSession /\ ViewsAreCurrent

\* No step lets storage, cache, requests and page disagree.
LEMMA AgreeStep == ASSUME Types, Types', Agree, [Next]_vars PROVE Agree'
<1> USE OwnerType, SessionType DEF storage, Agree
<1>1. CASE StartQuery
  BY <1>1, SMT DEF StartQuery, MigrateToken, HasSession, StoredToken, StoredUser, Types,
                    SnapshotMatchesToken, SessionIsLatest, ActsAsShown,
                    RequestsAreCurrent, StorageHeld, ViewsHaveSession, ViewsAreCurrent
<1>2. ASSUME NEW q \in requests, MeAnswers(q) /\ Ends(q, FALSE) PROVE Agree'
  BY <1>2, SMT DEF MeAnswers, WriteStoredSession, Cache, Ends, HasSession, StoredToken,
                    StoredUser, Types, SnapshotMatchesToken, SessionIsLatest,
                    ActsAsShown, RequestsAreCurrent, StorageHeld, ViewsHaveSession,
                    ViewsAreCurrent
<1>3. ASSUME NEW q \in requests, MeFails(q) /\ Ends(q, FALSE) PROVE Agree'
  BY <1>3, SMT DEF MeFails, MigrateToken, MigrateUser, Cache, Ends, HasSession,
                    StoredToken, StoredUser, Types, SnapshotMatchesToken,
                    SessionIsLatest, ActsAsShown, RequestsAreCurrent, StorageHeld,
                    ViewsHaveSession, ViewsAreCurrent
<1>4. ASSUME NEW q \in requests, MeRefuses(q) /\ Ends(q, TRUE) PROVE Agree'
  BY <1>4, SMT DEF MeRefuses, ClearStoredSession, Cache, Ends, HasSession, StoredToken,
                    StoredUser, Types, SnapshotMatchesToken, SessionIsLatest,
                    ActsAsShown, RequestsAreCurrent, StorageHeld, ViewsHaveSession,
                    ViewsAreCurrent
<1>5. CASE SubmitLogin
  BY <1>5, SMT DEF SubmitLogin, Begin, HasSession, StoredToken, StoredUser, Types,
                    SnapshotMatchesToken, SessionIsLatest, ActsAsShown,
                    RequestsAreCurrent, StorageHeld, ViewsHaveSession, ViewsAreCurrent
<1>6. CASE PressLogout
  BY <1>6, SMT DEF PressLogout, Begin, HasSession, StoredToken, StoredUser, Types,
                    SnapshotMatchesToken, SessionIsLatest, ActsAsShown,
                    RequestsAreCurrent, StorageHeld, ViewsHaveSession, ViewsAreCurrent
<1>7. ASSUME NEW t \in Tokens, LoggedIn(t) PROVE Agree'
  <2>1. ~raced' => requests = {} BY <1>7, Zenon DEF LoggedIn
  <2>2. ~unclean' => ~unclean /\ ~HasSession BY <1>7, Zenon DEF LoggedIn
  <2>3. ~unclean' => views' = {} BY <1>7, <2>2, SMT DEF LoggedIn, ViewsHaveSession
  <2>4. /\ token' = t /\ user' = Owner[t] /\ cached' = Session(t, Owner[t]) /\ current' = t
        /\ requests' = requests
    BY <1>7 DEF LoggedIn, WriteStoredSession
  <2>5. StoredToken' = t /\ StoredUser' = Owner[t] BY <2>4 DEF StoredToken, StoredUser
  <2>6. HasSession' /\ cached'.user = Owner[t] BY <2>4, SMT DEF HasSession
  <2> QED BY <2>1, <2>3, <2>4, <2>5, <2>6, SMT
          DEF SnapshotMatchesToken, SessionIsLatest, ActsAsShown, RequestsAreCurrent,
              StorageHeld, ViewsHaveSession, ViewsAreCurrent
<1>8. CASE LoginFails
  BY <1>8, SMT DEF LoginFails, HasSession, StoredToken, StoredUser, Types,
                    SnapshotMatchesToken, SessionIsLatest, ActsAsShown,
                    RequestsAreCurrent, StorageHeld, ViewsHaveSession, ViewsAreCurrent
<1>9. CASE LoggedOut
  BY <1>9, SMT DEF LoggedOut, ClearStoredSession, HasSession, StoredToken, StoredUser,
                    Types, SnapshotMatchesToken, SessionIsLatest, ActsAsShown,
                    RequestsAreCurrent, StorageHeld, ViewsHaveSession, ViewsAreCurrent
<1>10. CASE Browse
  BY <1>10, SMT DEF Browse, MigrateToken, HasSession, StoredToken, StoredUser, Types,
                    SnapshotMatchesToken, SessionIsLatest, ActsAsShown,
                    RequestsAreCurrent, StorageHeld, ViewsHaveSession, ViewsAreCurrent
<1>11. CASE Redirect
  BY <1>11, SMT DEF Redirect, HasSession, StoredToken, StoredUser, Types,
                    SnapshotMatchesToken, SessionIsLatest, ActsAsShown,
                    RequestsAreCurrent, StorageHeld, ViewsHaveSession, ViewsAreCurrent
<1>12. CASE Reload
  BY <1>12, SMT DEF Reload, HasSession, StoredToken, StoredUser, Types,
                    SnapshotMatchesToken, SessionIsLatest, ActsAsShown,
                    RequestsAreCurrent, StorageHeld, ViewsHaveSession, ViewsAreCurrent
<1>13. CASE UNCHANGED vars BY <1>13, SMT DEF vars, HasSession, StoredToken, StoredUser,
          Types, SnapshotMatchesToken, SessionIsLatest, ActsAsShown, RequestsAreCurrent,
          StorageHeld, ViewsHaveSession, ViewsAreCurrent
<1>14. ASSUME NEW q \in requests, EndQuery(q) PROVE Agree'
  BY <1>2, <1>3, <1>4, <1>14, EndsCases, Zenon DEF Types
<1> QED
  BY <1>1, <1>5, <1>6, <1>7, <1>8, <1>9, <1>10, <1>11, <1>12, <1>13, <1>14 DEF Next

\* They always agree.
LEMMA AlwaysAgree == Spec => [](Types /\ Agree)
<1>1. Init => Agree
  BY OwnerType, SessionType, SMT
     DEF Init, Agree, HasSession, StoredToken, StoredUser, SnapshotMatchesToken,
         SessionIsLatest, ActsAsShown, RequestsAreCurrent, StorageHeld,
         ViewsHaveSession, ViewsAreCurrent
<1>2. Types /\ Types' /\ Agree /\ [Next]_vars => Agree' BY AgreeStep
<1> QED BY AlwaysTypes, <1>1, <1>2, PTL DEF Spec

\* However requests overlap, the stored user owns the stored token.
THEOREM SnapshotAlwaysMatches == Spec => []SnapshotMatchesToken
<1>1. Agree => SnapshotMatchesToken BY DEF Agree
<1> QED BY <1>1, AlwaysAgree, PTL

\* The stored token is that of the last login, unless a request raced it.
THEOREM SessionAlwaysLatest == Spec => []SessionIsLatest
<1>1. Agree => SessionIsLatest BY DEF Agree
<1> QED BY <1>1, AlwaysAgree, PTL

\* Requests are made for the user that is shown.
THEOREM AlwaysActsAsShown == Spec => []ActsAsShown
<1>1. Agree => ActsAsShown BY DEF Agree
<1> QED BY <1>1, AlwaysAgree, PTL

\* Cached data is that of the user who is shown, unless a session ended in a
\* 401 or under another login.
THEOREM OnlyOwnData == Spec => []OwnDataOnly
<1>1. Types /\ Agree => OwnDataOnly
  BY SMT DEF Types, Agree, OwnDataOnly, SessionIsLatest, ActsAsShown, ViewsAreCurrent
<1> QED BY <1>1, AlwaysAgree, PTL
=============================================================================
