------------------------ MODULE AuthenticationProofs ------------------------
(***************************************************************************)
(* Authentication keeps its types, a registration stands, and roles are    *)
(* never made up: for any number of requests, emails and passwords, with   *)
(* or without a unique index on email.                                     *)
(***************************************************************************)
EXTENDS Authentication, TLAPS

\* A login that compares has selected a row, and a request whose token was
\* accepted has one.
InHand ==
  /\ \A r \in Requests : pc[r] = "compare" => seen[r] # NoUser
  /\ \A r \in Requests :
       pc[r] \in {"me", "admin"} \/ answer[r] = "administered" =>
         token[r] # NoUser /\ token[r].user \in Registered

\* Before its INSERT a registration has no row.
Unregistered == \A r \in Requests : pc[r] # "done" => users[r] = NoUser

\* Rows, the rows logins have seen, and tokens an administrator's request was
\* let in with have roles that were held.
RolesOnTheWay ==
  /\ \A i \in Registered : users[i].role \in held[i]
  /\ \A r \in Requests :
       seen[r] # NoUser => seen[r].row.role \in held[seen[r].id]
  /\ \A r \in Requests : pc[r] = "admin" => "ADMIN" \in held[token[r].user]

IInv == /\ TypeOK /\ InHand /\ Unregistered
        /\ RolesOnTheWay /\ RolesWereHeld /\ RegistrationStands

\* The first administrators are as good as registered users.
LEMMA InitInvariant == Init => IInv
<1> SUFFICES ASSUME Init PROVE IInv OBVIOUS
<1> USE AuthenticationAssumption
<1>1. TypeOK
  <2>1. users \in [Ids -> UserRow \cup {NoUser}] BY DEF Init, Ids
  <2>2. held \in [Ids -> SUBSET {"ADMIN", "USER"}]
    <3>1. \A i \in Founders : Founder[i].role \in {"ADMIN", "USER"} BY DEF UserRow
    <3> QED BY <3>1 DEF Init, Ids
  <2> QED BY <2>1, <2>2 DEF Init, TypeOK, Replies
<1>2. InHand /\ Unregistered /\ RolesOnTheWay
  BY DEF Init, InHand, Unregistered, RolesOnTheWay, Registered, Ids
<1>3. RolesWereHeld /\ RegistrationStands
  BY DEF Init, RolesWereHeld, RegistrationStands
<1> QED BY <1>1, <1>2, <1>3 DEF IInv

-----------------------------------------------------------------------------
(* Steps that leave the table alone *)

\* The type of what such a step changes is all there is to show of TypeOK.
LEMMA QuietTypes ==
  ASSUME TypeOK, UNCHANGED <<users, held, body>>,
         tokens' \subseteq [user: Registered, role: {"ADMIN", "USER"}],
         token' \in [Requests -> Token \cup {NoUser}],
         seen' \in [Requests -> [id: Registered, row: UserRow] \cup {NoUser}],
         NEW r \in Requests, pc[r] # "done",
         \/ \E step \in {"check", "hash", "insert", "select", "compare", "me", "admin"} :
              Goto(r, step)
         \/ \E what \in Replies \ {"none"} : Answer(r, what)
  PROVE  TypeOK'
<1>1. Registered' = Registered BY DEF Registered
<1>2. pc' \in [Requests -> {"start", "check", "hash", "insert", "select", "compare",
                            "me", "admin", "done"}]
  BY DEF TypeOK, Goto, Answer
<1>3. answer' \in [Requests -> Replies] BY DEF TypeOK, Goto, Answer
<1>4. \A q \in Requests : answer'[q] = "none" <=> pc'[q] # "done"
  BY DEF TypeOK, Goto, Answer
<1> QED BY <1>1, <1>2, <1>3, <1>4 DEF TypeOK

\* A request goes on, or is answered, and nothing else happens.
LEMMA PlainStep ==
  ASSUME IInv, NEW r \in Requests,
         UNCHANGED <<users, tokens, body, token, seen, held>>,
         \/ \E step \in {"check", "hash", "insert", "select"} :
              pc[r] # "done" /\ Goto(r, step)
         \/ \E what \in Replies \ {"none", "created", "administered"} :
              pc[r] # "done" /\ Answer(r, what)
         \/ pc[r] = "admin" /\ Answer(r, "administered")
  PROVE  IInv'
<1>1. TypeOK'
  <2>1. pc[r] # "done" OBVIOUS
  <2> QED BY <2>1, QuietTypes DEF IInv, TypeOK, Replies
<1>2. Registered' = Registered BY DEF Registered
<1>3. \A q \in Requests \ {r} : pc'[q] = pc[q] /\ answer'[q] = answer[q]
  BY DEF IInv, TypeOK, Goto, Answer
<1>4. InHand' BY <1>2, <1>3 DEF IInv, TypeOK, InHand, Goto, Answer
<1>5. Unregistered' BY <1>3 DEF IInv, TypeOK, Unregistered, Goto, Answer
<1>6. RolesOnTheWay' BY <1>2, <1>3 DEF IInv, TypeOK, RolesOnTheWay, Goto, Answer
<1>7. RolesWereHeld' BY <1>3 DEF IInv, TypeOK, RolesWereHeld, RolesOnTheWay, Goto, Answer
<1>8. RegistrationStands' BY <1>3 DEF IInv, TypeOK, RegistrationStands, Goto, Answer
<1> QED BY <1>1, <1>4, <1>5, <1>6, <1>7, <1>8 DEF IInv

\* A login sees a row as it is: its role is one that was held.
LEMMA SelectStep == ASSUME IInv, NEW r \in Requests, SelectUser(r) PROVE IInv'
<1>1. ASSUME NEW what \in {"invalid", "locked"}, Answer(r, what), UNCHANGED seen
      PROVE  IInv'
  BY <1>1, PlainStep DEF SelectUser, Replies
<1>2. ASSUME NEW i \in Registered,
             Goto(r, "compare"),
             seen' = [seen EXCEPT ![r] = [id |-> i, row |-> users[i]]]
      PROVE  IInv'
  <2> USE <1>2 DEF SelectUser
  <2>1. users[i] \in UserRow /\ users[i].role \in held[i]
    BY DEF IInv, TypeOK, RolesOnTheWay, Registered
  <2>2. seen' \in [Requests -> [id: Registered, row: UserRow] \cup {NoUser}]
    BY <2>1 DEF IInv, TypeOK
  <2>3. TypeOK' BY <2>2, QuietTypes DEF IInv, TypeOK
  <2>4. Registered' = Registered BY DEF Registered
  <2>5. seen'[r] # NoUser
    <3>1. [id |-> i, row |-> users[i]] \in [id: Ids, row: UserRow] BY <2>1 DEF Registered
    <3> QED BY <3>1, AuthenticationAssumption DEF IInv, TypeOK
  <2>6. \A q \in Requests \ {r} : pc'[q] = pc[q] /\ seen'[q] = seen[q]
    BY DEF IInv, TypeOK, Goto
  <2>7. InHand' BY <2>4, <2>5, <2>6 DEF IInv, TypeOK, InHand, Goto
  <2>8. Unregistered' BY <2>6 DEF IInv, TypeOK, Unregistered, Goto
  <2>9. RolesOnTheWay'
    BY <2>1, <2>4, <2>6 DEF IInv, TypeOK, RolesOnTheWay, Goto
  <2>10. RolesWereHeld' /\ RegistrationStands'
    BY DEF IInv, RolesWereHeld, RegistrationStands, Goto
  <2> QED BY <2>3, <2>7, <2>8, <2>9, <2>10 DEF IInv
<1> QED BY <1>1, <1>2 DEF SelectUser, Found, WithEmail

\* The token that is signed names a registered user and a role it has had.
LEMMA CompareStep == ASSUME IInv, NEW r \in Requests, Compare(r) PROVE IInv'
<1>1. CASE UNCHANGED tokens
  <2>1. \E what \in {"welcome", "invalid"} : Answer(r, what) BY DEF Compare
  <2> QED BY <1>1, <2>1, PlainStep DEF Compare, Replies
<1>2. ASSUME tokens' = tokens \cup {[user |-> seen[r].id, role |-> seen[r].row.role]},
             Answer(r, "welcome")
      PROVE  IInv'
  <2> USE <1>2 DEF Compare
  <2>1. seen[r] \in [id: Registered, row: UserRow] BY DEF IInv, TypeOK, InHand
  <2>2. seen[r].row.role \in {"ADMIN", "USER"} /\ seen[r].row.role \in held[seen[r].id]
    BY <2>1 DEF IInv, InHand, RolesOnTheWay, UserRow
  <2>3. TypeOK'
    <3>1. tokens' \subseteq [user: Registered, role: {"ADMIN", "USER"}]
      BY <2>1, <2>2 DEF IInv, TypeOK
    <3>2. UNCHANGED <<users, held, body, token, seen>> /\ pc[r] # "done" OBVIOUS
    <3>3. "welcome" \in Replies \ {"none"} BY DEF Replies
    <3> QED BY <3>1, <3>2, <3>3, QuietTypes DEF IInv, TypeOK
  <2>4. Registered' = Registered BY DEF Registered
  <2>5. \A q \in Requests \ {r} : pc'[q] = pc[q] /\ answer'[q] = answer[q]
    BY DEF IInv, TypeOK, Answer
  <2>6. InHand' BY <2>4, <2>5 DEF IInv, TypeOK, InHand, Answer
  <2>7. Unregistered' BY <2>5 DEF IInv, TypeOK, Unregistered, Answer
  <2>8. RolesOnTheWay' BY <2>4, <2>5 DEF IInv, TypeOK, RolesOnTheWay, Answer
  <2>9. RolesWereHeld' BY <2>2, <2>5 DEF IInv, TypeOK, RolesWereHeld, Answer
  <2>10. RegistrationStands' BY <2>5 DEF IInv, TypeOK, RegistrationStands, Answer
  <2> QED BY <2>3, <2>6, <2>7, <2>8, <2>9, <2>10 DEF IInv
<1> QED BY <1>1, <1>2 DEF Compare

\* Only the token of an administrator gets past the guard to administer.
LEMMA GuardStep ==
  ASSUME IInv, NEW r \in Requests, NEW step \in {"me", "admin"}, Guard(r, step)
  PROVE  IInv'
<1> PICK t \in tokens :
      /\ token' = [token EXCEPT ![r] = t]
      /\ IF MayPass(t, step) THEN Goto(r, step) ELSE Answer(r, "forbidden")
  BY DEF Guard
<1> USE DEF Guard
<1>1. t \in [user: Registered, role: {"ADMIN", "USER"}] BY DEF IInv, TypeOK
<1>2. t \in Token /\ t # NoUser BY <1>1, AuthenticationAssumption DEF Token, Registered
<1>3. token' \in [Requests -> Token \cup {NoUser}] BY <1>2 DEF IInv, TypeOK
<1>4. TypeOK' BY <1>3, QuietTypes DEF IInv, TypeOK, Replies
<1>5. Registered' = Registered BY DEF Registered
<1>6. \A q \in Requests \ {r} :
        pc'[q] = pc[q] /\ answer'[q] = answer[q] /\ token'[q] = token[q]
  BY DEF IInv, TypeOK, Goto, Answer
<1>7. token'[r] = t BY DEF IInv, TypeOK
<1>8. InHand' BY <1>1, <1>2, <1>5, <1>6, <1>7 DEF IInv, TypeOK, InHand, Goto, Answer
<1>9. Unregistered' BY <1>6 DEF IInv, TypeOK, Unregistered, Goto, Answer
<1>10. pc'[r] = "admin" => "ADMIN" \in held[t.user]
  BY DEF IInv, TypeOK, MayPass, RolesWereHeld, Goto, Answer
<1>11. RolesOnTheWay' BY <1>5, <1>6, <1>7, <1>10 DEF IInv, RolesOnTheWay
<1>12. RolesWereHeld' BY <1>6 DEF IInv, TypeOK, RolesWereHeld, Goto, Answer
<1>13. RegistrationStands' BY <1>6 DEF IInv, TypeOK, RegistrationStands, Goto, Answer
<1> QED BY <1>4, <1>8, <1>9, <1>11, <1>12, <1>13 DEF IInv

-----------------------------------------------------------------------------
(* Steps that change the table *)

\* The new row is of nobody who was registered, so no token and nothing a login
\* has seen is about it.
LEMMA StoreStep == ASSUME IInv, NEW r \in Requests, InsertUser(r) PROVE IInv'
<1> USE DEF InsertUser, Store
<1>1. r \in Ids /\ users[r] = NoUser /\ r \notin Registered
  BY DEF IInv, TypeOK, Unregistered, Ids, Registered
<1>2. NewUser(r) \in UserRow /\ NewUser(r) # NoUser
  BY AuthenticationAssumption DEF NewUser, UserRow, IInv, TypeOK, Credentials
<1>3. /\ users' \in [Ids -> UserRow \cup {NoUser}]
      /\ users'[r] = NewUser(r)
      /\ \A i \in Ids \ {r} : users'[i] = users[i] /\ held'[i] = held[i]
      /\ held'[r] = {"USER"}
      /\ held' \in [Ids -> SUBSET {"ADMIN", "USER"}]
  BY <1>1, <1>2 DEF IInv, TypeOK, NewUser
<1>4. Registered' = Registered \cup {r} BY <1>1, <1>2, <1>3 DEF Registered
<1>5. \E what \in {"created", "error"} : Answer(r, what) OBVIOUS
<1>6. /\ pc' \in [Requests -> {"start", "check", "hash", "insert", "select", "compare",
                               "me", "admin", "done"}]
      /\ answer' \in [Requests -> Replies]
      /\ \A q \in Requests : answer'[q] = "none" <=> pc'[q] # "done"
      /\ \A q \in Requests \ {r} : pc'[q] = pc[q] /\ answer'[q] = answer[q]
      /\ pc'[r] = "done" /\ answer'[r] \in {"created", "error"}
  BY <1>5 DEF IInv, TypeOK, Answer, Replies
<1>7. TypeOK'
  <2>1. seen \in [Requests -> [id: Registered', row: UserRow] \cup {NoUser}]
    BY <1>4 DEF IInv, TypeOK
  <2> QED BY <1>3, <1>4, <1>6, <2>1 DEF IInv, TypeOK
<1>8. InHand' BY <1>4, <1>6 DEF IInv, TypeOK, InHand
<1>9. Unregistered' BY <1>3, <1>6 DEF IInv, Unregistered, Ids
<1>10. RolesOnTheWay'
  <2>1. \A i \in Registered' : users'[i].role \in held'[i]
    BY <1>3, <1>4 DEF IInv, RolesOnTheWay, NewUser, Registered
  <2>2. \A q \in Requests : seen[q] # NoUser => seen[q].id \in Registered
    BY DEF IInv, TypeOK
  <2>3. \A q \in Requests : seen'[q] # NoUser => seen'[q].row.role \in held'[seen'[q].id]
    BY <1>1, <1>3, <2>2 DEF IInv, RolesOnTheWay, Registered
  <2>4. \A q \in Requests : pc'[q] = "admin" => "ADMIN" \in held'[token'[q].user]
    BY <1>1, <1>3, <1>6 DEF IInv, InHand, RolesOnTheWay, Registered
  <2> QED BY <2>1, <2>3, <2>4 DEF RolesOnTheWay
<1>11. RolesWereHeld'
  <2>1. \A t \in tokens : t.user \in Registered BY DEF IInv, TypeOK
  <2>2. \A q \in Requests : answer'[q] = "administered" => "ADMIN" \in held'[token'[q].user]
    BY <1>1, <1>3, <1>6 DEF IInv, InHand, RolesWereHeld, Registered
  <2> QED BY <1>1, <1>3, <2>1, <2>2 DEF IInv, RolesWereHeld, Registered
<1>12. RegistrationStands'
  BY <1>2, <1>3, <1>6 DEF IInv, RegistrationStands, NewUser, Ids
<1> QED BY <1>7, <1>8, <1>9, <1>10, <1>11, <1>12 DEF IInv

\* A row keeps its email and password, and what its user has been is kept.
LEMMA ChangedRow ==
  ASSUME IInv, NEW i \in Registered,
         UNCHANGED <<tokens, pc, body, token, seen, answer>>,
         users' \in [Ids -> UserRow \cup {NoUser}],
         held' \in [Ids -> SUBSET {"ADMIN", "USER"}],
         Registered' = Registered,
         \A j \in Ids : held[j] \subseteq held'[j],
         \A j \in Ids \ {i} : users'[j] = users[j],
         users'[i].email = users[i].email, users'[i].password = users[i].password,
         users'[i].role \in held'[i]
  PROVE  IInv'
<1>1. TypeOK' BY DEF IInv, TypeOK
<1>2. InHand' BY DEF IInv, InHand
<1>3. Unregistered' BY DEF IInv, Unregistered, Registered, Ids
<1>4. RolesOnTheWay'
  <2>1. \A j \in Registered' : users'[j].role \in held'[j]
    BY DEF IInv, RolesOnTheWay, Registered
  <2>2. \A q \in Requests : seen[q] # NoUser => seen[q].id \in Ids
    BY DEF IInv, TypeOK, Registered
  <2>3. \A q \in Requests : pc[q] = "admin" => token[q].user \in Ids
    BY DEF IInv, InHand, Registered
  <2> QED BY <2>1, <2>2, <2>3 DEF IInv, RolesOnTheWay
<1>5. RolesWereHeld'
  <2>1. \A t \in tokens : t.user \in Ids BY DEF IInv, TypeOK, Registered
  <2>2. \A q \in Requests : answer[q] = "administered" => token[q].user \in Ids
    BY DEF IInv, InHand, Registered
  <2> QED BY <2>1, <2>2 DEF IInv, RolesWereHeld
<1>6. RegistrationStands'
  BY DEF IInv, RegistrationStands, Registered, Ids
<1> QED BY <1>1, <1>2, <1>3, <1>4, <1>5, <1>6 DEF IInv

\* What an operator sets leaves email and password alone and is remembered.
LEMMA OperatorStep ==
  ASSUME IInv, NEW i \in Registered,
         \/ \E role \in {"ADMIN", "USER"} : SetRole(i, role)
         \/ \E status \in {"ACTIVE", "LOCKED"} : SetStatus(i, status)
  PROVE  IInv'
<1>1. i \in Ids /\ users[i] \in UserRow /\ users[i].role \in held[i]
  BY DEF IInv, TypeOK, RolesOnTheWay, Registered
<1>2. CASE \E role \in {"ADMIN", "USER"} : SetRole(i, role)
  <2> PICK role \in {"ADMIN", "USER"} : SetRole(i, role) BY <1>2
  <2> DEFINE row == [users[i] EXCEPT !.role = role]
  <2>1. /\ row \in UserRow /\ row.role = role
        /\ row.email = users[i].email /\ row.password = users[i].password
    BY <1>1 DEF UserRow
  <2>2. users' = [users EXCEPT ![i] = row] BY DEF SetRole
  <2> HIDE DEF row
  <2>3. users' \in [Ids -> UserRow \cup {NoUser}] /\ users'[i] = row
    BY <1>1, <2>1, <2>2 DEF IInv, TypeOK
  <2>4. Registered' = Registered
    BY <1>1, <2>1, <2>2, <2>3, AuthenticationAssumption DEF IInv, TypeOK, Registered
  <2>5. /\ held' \in [Ids -> SUBSET {"ADMIN", "USER"}]
        /\ \A j \in Ids : held[j] \subseteq held'[j]
        /\ role \in held'[i]
    BY <1>1 DEF SetRole, IInv, TypeOK
  <2>6. \A j \in Ids \ {i} : users'[j] = users[j] BY <2>2 DEF IInv, TypeOK
  <2> QED BY <2>1, <2>3, <2>4, <2>5, <2>6, ChangedRow DEF SetRole
<1>3. CASE \E status \in {"ACTIVE", "LOCKED"} : SetStatus(i, status)
  <2> PICK status \in {"ACTIVE", "LOCKED"} : SetStatus(i, status) BY <1>3
  <2> DEFINE row == [users[i] EXCEPT !.status = status]
  <2>1. /\ row \in UserRow /\ row.role = users[i].role
        /\ row.email = users[i].email /\ row.password = users[i].password
    BY <1>1 DEF UserRow
  <2>2. users' = [users EXCEPT ![i] = row] BY DEF SetStatus
  <2> HIDE DEF row
  <2>3. users' \in [Ids -> UserRow \cup {NoUser}] /\ users'[i] = row
    BY <1>1, <2>1, <2>2 DEF IInv, TypeOK
  <2>4. Registered' = Registered
    BY <1>1, <2>1, <2>2, <2>3, AuthenticationAssumption DEF IInv, TypeOK, Registered
  <2>5. \A j \in Ids \ {i} : users'[j] = users[j] BY <2>2 DEF IInv, TypeOK
  <2> QED BY <1>1, <2>1, <2>3, <2>4, <2>5, ChangedRow DEF SetStatus, IInv, TypeOK
<1> QED BY <1>2, <1>3

-----------------------------------------------------------------------------
(* The theorems *)

\* Every step of a request, of an operator or of the clock keeps the invariant.
LEMMA NextInvariant == IInv /\ [Next]_vars => IInv'
<1> SUFFICES ASSUME IInv, [Next]_vars PROVE IInv' OBVIOUS
<1>1. ASSUME NEW r \in Requests, Request(r) PROVE IInv'
  <2>1. CASE Arrive(r, "check") \/ Arrive(r, "select")
    BY <2>1, PlainStep DEF Arrive
  <2>2. CASE CheckEmail(r) \/ Hash(r)
    BY <2>2, PlainStep DEF CheckEmail, Hash, Replies
  <2>3. CASE InsertUser(r) BY <2>3, StoreStep
  <2>4. CASE SelectUser(r) BY <2>4, SelectStep
  <2>5. CASE Compare(r) BY <2>5, CompareStep
  <2>6. CASE Guard(r, "me") \/ Guard(r, "admin") BY <2>6, GuardStep
  <2>7. CASE Me(r)
    <3>1. \E what \in {"profile", "locked"} : Answer(r, what) BY <2>7 DEF Me
    <3> QED BY <2>7, <3>1, PlainStep DEF Me, Replies
  <2>8. CASE Unauthorized(r) \/ Administer(r) \/ Fail(r)
    BY <2>8, PlainStep DEF Unauthorized, Administer, Fail, Replies
  <2> QED BY <1>1, <2>1, <2>2, <2>3, <2>4, <2>5, <2>6, <2>7, <2>8 DEF Request
<1>2. ASSUME NEW t \in tokens, Expire(t) PROVE IInv'
  <2>1. TypeOK' /\ InHand' /\ Unregistered' /\ RolesOnTheWay'
    BY <1>2 DEF Expire, IInv, TypeOK, InHand, Unregistered, RolesOnTheWay, Registered
  <2>2. RolesWereHeld' /\ RegistrationStands'
    BY <1>2 DEF Expire, IInv, RolesWereHeld, RegistrationStands
  <2> QED BY <2>1, <2>2 DEF IInv
<1>3. CASE UNCHANGED vars
  BY <1>3 DEF vars, IInv, TypeOK, InHand, Unregistered, RolesOnTheWay, RolesWereHeld,
              RegistrationStands, Registered
<1> QED BY <1>1, <1>2, <1>3, OperatorStep DEF Next

\* What the theorems about states follow from.
LEMMA Invariant == Spec => []IInv
<1> QED BY InitInvariant, NextInvariant, PTL DEF Spec

\* app_users and the requests keep their types, and every token that has not
\* expired is of a registered user (auth.service.ts, jwt-auth.guard.ts).
THEOREM TypeCorrect == Spec => []TypeOK
<1>1. IInv => TypeOK BY DEF IInv
<1> QED BY <1>1, Invariant, PTL

\* A registration that register() has answered with 201 stands.
THEOREM RegistrationAlwaysStands == Spec => []RegistrationStands
<1>1. IInv => RegistrationStands BY DEF IInv
<1> QED BY <1>1, Invariant, PTL

\* Tokens and administrators' requests rest on roles from app_users, however
\* logins, guards and changes of roles interleave.
THEOREM RolesAlwaysHeld == Spec => []RolesWereHeld
<1>1. IInv => RolesWereHeld BY DEF IInv
<1> QED BY <1>1, Invariant, PTL
-----------------------------------------------------------------------------
(* Who is kept out *)

\* The row a login compares with is still there, with the email that was asked
\* for and the password that was seen.
SeenStands ==
  \A r \in Requests : pc[r] = "compare" =>
    /\ seen[r].id \in WithEmail(body[r].email)
    /\ users[seen[r].id].password = seen[r].row.password

\* A step keeps the email and the password of every row.
LEMMA RowsStand ==
  ASSUME IInv, [Next]_vars, NEW i \in Registered
  PROVE  /\ i \in Registered' /\ body' = body
         /\ users'[i].email = users[i].email /\ users'[i].password = users[i].password
<1>0. i \in Ids /\ users[i] \in UserRow /\ users[i] # NoUser
  BY DEF IInv, TypeOK, Registered
<1>1. CASE UNCHANGED <<users, body>> BY <1>0, <1>1 DEF Registered
<1>2. ASSUME NEW r \in Requests, InsertUser(r)
      PROVE  body' = body /\ users'[i] = users[i]
  <2>1. users[r] = NoUser /\ r # i BY <1>0, <1>2 DEF InsertUser, IInv, Unregistered
  <2> QED BY <1>0, <1>2, <2>1 DEF InsertUser, Store, IInv, TypeOK
<1>3. ASSUME NEW j \in Registered,
             \/ \E role \in {"ADMIN", "USER"} : SetRole(j, role)
             \/ \E status \in {"ACTIVE", "LOCKED"} : SetStatus(j, status)
      PROVE  /\ body' = body /\ users'[i] \in UserRow
             /\ users'[i].email = users[i].email /\ users'[i].password = users[i].password
  <2>1. CASE j = i
    <3>1. CASE \E role \in {"ADMIN", "USER"} : SetRole(j, role)
      <4> PICK role \in {"ADMIN", "USER"} : SetRole(j, role) BY <3>1
      <4>1. users'[i] = [users[i] EXCEPT !.role = role]
        BY <1>0, <2>1 DEF SetRole, IInv, TypeOK
      <4> QED BY <1>0, <4>1 DEF SetRole, UserRow
    <3>2. CASE \E status \in {"ACTIVE", "LOCKED"} : SetStatus(j, status)
      <4> PICK status \in {"ACTIVE", "LOCKED"} : SetStatus(j, status) BY <3>2
      <4>1. users'[i] = [users[i] EXCEPT !.status = status]
        BY <1>0, <2>1 DEF SetStatus, IInv, TypeOK
      <4> QED BY <1>0, <4>1 DEF SetStatus, UserRow
    <3> QED BY <1>3, <3>1, <3>2
  <2>2. CASE j # i BY <1>0, <1>3, <2>2 DEF SetRole, SetStatus, IInv, TypeOK
  <2> QED BY <2>1, <2>2
<1>4. \/ UNCHANGED <<users, body>>
      \/ \E r \in Requests : InsertUser(r)
      \/ \E j \in Registered :
           \/ \E role \in {"ADMIN", "USER"} : SetRole(j, role)
           \/ \E status \in {"ACTIVE", "LOCKED"} : SetStatus(j, status)
  BY DEF Next, vars, Request, Arrive, CheckEmail, Hash, SelectUser, Compare, Unauthorized,
         Guard, Me, Administer, Fail, Expire
<1>5. NoUser \notin UserRow BY AuthenticationAssumption
<1>6. \/ UNCHANGED <<users, body>>
      \/ /\ body' = body /\ users'[i] \in UserRow
         /\ users'[i].email = users[i].email /\ users'[i].password = users[i].password
  BY <1>0, <1>2, <1>3, <1>4
<1> QED BY <1>0, <1>1, <1>5, <1>6 DEF Registered

\* Only the SELECT of a login brings it to the comparison.
LEMMA ComparesAfterSelect ==
  ASSUME IInv, [Next]_vars, NEW r \in Requests, pc'[r] = "compare"
  PROVE  \/ pc[r] = "compare" /\ seen'[r] = seen[r]
         \/ /\ users' = users /\ body' = body
            /\ \E i \in WithEmail(body[r].email) : seen'[r] = [id |-> i, row |-> users[i]]
<1>1. ASSUME NEW q \in Requests, Request(q), q # r
      PROVE  pc'[r] = pc[r] /\ seen'[r] = seen[r]
  BY <1>1 DEF Request, Arrive, CheckEmail, Hash, InsertUser, Store, SelectUser, Compare,
              Unauthorized, Guard, Me, Administer, Fail, Goto, Answer, IInv, TypeOK
<1>2. CASE Request(r)
  <2>1. CASE SelectUser(r)
    <3>1. PICK i \in Found(r) : Goto(r, "compare")
                                /\ seen' = [seen EXCEPT ![r] = [id |-> i, row |-> users[i]]]
      BY <2>1 DEF SelectUser, Answer, IInv, TypeOK
    <3> QED BY <2>1, <3>1 DEF SelectUser, Found, IInv, TypeOK
  <2> QED BY <1>2, <2>1 DEF Request, Arrive, CheckEmail, Hash, InsertUser, Store, Compare,
              Unauthorized, Guard, Me, Administer, Fail, Goto, Answer, IInv, TypeOK
<1>3. CASE UNCHANGED <<pc, seen>> BY <1>3
<1> QED BY <1>1, <1>2, <1>3 DEF Next, SetRole, SetStatus, Expire, vars

\* What a login is going to compare with stays as it was seen.
LEMMA SeenKept == IInv /\ SeenStands /\ [Next]_vars => SeenStands'
<1> SUFFICES ASSUME IInv, SeenStands, [Next]_vars, NEW r \in Requests, pc'[r] = "compare"
             PROVE  /\ seen'[r].id \in WithEmail(body[r].email)'
                    /\ users'[seen'[r].id].password = seen'[r].row.password
  BY DEF SeenStands
<1>1. CASE pc[r] = "compare" /\ seen'[r] = seen[r]
  <2>1. /\ seen[r].id \in Registered /\ users[seen[r].id].email = body[r].email
        /\ users[seen[r].id].password = seen[r].row.password
    BY <1>1 DEF SeenStands, WithEmail
  <2> QED BY <1>1, <2>1, RowsStand DEF WithEmail
<1>2. ASSUME users' = users, body' = body, NEW i \in WithEmail(body[r].email),
             seen'[r] = [id |-> i, row |-> users[i]]
      PROVE  /\ seen'[r].id \in WithEmail(body[r].email)'
             /\ users'[seen'[r].id].password = seen'[r].row.password
  BY <1>2 DEF WithEmail, Registered
<1> QED BY <1>1, <1>2, ComparesAfterSelect

\* "Invalid" is the answer of a SELECT without rows or of a comparison that
\* failed with a row of that email.
LEMMA InvalidMeansOther ==
  ASSUME IInv, SeenStands, [Next]_vars, NEW r \in Requests,
         answer[r] = "none", answer'[r] = "invalid",
         NEW i \in WithEmail(body[r].email), users[i].password = body[r].password
  PROVE  WithEmail(body[r].email) # {i}
<1>1. ASSUME NEW q \in Requests, Request(q), q # r PROVE answer'[r] = answer[r]
  BY <1>1 DEF Request, Arrive, CheckEmail, Hash, InsertUser, Store, SelectUser, Compare,
              Unauthorized, Guard, Me, Administer, Fail, Goto, Answer, IInv, TypeOK
<1>2. CASE Request(r)
  <2>1. CASE Compare(r)
    <3>1. pc[r] = "compare" /\ seen[r].row.password # body[r].password
      BY <2>1 DEF Compare, Answer, IInv, TypeOK
    <3>2. /\ seen[r].id \in WithEmail(body[r].email)
          /\ users[seen[r].id].password = seen[r].row.password
      BY <3>1 DEF SeenStands
    <3> QED BY <3>1, <3>2
  <2>2. CASE SelectUser(r)
    <3>1. Found(r) # {} BY DEF Found
    <3> QED BY <2>2, <3>1 DEF SelectUser, Goto, Answer, IInv, TypeOK
  <2> QED BY <1>2, <2>1, <2>2 DEF Request, Arrive, CheckEmail, Hash, InsertUser, Store,
              Unauthorized, Guard, Me, Administer, Fail, Goto, Answer, IInv, TypeOK
<1>3. CASE UNCHANGED answer BY <1>3
<1> QED BY <1>1, <1>2, <1>3 DEF Next, SetRole, SetStatus, Expire, vars

\* login() turns a user away whose email and password are registered only if
\* another registration has the same email.
THEOREM LoginAlwaysFindsUser == Spec => LoginFindsUser
<1>1. Init => SeenStands BY DEF Init, SeenStands
<1>2. IInv /\ SeenStands /\ [Next]_vars => SeenStands' BY SeenKept
<1>3. IInv /\ SeenStands /\ [Next]_vars
      => [\A r \in Requests : answer[r] = "none" /\ answer'[r] = "invalid" =>
            \A i \in WithEmail(body[r].email) :
              users[i].password = body[r].password => WithEmail(body[r].email) # {i}]_vars
  BY InvalidMeansOther
<1> QED BY <1>1, <1>2, <1>3, Invariant, PTL DEF Spec, LoginFindsUser
=============================================================================
