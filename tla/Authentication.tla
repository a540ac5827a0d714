--------------------------- MODULE Authentication ---------------------------
(***************************************************************************)
(* Users and their tokens: AuthService, JwtAuthGuard and RolesGuard.       *)
(*                                                                         *)
(* Requests run at once, one statement or one bcrypt call per action; every*)
(* statement is a transaction of its own.  A JSON web token is the record  *)
(* it signs.  That a user becomes an administrator, or is locked, is done  *)
(* by an operator in the database: nothing in the program does it.         *)
(***************************************************************************)
EXTENDS Integers, FiniteSets

CONSTANTS
  Requests,   \* requests to the API
  Emails,
  Passwords,
  Founders,   \* ids of the users that are there at the beginning
  Founder,    \* their rows
  NoUser      \* no row, no token

Ids == Founders \cup Requests  \* a user's id is the request that registered it

UserRow == [email: Emails, password: Passwords, role: {"ADMIN", "USER"},
            status: {"ACTIVE", "LOCKED"}]
Token == [user: Ids, role: {"ADMIN", "USER"}]

ASSUME AuthenticationAssumption ==
  /\ Founders \cap Requests = {}
  /\ Founder \in [Founders -> UserRow]
  /\ NoUser \notin UserRow \cup Token \cup [id: Ids, row: UserRow]

VARIABLES
  users,   \* app_users
  tokens,  \* tokens that have been issued and have not expired
  pc,      \* the step each request is at
  body,    \* email and password of a registration or a login
  token,   \* bearer token of another request
  seen,    \* id of the user a login has selected, with the row it has seen
  answer,  \* "none" or what the client is told
  held     \* history: every role each user has had

vars == <<users, tokens, pc, body, token, seen, answer, held>>

Replies == {"none", "error", "email exists", "created", "invalid", "locked", "welcome",
            "unauthorized", "forbidden", "profile", "administered"}

Credentials == [email: Emails, password: Passwords]
Registered == {i \in Ids : users[i] # NoUser}
WithEmail(e) == {i \in Registered : users[i].email = e}

Init ==
  /\ users = [i \in Ids |-> IF i \in Founders THEN Founder[i] ELSE NoUser]
  /\ tokens = {}
  /\ pc = [r \in Requests |-> "start"]
  /\ body \in [Requests -> Credentials]
  /\ token = [r \in Requests |-> NoUser]
  /\ seen = [r \in Requests |-> NoUser]
  /\ answer = [r \in Requests |-> "none"]
  /\ held = [i \in Ids |-> IF i \in Founders THEN {Founder[i].role} ELSE {}]

Goto(r, step) == pc' = [pc EXCEPT ![r] = step] /\ UNCHANGED answer

Answer(r, what) ==
  /\ answer' = [answer EXCEPT ![r] = what]
  /\ pc' = [pc EXCEPT ![r] = "done"]

\* An exception of a statement, or of bcrypt or the signing, becomes a 500.
Fail(r) ==
  /\ pc[r] \in {"check", "hash", "insert", "select", "compare", "me"}
  /\ Answer(r, "error")
  /\ UNCHANGED <<users, tokens, body, token, seen, held>>

-----------------------------------------------------------------------------
(* AuthService.register *)

CheckEmail(r) ==
  /\ pc[r] = "check"
  /\ IF WithEmail(body[r].email) # {}
     THEN Answer(r, "email exists") ELSE Goto(r, "hash")
  /\ UNCHANGED <<users, tokens, body, token, seen, held>>

Hash(r) ==
  /\ pc[r] = "hash"
  /\ Goto(r, "insert")
  /\ UNCHANGED <<users, tokens, body, token, seen, held>>

\* Mutation of NewUser: the role in lower case.
NewUserLowerCase(r) ==
  [email |-> body[r].email, password |-> body[r].password,
   role |-> "user", status |-> "ACTIVE"]

NewUser(r) == [email |-> body[r].email, password |-> body[r].password,
               role |-> "USER", status |-> "ACTIVE"]

\* The row is there; the client is told so, or gets an error all the same.
Store(r) ==
  /\ users' = [users EXCEPT ![r] = NewUser(r)]
  /\ held' = [held EXCEPT ![r] = {NewUser(r).role}]
  /\ Answer(r, "created") \/ Answer(r, "error")
  /\ UNCHANGED <<tokens, body, token, seen>>

\* Mutation of InsertUser: ON CONFLICT (email) DO UPDATE the password.
UpsertUser(r) ==
  /\ pc[r] = "insert"
  /\ \/ WithEmail(body[r].email) = {} /\ Store(r)
     \/ \E i \in WithEmail(body[r].email) :
          /\ users' = [users EXCEPT ![i].password = body[r].password]
          /\ Answer(r, "created")
          /\ UNCHANGED <<tokens, body, token, seen, held>>

\* With a unique index on email the second INSERT fails (Fail); nothing in the
\* code relies on one.
InsertUser(r) == pc[r] = "insert" /\ Store(r)

-----------------------------------------------------------------------------
(* AuthService.login *)

\* Mutation of Found: the WHERE clause is missing.
FoundAny(r) == Registered

\* Rows the SELECT of a login returns; rows[0] is any of them.
Found(r) == WithEmail(body[r].email)

SelectUser(r) ==
  /\ pc[r] = "select"
  /\ \/ /\ Found(r) = {}
        /\ Answer(r, "invalid") /\ UNCHANGED seen
     \/ \E i \in Found(r) :
          IF users[i].status = "ACTIVE"
          THEN /\ Goto(r, "compare")
               /\ seen' = [seen EXCEPT ![r] = [id |-> i, row |-> users[i]]]
          ELSE Answer(r, "locked") /\ UNCHANGED seen
  /\ UNCHANGED <<users, tokens, body, token, held>>

\* bcrypt.compare, then the token of what was selected.
Compare(r) ==
  /\ pc[r] = "compare"
  /\ IF seen[r].row.password = body[r].password
     THEN /\ tokens' = tokens \cup {[user |-> seen[r].id, role |-> seen[r].row.role]}
          /\ Answer(r, "welcome")
     ELSE Answer(r, "invalid") /\ UNCHANGED tokens
  /\ UNCHANGED <<users, body, token, seen, held>>

-----------------------------------------------------------------------------
(* Requests that carry a token *)

\* Mutation of MayPass: the guard is missing on the controller.
MayAlwaysPass(t, step) == TRUE

\* JwtAuthGuard, then RolesGuard: me is for everybody, administration is not.
MayPass(t, step) == step = "admin" => t.role = "ADMIN"

\* No token, a token that does not verify, or an expired one.
Unauthorized(r) ==
  /\ pc[r] = "start"
  /\ Answer(r, "unauthorized")
  /\ UNCHANGED <<users, tokens, body, token, seen, held>>

Guard(r, step) ==
  /\ pc[r] = "start"
  /\ \E t \in tokens :
       /\ token' = [token EXCEPT ![r] = t]
       /\ IF MayPass(t, step) THEN Goto(r, step) ELSE Answer(r, "forbidden")
  /\ UNCHANGED <<users, tokens, body, seen, held>>

\* AuthService.me.
Me(r) ==
  /\ pc[r] = "me"
  /\ Answer(r, IF users[token[r].user].status = "ACTIVE" THEN "profile" ELSE "locked")
  /\ UNCHANGED <<users, tokens, body, token, seen, held>>

\* The handler of an administrator's request.
Administer(r) ==
  /\ pc[r] = "admin"
  /\ Answer(r, "administered")
  /\ UNCHANGED <<users, tokens, body, token, seen, held>>

-----------------------------------------------------------------------------
\* A registration or a login arrives; neither is guarded.
Arrive(r, step) ==
  /\ pc[r] = "start"
  /\ Goto(r, step)
  /\ UNCHANGED <<users, tokens, body, token, seen, held>>

Request(r) ==
  \/ Arrive(r, "check") \/ CheckEmail(r) \/ Hash(r) \/ InsertUser(r)
  \/ Arrive(r, "select") \/ SelectUser(r) \/ Compare(r)
  \/ Unauthorized(r) \/ Guard(r, "me") \/ Guard(r, "admin")
  \/ Me(r) \/ Administer(r) \/ Fail(r)

\* An operator changes a row by SQL.
SetRole(i, role) ==
  /\ users' = [users EXCEPT ![i].role = role]
  /\ held' = [held EXCEPT ![i] = @ \cup {role}]
  /\ UNCHANGED <<tokens, pc, body, token, seen, answer>>

SetStatus(i, status) ==
  /\ users' = [users EXCEPT ![i].status = status]
  /\ UNCHANGED <<tokens, pc, body, token, seen, answer, held>>

\* JWT_EXPIRES_IN has passed.
Expire(t) ==
  /\ tokens' = tokens \ {t}
  /\ UNCHANGED <<users, pc, body, token, seen, answer, held>>

Next ==
  \/ \E r \in Requests : Request(r)
  \/ \E i \in Registered, role \in {"ADMIN", "USER"} : SetRole(i, role)
  \/ \E i \in Registered, status \in {"ACTIVE", "LOCKED"} : SetStatus(i, status)
  \/ \E t \in tokens : Expire(t)

Spec == Init /\ [][Next]_vars

-----------------------------------------------------------------------------
(* Properties *)

\* Every variable keeps its type: rows have the two roles and the two statuses
\* the guards know, and every token is of a registered user.
TypeOK ==
  /\ users \in [Ids -> UserRow \cup {NoUser}]
  /\ tokens \subseteq [user: Registered, role: {"ADMIN", "USER"}]
  /\ pc \in [Requests -> {"start", "check", "hash", "insert", "select", "compare",
                          "me", "admin", "done"}]
  /\ body \in [Requests -> Credentials]
  /\ token \in [Requests -> Token \cup {NoUser}]
  /\ seen \in [Requests -> [id: Registered, row: UserRow] \cup {NoUser}]
  /\ answer \in [Requests -> Replies]
  /\ \A r \in Requests : answer[r] = "none" <=> pc[r] # "done"
  /\ held \in [Ids -> SUBSET {"ADMIN", "USER"}]

\* A registration that was answered with 201 stands: whatever is registered
\* after or beside it, its row keeps its email and its password.
RegistrationStands ==
  \A r \in Requests : answer[r] = "created" =>
    /\ users[r] # NoUser
    /\ users[r].email = body[r].email /\ users[r].password = body[r].password

\* A token carries a role its user has had, if not the one of the row by now,
\* and only somebody who was made an administrator has administered anything.
RolesWereHeld ==
  /\ \A t \in tokens : t.role \in held[t.user]
  /\ \A r \in Requests :
       answer[r] = "administered" => "ADMIN" \in held[token[r].user]

\* "Invalid email or password" is said to somebody whose email and password a row
\* has only when another row has the same email: only registrations that raced for
\* the email can keep a user out.
LoginFindsUser ==
  [][\A r \in Requests : answer[r] = "none" /\ answer'[r] = "invalid" =>
       \A i \in WithEmail(body[r].email) :
         users[i].password = body[r].password => WithEmail(body[r].email) # {i}]_vars
=============================================================================
