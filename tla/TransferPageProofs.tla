------------------------- MODULE TransferPageProofs -------------------------
(***************************************************************************)
(* The user is told the truth, and a user who does not try again in doubt  *)
(* pays once per visit of the page: for any bank, any forms and any number *)
(* of submissions, requests and answers lost on the way.                   *)
(***************************************************************************)
EXTENDS TransferPage, FiniteSetTheorems, TLAPS

FormRow(f, k) == transfers[<<Payer[f], k>>]

\* A function changed at one point, point by point.
LEMMA ExceptAt ==
  ASSUME NEW S, NEW T, NEW g \in [S -> T], NEW d, NEW v
  PROVE  \A i \in S : [g EXCEPT ![d] = v][i] = IF i = d THEN v ELSE g[i]
OBVIOUS

\* What the bank does with a request it accepts.
LEMMA AcceptEffect ==
  ASSUME NEW q, Accept(q)
  PROVE  /\ FormRow(q.form, q.key) = NoTransfer
         /\ transfers' = [transfers EXCEPT ![<<Payer[q.form], q.key>>] = Row(q)]
BY DEF Accept, Bank!Transfer, FormRow, Row

-----------------------------------------------------------------------------
(* Types *)

Types ==
  /\ TypeOK
  /\ transfers \in [Index -> TransferRow \cup {NoTransfer}]
  /\ \A f \in Forms : IF key[f] = None THEN keys[f] = {} /\ wanted[f] = None
                                       ELSE key[f] \in keys[f] /\ wanted[f] \in Valid
  /\ \A q \in sent : q.key \in keys[q.form]
  /\ \A a \in answers : a.key \in keys[a.form] /\ (a.code = 201 => a.transfer # NoTransfer)

\* The row of a request is one of a transfer.
LEMMA RowType == ASSUME Types, NEW q \in sent PROVE Row(q) \in TransferRow
BY PageAssumption, SMT DEF Types, TypeOK, Row, TransferRow, Valid, Used

\* What serving a request does to the table and to the answers.
Served(q, stored, code, row) ==
  /\ IF stored THEN /\ FormRow(q.form, q.key) = NoTransfer
                    /\ transfers' = [transfers EXCEPT ![<<Payer[q.form], q.key>>] = Row(q)]
               ELSE transfers' = transfers
  /\ answers' = answers \cup {[form |-> q.form, key |-> q.key, code |-> code,
                               transfer |-> row]}
  /\ code = 201 => stored /\ row = Row(q)
  /\ code = 400 => ~stored
  /\ code # 201 => row = NoTransfer
  /\ sent' = sent \ {q}
  /\ UNCHANGED <<phase, key, wanted, shown, keys>>

\* Each outcome of Serve in the form of Served.
LEMMA ServeEffect ==
  ASSUME NEW q \in sent, Serve(q)
  PROVE  \E stored \in BOOLEAN, code \in {201, 400, 500}, row \in {Row(q), NoTransfer} :
           Served(q, stored, code, row)
<1>1. CASE Accept(q) /\ Reply(q, 201, Row(q))
  <2>1. Served(q, TRUE, 201, Row(q)) BY <1>1, AcceptEffect, SMT DEF Served, Reply
  <2> QED BY <2>1
<1>2. CASE UNCHANGED tables /\ Reply(q, 400, NoTransfer)
  <2>1. Served(q, FALSE, 400, NoTransfer) BY <1>2, SMT DEF Served, Reply, tables
  <2> QED BY <2>1
<1>3. CASE Accept(q) /\ Reply(q, 500, NoTransfer)
  <2>1. Served(q, TRUE, 500, NoTransfer) BY <1>3, AcceptEffect, SMT DEF Served, Reply
  <2> QED BY <2>1
<1>4. CASE UNCHANGED tables /\ Reply(q, 500, NoTransfer)
  <2>1. Served(q, FALSE, 500, NoTransfer) BY <1>4, SMT DEF Served, Reply, tables
  <2> QED BY <2>1
<1> QED BY <1>1, <1>2, <1>3, <1>4, Zenon DEF Serve

\* No step breaks the types.
LEMMA TypesStep == ASSUME Types, [Next]_vars PROVE Types'
<1> USE PageAssumption, TablesAssumption DEF tables
<1>1. ASSUME NEW f \in Forms, Submit(f) PROVE Types'
  <2>1. PICK k \in Keys, body \in Valid : Post(f, k, body) BY <1>1 DEF Submit
  <2>2. Used' = Used \cup {k} BY <2>1, SMT DEF Post, Used, Types, TypeOK
  <2>3. /\ keys' \in [Forms -> SUBSET Keys]
        /\ \A g \in Forms : keys'[g] = IF g = f THEN keys[f] \cup {k} ELSE keys[g]
    BY <2>1, SMT DEF Post, Types, TypeOK
  <2>4. \A g \in Forms \ {f} : k \notin keys[g] BY <2>1, SMT DEF Post, Used
  <2>5. \A g, h \in Forms : g # h => keys'[g] \cap keys'[h] = {}
    BY <2>3, <2>4, SMT DEF Types, TypeOK
  <2>6. sent' \subseteq [form: Forms, key: Used', body: Valid]
    BY <2>1, <2>2, SMT DEF Post, Types, TypeOK
  <2>7. answers' \subseteq [form: Forms, key: Used', code: {201, 400, 500},
                            transfer: TransferRow \cup {NoTransfer}]
    BY <2>1, <2>2, SMT DEF Post, Types, TypeOK
  <2>8. /\ key' = [key EXCEPT ![f] = k] /\ wanted' = [wanted EXCEPT ![f] = body]
        /\ phase' = [phase EXCEPT ![f] = "pending"]
        /\ UNCHANGED <<transfers, shown, answers>>
        /\ sent' = sent \cup {[form |-> f, key |-> k, body |-> body]}
    BY <2>1, SMT DEF Post
  <2>9. TypeOK' BY <2>3, <2>5, <2>6, <2>7, <2>8, SMT DEF Types, TypeOK
  <2>10. \A q \in sent' : q.key \in keys'[q.form] BY <2>3, <2>8, SMT DEF Types, TypeOK
  <2>11. \A a \in answers' : a.key \in keys'[a.form] /\ (a.code = 201 => a.transfer # NoTransfer)
    BY <2>3, <2>8, SMT DEF Types, TypeOK
  <2> QED BY <2>3, <2>8, <2>9, <2>10, <2>11, SMT DEF Types, TypeOK
<1>2. ASSUME NEW f \in Forms, GiveUp(f) PROVE Types'
  BY <1>2, SMT DEF GiveUp, Types, TypeOK, Used
<1>3. ASSUME NEW q \in sent, Serve(q) PROVE Types'
  <2>1. PICK stored \in BOOLEAN, code \in {201, 400, 500}, row \in {Row(q), NoTransfer} :
          Served(q, stored, code, row)
    BY <1>3, ServeEffect
  <2>2. Row(q) \in TransferRow /\ Row(q) # NoTransfer BY RowType, TablesAssumption
  <2>3. transfers' \in [Index -> TransferRow \cup {NoTransfer}]
    BY <2>1, <2>2, SMT DEF Served, Types
  <2>4. Used' = Used BY <2>1, SMT DEF Served, Used
  <2>5. q.form \in Forms /\ q.key \in Used /\ q.key \in keys[q.form] BY SMT DEF Types, TypeOK
  <2>6. answers' \subseteq [form: Forms, key: Used, code: {201, 400, 500},
                            transfer: TransferRow \cup {NoTransfer}]
    BY <2>1, <2>2, <2>5, SMT DEF Served, Types, TypeOK
  <2>7. \A a \in answers' : a.key \in keys[a.form] /\ (a.code = 201 => a.transfer # NoTransfer)
    BY <2>1, <2>2, <2>5, SMT DEF Served, Types, TypeOK
  <2> QED BY <2>1, <2>3, <2>4, <2>6, <2>7, SMT DEF Served, Types, TypeOK
<1>4. ASSUME NEW q \in sent, Drop(q) PROVE Types'
  BY <1>4, SMT DEF Drop, Types, TypeOK, Used
<1>5. ASSUME NEW a \in answers, Receive(a) PROVE Types'
  BY <1>5, SMT DEF Receive, Awaited, Outcome, Types, TypeOK, Used
<1>6. ASSUME NEW a \in answers, DropAnswer(a) PROVE Types'
  BY <1>6, SMT DEF DropAnswer, Types, TypeOK, Used
<1>7. CASE UNCHANGED vars BY <1>7, SMT DEF vars, Types, TypeOK, Used
<1> QED BY <1>1, <1>2, <1>3, <1>4, <1>5, <1>6, <1>7 DEF Next

\* The types, always.
LEMMA AlwaysTypes == Spec => []Types
<1>1. Init => Types
  <2> SUFFICES ASSUME Init PROVE Types OBVIOUS
  <2>1. transfers \in [Index -> TransferRow \cup {NoTransfer}]
    BY SMT DEF Init, Bank!Init, Index, Bank!Index
  <2>2. TypeOK BY PageAssumption, SMT DEF Init, TypeOK, Used
  <2> QED BY <2>1, <2>2, SMT DEF Init, Types
<1>2. Types /\ [Next]_vars => Types' BY TypesStep
<1> QED BY <1>1, <1>2, PTL DEF Spec

\* Every variable keeps its type, and the keys of two forms stay apart.
THEOREM TypeCorrect == Spec => []TypeOK
<1>1. Types => TypeOK BY DEF Types
<1> QED BY <1>1, AlwaysTypes, PTL

-----------------------------------------------------------------------------
(* What a key stands for *)

\* A request is served once: its key names no row and has no answer yet, and
\* while it is on its way its form waits or has given up.
Unserved ==
  /\ \A q \in sent : FormRow(q.form, q.key) = NoTransfer
  /\ \A q, r \in sent : q.key = r.key => q = r
  /\ \A q \in sent, a \in answers : q.key # a.key
  /\ \A q \in sent : q.key = key[q.form] =>
       q.body = wanted[q.form] /\ phase[q.form] \in {"pending", "unclear"}

Unused == \A u \in Users, k \in Keys \ Used : transfers[<<u, k>>] = NoTransfer

\* Answers on their way are true.
Answered ==
  \A a \in answers :
    /\ a.code = 201 => /\ a.transfer = FormRow(a.form, a.key)
                       /\ a.key = key[a.form] => a.transfer.body = wanted[a.form]
    /\ a.code = 400 => FormRow(a.form, a.key) = NoTransfer
    /\ a.code # 201 => a.transfer = NoTransfer

\* A cautious user submits again only when nothing was stored before.
Past ==
  \A f \in Cautious : \A k \in keys[f] \ {key[f]} :
    FormRow(f, k) = NoTransfer /\ \A q \in sent : q.key # k

Story == Unserved /\ Unused /\ Answered /\ UserIsToldTheTruth /\ Past

\* A submission, form by form.
LEMMA PostEffect ==
  ASSUME Types, NEW f \in Forms, NEW k \in Keys, NEW body \in Valid, Post(f, k, body)
  PROVE  /\ \A g \in Forms : k \notin keys[g]
         /\ \A g \in Forms : /\ keys'[g] = IF g = f THEN keys[f] \cup {k} ELSE keys[g]
                             /\ key'[g] = IF g = f THEN k ELSE key[g]
                             /\ wanted'[g] = IF g = f THEN body ELSE wanted[g]
                             /\ phase'[g] = IF g = f THEN "pending" ELSE phase[g]
         /\ sent' = sent \cup {[form |-> f, key |-> k, body |-> body]}
         /\ UNCHANGED <<transfers, shown, answers>>
         /\ k \notin Used /\ Used' = Used \cup {k}
<1>1. /\ k \notin Used
      /\ keys' = [keys EXCEPT ![f] = @ \cup {k}] /\ key' = [key EXCEPT ![f] = k]
      /\ wanted' = [wanted EXCEPT ![f] = body] /\ phase' = [phase EXCEPT ![f] = "pending"]
      /\ sent' = sent \cup {[form |-> f, key |-> k, body |-> body]}
      /\ UNCHANGED <<transfers, shown, answers>>
  BY DEF Post, tables
<1>2. \A g \in Forms : k \notin keys[g] BY <1>1, SMT DEF Used
<1>3. Used' = Used \cup {k} BY <1>1, SMT DEF Used, Types, TypeOK
<1> QED BY <1>1, <1>2, <1>3, SMT DEF Types, TypeOK

\* A served request, row by row; a key belongs to one form.
LEMMA ServedEffect ==
  ASSUME Types, Unserved, NEW q \in sent, NEW stored \in BOOLEAN,
         NEW code \in {201, 400, 500}, NEW row \in {Row(q), NoTransfer},
         Served(q, stored, code, row)
  PROVE  /\ \A f \in Forms, k \in Keys :
              FormRow(f, k)' = IF stored /\ k = q.key /\ Payer[f] = Payer[q.form]
                               THEN Row(q) ELSE FormRow(f, k)
         /\ \A f \in Forms : q.key \in keys[f] => f = q.form
         /\ q.form \in Forms /\ q.key \in Keys
<1>1. q.form \in Forms /\ q.key \in Keys /\ q.key \in keys[q.form]
  BY SMT DEF Types, TypeOK, Used
<1>2. Row(q) \in TransferRow BY RowType
<1>3. \A f \in Forms : Payer[f] \in Users BY PageAssumption
<1>4. \A f \in Forms, k \in Keys : <<Payer[f], k>> \in Index BY <1>3 DEF Index
<1>5. \A f \in Forms, k \in Keys :
        FormRow(f, k)' = IF stored /\ k = q.key /\ Payer[f] = Payer[q.form]
                         THEN Row(q) ELSE FormRow(f, k)
  <2>1. CASE stored
    <3>1. transfers' = [transfers EXCEPT ![<<Payer[q.form], q.key>>] = Row(q)]
      BY <2>1 DEF Served
    <3>2. \A i \in Index : transfers'[i] =
            IF i = <<Payer[q.form], q.key>> THEN Row(q) ELSE transfers[i]
      BY <3>1, ExceptAt DEF Types
    <3> QED BY <1>4, <2>1, <3>2, SMT DEF FormRow
  <2>2. CASE ~stored BY <2>2 DEF Served, FormRow
  <2> QED BY <2>1, <2>2
<1> QED BY <1>1, <1>5, SMT DEF Types, TypeOK

\* No step breaks what forms, requests, answers and rows tell about each other.
LEMMA StoryStep == ASSUME Types, Types', Story, [Next]_vars PROVE Story'
<1> USE PageAssumption, TablesAssumption
<1>1. ASSUME NEW f \in Forms, Submit(f) PROVE Story'
  <2>1. PICK k \in Keys, body \in Valid : Post(f, k, body) BY <1>1 DEF Submit
  <2> DEFINE new == [form |-> f, key |-> k, body |-> body]
  <2>2. phase[f] \in {"editing", "refused"} \/ (f \notin Cautious /\ phase[f] = "unclear")
    BY <1>1 DEF Submit
  <2>3. /\ \A g \in Forms : k \notin keys[g]
        /\ \A g \in Forms : /\ keys'[g] = IF g = f THEN keys[f] \cup {k} ELSE keys[g]
                            /\ key'[g] = IF g = f THEN k ELSE key[g]
                            /\ wanted'[g] = IF g = f THEN body ELSE wanted[g]
                            /\ phase'[g] = IF g = f THEN "pending" ELSE phase[g]
        /\ sent' = sent \cup {new}
        /\ UNCHANGED <<transfers, shown, answers>>
        /\ k \notin Used /\ Used' = Used \cup {k}
    BY <2>1, PostEffect, Zenon
  <2>4. FormRow(f, k) = NoTransfer BY <2>3, SMT DEF Story, Unused, FormRow
  <2>5. \A q \in sent : q.form \in Forms /\ q.key \in Used BY SMT DEF Types, TypeOK
  <2>6. \A a \in answers : a.form \in Forms /\ a.key \in Used BY SMT DEF Types, TypeOK
  <2>7. Unserved'
    <3>1. \A q \in sent' : FormRow(q.form, q.key)' = NoTransfer
      BY <2>3, <2>4, SMT DEF Story, Unserved, FormRow
    <3>2. \A q, r \in sent' : q.key = r.key => q = r
      BY <2>3, <2>5, SMT DEF Story, Unserved
    <3>3. \A q \in sent', a \in answers' : q.key # a.key
      BY <2>3, <2>6, SMT DEF Story, Unserved
    <3>4. \A q \in sent' : q.key = key'[q.form] =>
            q.body = wanted'[q.form] /\ phase'[q.form] \in {"pending", "unclear"}
      BY <2>3, <2>5, SMT DEF Story, Unserved
    <3> QED BY <3>1, <3>2, <3>3, <3>4 DEF Unserved
  <2>8. Unused'
    <3>1. \A u \in Users, h \in Keys \ Used : transfers[<<u, h>>] = NoTransfer
      BY DEF Story, Unused
    <3>2. Keys \ Used' \subseteq Keys \ Used /\ transfers' = transfers BY <2>3, SMT
    <3> QED BY <3>1, <3>2, Zenon DEF Unused
  <2>9. Answered' BY <2>3, <2>6, SMT DEF Story, Answered, FormRow
  <2>10. UserIsToldTheTruth' BY <2>3, SMT DEF Story, UserIsToldTheTruth
  <2>11. Past'
    <3>1. f \in Cautious =>
            /\ key[f] = None => keys[f] = {}
            /\ key[f] # None => FormRow(f, key[f]) = NoTransfer /\ \A q \in sent : q.key # key[f]
      <4> SUFFICES ASSUME f \in Cautious, key[f] # None
                   PROVE  FormRow(f, key[f]) = NoTransfer /\ \A q \in sent : q.key # key[f]
        BY SMT DEF Types
      <4>1. phase[f] = "refused" BY <2>2, SMT DEF Types, TypeOK
      <4>2. FormRow(f, key[f]) = NoTransfer BY <4>1, SMT DEF Story, UserIsToldTheTruth, FormRow
      <4>3. ASSUME NEW q \in sent, q.key = key[f] PROVE FALSE
        <5>1. q.form = f BY <4>3, SMT DEF Types, TypeOK
        <5> QED BY <4>1, <4>3, <5>1, SMT DEF Story, Unserved
      <4> QED BY <4>2, <4>3
    <3>2. ASSUME NEW g \in Cautious, NEW h \in keys'[g] \ {key'[g]}
          PROVE  FormRow(g, h) = NoTransfer /\ \A q \in sent : q.key # h
      <4>1. CASE g = f BY <2>3, <3>1, <3>2, <4>1, SMT DEF Story, Past
      <4>2. CASE g # f BY <2>3, <3>2, <4>2, SMT DEF Story, Past
      <4> QED BY <4>1, <4>2
    <3>3. \A g \in Cautious : \A h \in keys'[g] \ {key'[g]} : h # k
      BY <2>3, SMT
    <3> QED BY <2>3, <3>2, <3>3, SMT DEF Past, FormRow
  <2> QED BY <2>7, <2>8, <2>9, <2>10, <2>11 DEF Story
<1>2. ASSUME NEW f \in Forms, GiveUp(f) PROVE Story'
  BY <1>2, SMT DEF GiveUp, tables, Types, TypeOK, Used, FormRow, Story, Unserved, Unused,
                   Answered, UserIsToldTheTruth, Past
<1>3. ASSUME NEW q \in sent, Serve(q) PROVE Story'
  <2>1. PICK stored \in BOOLEAN, code \in {201, 400, 500}, row \in {Row(q), NoTransfer} :
          Served(q, stored, code, row)
    BY <1>3, ServeEffect
  <2> DEFINE new == [form |-> q.form, key |-> q.key, code |-> code, transfer |-> row]
  <2>2. /\ answers' = answers \cup {new} /\ sent' = sent \ {q}
        /\ UNCHANGED <<phase, key, wanted, shown, keys>>
        /\ code = 201 => stored /\ row = Row(q)
        /\ code = 400 => ~stored
        /\ code # 201 => row = NoTransfer
    BY <2>1 DEF Served
  <2>3. /\ \A f \in Forms, k \in Keys :
              FormRow(f, k)' = IF stored /\ k = q.key /\ Payer[f] = Payer[q.form]
                               THEN Row(q) ELSE FormRow(f, k)
        /\ \A f \in Forms : q.key \in keys[f] => f = q.form
        /\ q.form \in Forms /\ q.key \in Keys
    BY <2>1, ServedEffect DEF Story
  <2>4. Row(q).body = q.body /\ FormRow(q.form, q.key) = NoTransfer
    BY SMT DEF Story, Unserved, Row
  <2>5. \A r \in sent \ {q} : r.key # q.key /\ r.form \in Forms /\ r.key \in Keys
    BY SMT DEF Story, Unserved, Types, TypeOK, Used
  <2>6. \A a \in answers : a.key # q.key /\ a.form \in Forms /\ a.key \in Keys
    BY SMT DEF Story, Unserved, Types, TypeOK, Used
  <2>7. Unserved' BY <2>2, <2>3, <2>5, SMT DEF Story, Unserved
  <2>8. Unused'
    <3>1. \A i \in Index : i[2] # q.key => transfers'[i] = transfers[i]
      BY <2>1, SMT DEF Served, Types
    <3>2. q.key \in Used /\ Used' = Used BY <2>2, SMT DEF Used, Types, TypeOK
    <3>3. ASSUME NEW u \in Users, NEW k \in Keys \ Used'
          PROVE  transfers'[<<u, k>>] = NoTransfer
      <4>1. k \in Keys \ Used BY <3>2
      <4>2. <<u, k>> \in Index /\ <<u, k>>[2] # q.key BY <3>2, <4>1, SMT DEF Index
      <4>3. transfers'[<<u, k>>] = transfers[<<u, k>>] BY <3>1, <4>2
      <4> QED BY <4>1, <4>3 DEF Story, Unused
    <3> QED BY <3>3 DEF Unused
  <2>9. Answered'
    <3>1. ASSUME NEW a \in answers
          PROVE  /\ a.code = 201 => /\ a.transfer = FormRow(a.form, a.key)'
                                    /\ a.key = key'[a.form] => a.transfer.body = wanted'[a.form]
                 /\ a.code = 400 => FormRow(a.form, a.key)' = NoTransfer
                 /\ a.code # 201 => a.transfer = NoTransfer
      BY <2>2, <2>3, <2>6, SMT DEF Story, Answered
    <3>2. /\ code = 201 => /\ row = FormRow(q.form, q.key)'
                           /\ q.key = key'[q.form] => row.body = wanted'[q.form]
          /\ code = 400 => FormRow(q.form, q.key)' = NoTransfer
          /\ code # 201 => row = NoTransfer
      BY <2>2, <2>3, <2>4, SMT DEF Story, Unserved
    <3> QED BY <2>2, <3>1, <3>2, SMT DEF Answered
  <2>10. UserIsToldTheTruth'
    <3> SUFFICES ASSUME NEW f \in Forms, phase[f] \in {"paid", "refused"}
                 PROVE  FormRow(f, key[f])' = FormRow(f, key[f])
      BY <2>2, SMT DEF Story, UserIsToldTheTruth, FormRow
    <3>1. key[f] \in keys[f] /\ key[f] \in Keys BY SMT DEF Types, TypeOK
    <3>2. key[f] # q.key BY <2>3, <3>1, SMT DEF Story, Unserved
    <3>3. FormRow(f, key[f])' = transfers'[<<Payer[f], key[f]>>] BY <2>2 DEF FormRow
    <3>4. transfers'[<<Payer[f], key[f]>>] = FormRow(f, key[f])
      BY <2>3, <3>1, <3>2 DEF FormRow
    <3> QED BY <3>3, <3>4
  <2>11. Past'
    <3> SUFFICES ASSUME NEW f \in Cautious, NEW k \in keys[f] \ {key[f]}
                 PROVE  FormRow(f, k)' = NoTransfer /\ \A r \in sent' : r.key # k
      BY <2>2, SMT DEF Past
    <3>1. k \in Keys /\ f \in Forms BY SMT DEF Types, TypeOK
    <3>2. k # q.key /\ FormRow(f, k) = NoTransfer /\ \A r \in sent : r.key # k
      BY SMT DEF Story, Past
    <3>3. FormRow(f, k)' = NoTransfer BY <2>3, <3>1, <3>2, SMT
    <3> QED BY <2>2, <3>2, <3>3, SMT
  <2> QED BY <2>7, <2>8, <2>9, <2>10, <2>11 DEF Story
<1>4. ASSUME NEW q \in sent, Drop(q) PROVE Story'
  BY <1>4, SMT DEF Drop, tables, Used, FormRow, Story, Unserved, Unused, Answered,
                   UserIsToldTheTruth, Past
<1>5. ASSUME NEW a \in answers, Receive(a) PROVE Story'
  <2>1. answers' \subseteq answers /\ UNCHANGED <<transfers, key, wanted, keys, sent>>
    BY <1>5 DEF Receive, tables
  <2>2. Unused' /\ Answered' /\ Past'
    BY <2>1, SMT DEF Story, Unused, Answered, Past, FormRow, Used
  <2>3. CASE ~Awaited(a)
    <3>1. UNCHANGED <<phase, shown>> BY <1>5, <2>3 DEF Receive
    <3>2. Unserved' /\ UserIsToldTheTruth'
      BY <2>1, <3>1, SMT DEF Story, Unserved, UserIsToldTheTruth, FormRow
    <3> QED BY <2>2, <3>2 DEF Story
  <2>4. CASE Awaited(a)
    <3>1. /\ phase' = [phase EXCEPT ![a.form] = Outcome(a.code)]
          /\ shown' = [shown EXCEPT ![a.form] = a.transfer]
          /\ key[a.form] = a.key
      BY <1>5, <2>4 DEF Receive, Awaited
    <3>2. a.form \in Forms /\ a.code \in {201, 400, 500} BY SMT DEF Types, TypeOK
    <3>3. \A f \in Forms : /\ phase'[f] = IF f = a.form THEN Outcome(a.code) ELSE phase[f]
                           /\ shown'[f] = IF f = a.form THEN a.transfer ELSE shown[f]
      BY <3>1, SMT DEF Types, TypeOK
    <3>4. \A q \in sent : q.form \in Forms /\ q.key # a.key
      BY SMT DEF Story, Unserved, Types, TypeOK
    <3>5. Unserved' BY <2>1, <3>1, <3>3, <3>4, SMT DEF Story, Unserved, FormRow
    <3>6. /\ Outcome(a.code) = "paid" => a.code = 201
          /\ Outcome(a.code) = "refused" => a.code = 400
      BY <3>2, SMT DEF Outcome
    <3>7. a.code = 201 => a.transfer # NoTransfer BY SMT DEF Types
    <3>8. UserIsToldTheTruth'
      BY <2>1, <3>1, <3>2, <3>3, <3>6, <3>7, SMT DEF Story, Answered, UserIsToldTheTruth, FormRow
    <3> QED BY <2>2, <3>5, <3>8 DEF Story
  <2> QED BY <2>3, <2>4
<1>6. ASSUME NEW a \in answers, DropAnswer(a) PROVE Story'
  BY <1>6, SMT DEF DropAnswer, tables, Used, FormRow, Story, Unserved, Unused, Answered,
                   UserIsToldTheTruth, Past
<1>7. CASE UNCHANGED vars
  BY <1>7, SMT DEF vars, tables, Used, FormRow, Story, Unserved, Unused, Answered,
                   UserIsToldTheTruth, Past
<1> QED BY <1>1, <1>2, <1>3, <1>4, <1>5, <1>6, <1>7 DEF Next

\* The story, always.
LEMMA AlwaysStory == Spec => []Story
<1>1. Init => Story
  <2> SUFFICES ASSUME Init PROVE Story OBVIOUS
  <2>1. Unused BY SMT DEF Init, Bank!Init, Unused, Bank!Index
  <2>2. Unserved /\ Answered /\ UserIsToldTheTruth /\ Past
    BY PageAssumption, SMT DEF Init, Unserved, Answered, UserIsToldTheTruth, Past
  <2> QED BY <2>1, <2>2 DEF Story
<1>2. Types /\ Types' /\ Story /\ [Next]_vars => Story' BY StoryStep
<1> QED BY AlwaysTypes, <1>1, <1>2, PTL DEF Spec

\* Late, lost and repeated answers never make the page say what is not so.
THEOREM UserAlwaysToldTheTruth == Spec => []UserIsToldTheTruth
<1>1. Story => UserIsToldTheTruth BY DEF Story
<1> QED BY <1>1, AlwaysStory, PTL

\* Whoever does not try again in doubt pays once per visit at most.
THEOREM AlwaysPaidOnce == Spec => []PaidOnce
<1>1. Story => PaidOnce
  <2> SUFFICES ASSUME Story, NEW f \in Cautious PROVE Cardinality(Paid(f)) <= 1
    BY DEF PaidOnce
  <2>1. Paid(f) \in SUBSET {key[f]} BY SMT DEF Story, Past, Paid, FormRow
  <2>2. IsFiniteSet({key[f]}) /\ Cardinality({key[f]}) = 1 BY FS_Singleton
  <2> QED BY <2>1, <2>2, FS_Subset
<1> QED BY <1>1, AlwaysStory, PTL
=============================================================================
