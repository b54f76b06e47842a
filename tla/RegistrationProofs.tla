-------------------------- MODULE RegistrationProofs --------------------------
(***************************************************************************)
(* Proofs about Registration for every set of names, passwords and         *)
(* requests: the inductive invariant IInv and what follows from it.        *)
(***************************************************************************)
EXTENDS Registration, TLAPS

(* A request state is idle or one of the stages, with its form.            *)
LEMMA ReqShapes ==
  ASSUME NEW r \in ReqState
  PROVE  /\ r.stage \in Stages \cup {"idle"}
         /\ r.stage # "idle" => /\ r = At(r.stage, r.form, r.id)
                                /\ r.form \in Form
                                /\ r.id \in 0..MaxUsers
  BY DEF ReqState, Stages, At

LEMMA ShapesAreReqStates ==
  /\ \A s \in Statuses : Idle(s) \in ReqState
  /\ Duplicate \in ReqState
  /\ \A s \in Stages, f \in Form, i \in 0..MaxUsers : At(s, f, i) \in ReqState
  BY DEF ReqState, Idle, Duplicate, At, Statuses

(* What GoTo makes of a request that is not idle.                          *)
LEMMA GoToIsAt ==
  ASSUME TypeOK, NEW p \in Requests, req[p].stage # "idle",
         NEW s \in Stages, GoTo(p, s)
  PROVE  Answer(p, At(s, req[p].form, req[p].id))
<1>1. req[p] = At(req[p].stage, req[p].form, req[p].id)
  BY ReqShapes DEF TypeOK
<1>2. [req[p] EXCEPT !.stage = s] = At(s, req[p].form, req[p].id)
  BY <1>1 DEF At
<1>3. QED
  BY <1>2 DEF GoTo, Answer

LEMMA AnswerTypes ==
  ASSUME TypeOK, NEW p \in Requests, NEW r \in ReqState, Answer(p, r)
  PROVE  req' \in [Requests -> ReqState]
  BY DEF TypeOK, Answer

LEMMA UserOfIsUser == \A f \in Form : UserOf(f) \in User
  BY DEF Form, User, UserOf

-----------------------------------------------------------------------------
LEMMA InitIInv == Init => IInv
<1> SUFFICES ASSUME Init PROVE IInv
  OBVIOUS
<1>1. TypeOK
  <2>1. Idle(0) \in ReqState
    BY ShapesAreReqStates DEF Statuses
  <2>2. 1 \in 1..(MaxUsers + 1)
    BY RegistrationAssumption
  <2>3. QED
    BY <2>1, <2>2 DEF Init, TypeOK
<1>2. Committed = {} /\ Open = {}
  BY DEF Init, Committed, Open
<1>3. \A p \in Requests : req[p].stage = "idle"
  BY DEF Init, Idle
<1>4. QED
  BY <1>1, <1>2, <1>3 DEF Init, IInv, AccountsAreWhole, UsersAreUnique,
     TransactionMatches, TransactionsAreApart, InTransaction

-----------------------------------------------------------------------------
(* Steps that touch neither the tables nor the transactions, and move one  *)
(* request between stages that own no transaction.                         *)
Outside == (Stages \cup {"idle"}) \ InTransaction

LEMMA OutsideStep ==
  ASSUME IInv, NEW p \in Requests, NEW r \in ReqState,
         req[p].stage \in Outside, r.stage \in Outside \ {"token"},
         Answer(p, r), UNCHANGED <<tables, nextId, tx>>, taken' \subseteq Requests,
         \A a \in accepted' : a \in Ids \X Form /\ Registered(a[1], a[2])
  PROVE  IInv'
<1>1. TypeOK'
  BY AnswerTypes DEF IInv, TypeOK, tables
<1>2. Committed' = Committed /\ Open' = Open
  BY DEF Committed, Open, tables
<1>3. \A i, f : Registered(i, f)' <=> Registered(i, f)
  BY <1>2 DEF Registered, tables
<1>4. AccountsAreWhole' /\ UsersAreUnique' /\ TransactionsAreApart'
  BY <1>2 DEF IInv, AccountsAreWhole, UsersAreUnique, TransactionsAreApart, tables
<1>5. \A q \in Requests : TransactionMatches(q)'
  <2> SUFFICES ASSUME NEW q \in Requests
               PROVE  TransactionMatches(q)'
    OBVIOUS
  <2>1. CASE q = p
    <3>1. req'[p] = r
      BY DEF Answer, IInv, TypeOK
    <3>2. p \notin Open
      BY DEF IInv, TransactionMatches, Outside
    <3>3. QED
      BY <2>1, <3>1, <3>2, <1>2 DEF Outside, TransactionMatches
  <2>2. CASE q # p
    <3>1. req'[q] = req[q]
      BY <2>2 DEF Answer, IInv, TypeOK
    <3>2. QED
      BY <3>1, <1>2, <1>3 DEF IInv, TransactionMatches
  <2>3. QED
    BY <2>1, <2>2
<1>6. (\A i \in Committed : i < nextId)' /\ (\A a \in accepted : Registered(a[1], a[2]))'
  BY <1>2, <1>3 DEF IInv
<1>7. QED
  BY <1>1, <1>4, <1>5, <1>6 DEF IInv

-----------------------------------------------------------------------------
(* Steps inside a transaction.                                             *)
LEMMA InsertUserStep ==
  ASSUME IInv, NEW p \in Requests, InsertUser(p)
  PROVE  IInv'
<1> DEFINE form == req[p].form
           row  == [id |-> nextId, user |-> UserOf(form),
                    password |-> NoPassword, provider |-> NoProvider]
<1>1. form \in Form /\ nextId \in Ids /\ p \notin Open
  BY ReqShapes DEF IInv, TypeOK, InsertUser, TransactionMatches, InTransaction
<1>2. row \in Tx /\ At("insertCredential", form, nextId) \in ReqState
  BY <1>1, UserOfIsUser, ShapesAreReqStates, RegistrationAssumption DEF Tx, Ids, Stages
<1>3. row # NoTx
  BY <1>2, RegistrationAssumption
<1>4. /\ tx' = [tx EXCEPT ![p] = row]
      /\ nextId' = nextId + 1
      /\ Answer(p, At("insertCredential", form, nextId))
      /\ UNCHANGED <<tables, accepted, taken>>
  BY DEF InsertUser
<1> HIDE DEF row, form
<1>5. TypeOK'
  BY <1>1, <1>2, <1>4, AnswerTypes, RegistrationAssumption DEF IInv, TypeOK, tables, Ids
<1>6. Committed' = Committed /\ Open' = Open \cup {p}
  BY <1>3, <1>4 DEF Committed, Open, tables, IInv, TypeOK
<1>7. /\ \A q \in Requests \ {p} : tx'[q] = tx[q] /\ req'[q] = req[q]
      /\ tx'[p] = row /\ req'[p] = At("insertCredential", form, nextId)
  BY <1>4 DEF IInv, TypeOK, Answer
<1>8. AccountsAreWhole' /\ UsersAreUnique'
  BY <1>4, <1>6 DEF IInv, AccountsAreWhole, UsersAreUnique, tables
<1>9. \A i, f : Registered(i, f)' <=> Registered(i, f)
  BY <1>4, <1>6 DEF Registered, tables
<1>10. \A q \in Requests : TransactionMatches(q)'
  <2> SUFFICES ASSUME NEW q \in Requests PROVE TransactionMatches(q)'
    OBVIOUS
  <2>1. CASE q = p
    BY <2>1, <1>6, <1>7 DEF TransactionMatches, At, InTransaction, row, Open
  <2>2. CASE q # p
    BY <2>2, <1>6, <1>7, <1>9 DEF IInv, TransactionMatches
  <2>3. QED
    BY <2>1, <2>2
<1>11. /\ \A i \in Committed : ~Clash(users[i], row.user)
       /\ \A q \in Open : ~Clash(tx[q].user, row.user)
  BY DEF InsertUser, Taken, Pending, Clash, UserOf, row, form
<1>12. nextId \in Nat /\ \A q \in Open : tx[q].id \in Nat /\ tx[q].id < nextId
  BY RegistrationAssumption DEF IInv, TypeOK, TransactionsAreApart, Open, Tx, Ids
<1>13. nextId \notin Committed
  BY <1>12 DEF IInv
<1>14. TransactionsAreApart'
  <2> SUFFICES ASSUME NEW q \in Open \cup {p}
               PROVE  /\ tx'[q].id < nextId' /\ tx'[q].id \notin Committed
                      /\ \A i \in Committed : ~Clash(users[i], tx'[q].user)
                      /\ \A o \in Open \cup {p} : q # o =>
                           tx'[q].id # tx'[o].id /\ ~Clash(tx'[q].user, tx'[o].user)
    BY <1>4, <1>6 DEF TransactionsAreApart, tables, Clash
  <2>0. row.id = nextId
    BY DEF row
  <2>1. CASE q = p
    BY <2>0, <2>1, <1>4, <1>7, <1>11, <1>12, <1>13 DEF Open, Clash
  <2>2. CASE q # p
    <3>1. q \in Open /\ tx'[q] = tx[q]
      BY <2>2, <1>7 DEF Open
    <3>2. ASSUME NEW o \in Open \cup {p}, q # o
          PROVE  tx'[q].id # tx'[o].id /\ ~Clash(tx'[q].user, tx'[o].user)
      <4>1. CASE o = p
        BY <2>0, <4>1, <3>1, <1>7, <1>11, <1>12
      <4>2. CASE o # p
        BY <4>2, <3>1, <3>2, <1>7 DEF IInv, TransactionsAreApart, Open
      <4>3. QED
        BY <4>1, <4>2
    <3>3. QED
      BY <3>1, <3>2, <1>4, <1>12 DEF IInv, TransactionsAreApart
  <2>3. QED
    BY <2>1, <2>2
<1>15. (\A i \in Committed : i < nextId)' /\ (\A a \in accepted : Registered(a[1], a[2]))'
  <2>1. \A i \in Committed : i < nextId + 1
    BY <1>12, RegistrationAssumption DEF IInv, Committed, Ids
  <2>2. QED
    BY <2>1, <1>4, <1>6, <1>9 DEF IInv
<1>16. QED
  BY <1>5, <1>8, <1>10, <1>14, <1>15 DEF IInv

(* The two other inserts: the transaction of p goes on with the same id    *)
(* and the same user.                                                      *)
LEMMA InsertDetailStep ==
  ASSUME IInv, NEW p \in Requests, InsertCredential(p) \/ InsertProvider(p)
  PROVE  IInv'
<1> DEFINE form == req[p].form
           next == IF req[p].stage = "insertCredential" THEN "insertProvider" ELSE "commit"
<1>1. p \in Open /\ tx[p] \in Tx /\ form \in Form /\ req[p].id \in 0..MaxUsers
      /\ req[p].stage \in {"insertCredential", "insertProvider"}
  BY ReqShapes
     DEF IInv, TypeOK, InsertCredential, InsertProvider, TransactionMatches, InTransaction, Open
<1>2. Answer(p, At(next, form, req[p].id))
  BY <1>1, GoToIsAt DEF IInv, InsertCredential, InsertProvider, Stages
<1>3. /\ tx' = [tx EXCEPT ![p] = tx'[p]]
      /\ tx'[p] \in Tx
      /\ tx'[p].id = tx[p].id /\ tx'[p].user = tx[p].user
      /\ tx'[p].password = form.password
      /\ next = "commit" => tx'[p].provider = form.username
  <2>1. CASE InsertCredential(p)
    <3>1. tx' = [tx EXCEPT ![p] = [tx[p] EXCEPT !.password = form.password]]
      BY <2>1 DEF InsertCredential
    <3>2. tx'[p] = [tx[p] EXCEPT !.password = form.password]
      BY <3>1 DEF IInv, TypeOK
    <3>3. form.password \in Passwords /\ next # "commit"
      BY <1>1, <2>1 DEF Form, InsertCredential
    <3>4. tx'[p] \in Tx /\ tx'[p].id = tx[p].id /\ tx'[p].user = tx[p].user
          /\ tx'[p].password = form.password
      BY <1>1, <3>2, <3>3 DEF Tx
    <3>5. tx' = [tx EXCEPT ![p] = tx'[p]]
      BY <3>1, <3>2 DEF IInv, TypeOK
    <3>6. QED
      BY <3>3, <3>4, <3>5
  <2>2. CASE InsertProvider(p)
    <3>1. tx' = [tx EXCEPT ![p] = [tx[p] EXCEPT !.provider = form.username]]
      BY <2>2 DEF InsertProvider
    <3>2. tx'[p] = [tx[p] EXCEPT !.provider = form.username]
      BY <3>1 DEF IInv, TypeOK
    <3>3. form.username \in Usernames
      BY <1>1 DEF Form
    <3>4. tx[p].password = form.password
      BY <1>1, <2>2 DEF IInv, TransactionMatches, InsertProvider
    <3>5. tx'[p] \in Tx /\ tx'[p].id = tx[p].id /\ tx'[p].user = tx[p].user
          /\ tx'[p].password = tx[p].password /\ tx'[p].provider = form.username
      BY <1>1, <3>2, <3>3 DEF Tx
    <3>6. tx' = [tx EXCEPT ![p] = tx'[p]]
      BY <3>1, <3>2 DEF IInv, TypeOK
    <3>7. QED
      BY <3>4, <3>5, <3>6
  <2>3. QED
    BY <2>1, <2>2
<1>4. UNCHANGED <<tables, nextId, accepted, taken>>
  BY DEF InsertCredential, InsertProvider, tables
<1>5. next \in {"insertProvider", "commit"} /\ At(next, form, req[p].id) \in ReqState
  BY <1>1, ShapesAreReqStates DEF Stages
<1> HIDE DEF form, next
<1>6. TypeOK'
  BY <1>2, <1>3, <1>4, <1>5, AnswerTypes DEF IInv, TypeOK, tables
<1>7. Committed' = Committed /\ Open' = Open
  BY <1>1, <1>3, <1>4, RegistrationAssumption DEF Committed, Open, tables, IInv, TypeOK
<1>8. /\ \A q \in Requests \ {p} : tx'[q] = tx[q] /\ req'[q] = req[q]
      /\ req'[p] = At(next, form, req[p].id)
  BY <1>2, <1>3 DEF IInv, TypeOK, Answer
<1>9. \A i, f : Registered(i, f)' <=> Registered(i, f)
  BY <1>4, <1>7 DEF Registered, tables
<1>10. \A q \in Requests : TransactionMatches(q)'
  <2> SUFFICES ASSUME NEW q \in Requests PROVE TransactionMatches(q)'
    OBVIOUS
  <2>1. CASE q = p
    BY <2>1, <1>1, <1>3, <1>5, <1>7, <1>8
       DEF IInv, TransactionMatches, At, InTransaction, form
  <2>2. CASE q # p
    BY <2>2, <1>7, <1>8, <1>9 DEF IInv, TransactionMatches
  <2>3. QED
    BY <2>1, <2>2
<1>11. \A q \in Open : tx'[q].id = tx[q].id /\ tx'[q].user = tx[q].user
  BY <1>3, <1>8 DEF Open
<1>12. AccountsAreWhole' /\ UsersAreUnique' /\ TransactionsAreApart'
  BY <1>4, <1>7, <1>11
     DEF IInv, AccountsAreWhole, UsersAreUnique, TransactionsAreApart, tables, Clash
<1>13. (\A i \in Committed : i < nextId)' /\ (\A a \in accepted : Registered(a[1], a[2]))'
  BY <1>4, <1>7, <1>9 DEF IInv
<1>14. QED
  BY <1>6, <1>10, <1>12, <1>13 DEF IInv

(* The transaction of p takes effect.                                      *)
LEMMA CommitStep ==
  ASSUME IInv, NEW p \in Requests, Commit(p) \/ CommitUnanswered(p)
  PROVE  IInv'
<1> DEFINE form == req[p].form
           id   == req[p].id
<1>1. p \in Open /\ tx[p] \in Tx /\ form \in Form /\ id \in Ids
  <2>1. p \in Open /\ tx[p] \in Tx /\ form \in Form
    BY ReqShapes
       DEF IInv, TypeOK, Commit, CommitUnanswered, TransactionMatches, InTransaction, Open
  <2>2. QED
    BY <2>1 DEF IInv, TransactionMatches, Tx
<1>2. /\ tx[p].id = id /\ tx[p].user = UserOf(form)
      /\ tx[p].password = form.password /\ tx[p].provider = form.username
  BY <1>1 DEF IInv, TransactionMatches, Commit, CommitUnanswered
<1>3. \E r \in {At("token", form, id), Idle(500)} : Answer(p, r)
  <2>1. CASE Commit(p)
    BY <2>1, GoToIsAt DEF Commit, IInv, Stages
  <2>2. CASE CommitUnanswered(p)
    BY <2>2 DEF CommitUnanswered
  <2>3. QED
    BY <2>1, <2>2
<1>4. PICK r \in {At("token", form, id), Idle(500)} : Answer(p, r)
  BY <1>3
<1>5. r \in ReqState
  BY <1>1, ShapesAreReqStates DEF Ids, Stages, Statuses
<1>6. /\ users' = [users EXCEPT ![id] = UserOf(form)]
      /\ credentials' = [credentials EXCEPT ![id] = form.password]
      /\ providers' = [providers EXCEPT ![id] = form.username]
      /\ tx' = [tx EXCEPT ![p] = NoTx]
      /\ UNCHANGED <<nextId, accepted, taken>>
  BY <1>2 DEF Commit, CommitUnanswered, Apply
<1>7. UserOf(form) \in User /\ form.password \in Passwords /\ form.username \in Usernames
  BY <1>1, UserOfIsUser DEF Form
<1>8. /\ r.stage \in {"token", "idle"}
      /\ r.stage = "token" => r.form = form /\ r.id = id
  BY <1>4 DEF At, Idle
<1> HIDE DEF form, id
<1>9. TypeOK'
  BY <1>1, <1>4, <1>5, <1>6, <1>7, AnswerTypes DEF IInv, TypeOK
<1>10. Committed' = Committed \cup {id} /\ Open' = Open \ {p}
  BY <1>1, <1>6, <1>7, RegistrationAssumption DEF Committed, Open, IInv, TypeOK
<1>11. id \notin Committed /\ id < nextId
  BY <1>1, <1>2 DEF IInv, TransactionsAreApart
<1>12. /\ \A i \in Ids \ {id} : /\ users'[i] = users[i]
                              /\ credentials'[i] = credentials[i]
                              /\ providers'[i] = providers[i]
       /\ users'[id] = UserOf(form)
       /\ credentials'[id] = form.password
       /\ providers'[id] = form.username
  BY <1>1, <1>6 DEF IInv, TypeOK
<1>13. /\ \A q \in Requests \ {p} : tx'[q] = tx[q] /\ req'[q] = req[q]
       /\ req'[p] = r
  BY <1>4, <1>6 DEF IInv, TypeOK, Answer
<1>14. \A i, f : Registered(i, f) \/ (i = id /\ f = form) => Registered(i, f)'
  <2>1. Committed \subseteq Ids
    BY DEF Committed
  <2>2. QED
    BY <2>1, <1>10, <1>11, <1>12 DEF Registered
<1>15. AccountsAreWhole'
  <2> SUFFICES ASSUME NEW i \in Ids
               PROVE  /\ i \in Committed' => /\ credentials'[i] # NoPassword
                                             /\ providers'[i] = users'[i].username
                      /\ i \notin Committed' => /\ credentials'[i] = NoPassword
                                                /\ providers'[i] = NoProvider
    BY DEF AccountsAreWhole
  <2>1. CASE i = id
    BY <2>1, <1>7, <1>10, <1>12, RegistrationAssumption DEF UserOf
  <2>2. CASE i # id
    BY <2>2, <1>10, <1>12 DEF IInv, AccountsAreWhole
  <2>3. QED
    BY <2>1, <2>2
<1>16. \A i \in Committed : ~Clash(users[i], UserOf(form))
  BY <1>1, <1>2 DEF IInv, TransactionsAreApart
<1>17. UsersAreUnique'
  <2> SUFFICES ASSUME NEW i \in Committed', NEW j \in Committed', i # j
               PROVE  ~Clash(users'[i], users'[j])
    BY DEF UsersAreUnique, Clash
  <2>1. CASE i # id /\ j # id
    BY <2>1, <1>10, <1>12 DEF IInv, UsersAreUnique, Committed
  <2>2. CASE i = id
    BY <2>2, <1>10, <1>12, <1>16 DEF Committed, Clash
  <2>3. CASE j = id
    BY <2>3, <1>10, <1>12, <1>16 DEF Committed
  <2>4. QED
    BY <2>1, <2>2, <2>3
<1>18. \A q \in Requests : TransactionMatches(q)'
  <2> SUFFICES ASSUME NEW q \in Requests PROVE TransactionMatches(q)'
    OBVIOUS
  <2>1. CASE q = p
    <3>1. req'[q] = r /\ q \notin Open'
      BY <2>1, <1>10, <1>13
    <3>2. r.stage = "token" => Registered(r.id, r.form)'
      BY <1>8, <1>14
    <3>3. QED
      BY <3>1, <3>2, <1>8 DEF TransactionMatches, InTransaction
  <2>2. CASE q # p
    <3>1. tx'[q] = tx[q] /\ req'[q] = req[q] /\ (q \in Open' <=> q \in Open)
      BY <2>2, <1>10, <1>13
    <3>2. TransactionMatches(q)
      BY DEF IInv
    <3>3. QED
      BY <3>1, <3>2, <1>14 DEF TransactionMatches
  <2>3. QED
    BY <2>1, <2>2
<1>19. TransactionsAreApart'
  <2> SUFFICES ASSUME NEW q \in Open \ {p}
               PROVE  /\ tx'[q].id < nextId' /\ tx'[q].id \notin Committed'
                      /\ \A i \in Committed' : ~Clash(users'[i], tx'[q].user)
                      /\ \A o \in Open \ {p} : q # o =>
                           tx'[q].id # tx'[o].id /\ ~Clash(tx'[q].user, tx'[o].user)
    BY <1>10 DEF TransactionsAreApart, Clash
  <2>1. tx'[q] = tx[q] /\ \A o \in Open \ {p} : tx'[o] = tx[o]
    BY <1>13 DEF Open
  <2>2. tx[q].id # id /\ ~Clash(UserOf(form), tx[q].user)
    BY <1>1, <1>2 DEF IInv, TransactionsAreApart
  <2>3. \A i \in Committed' : ~Clash(users'[i], tx'[q].user)
    BY <2>1, <2>2, <1>10, <1>12 DEF IInv, TransactionsAreApart, Committed
  <2>4. QED
    BY <2>1, <2>2, <2>3, <1>6, <1>10 DEF IInv, TransactionsAreApart
<1>20. (\A i \in Committed : i < nextId)' /\ (\A a \in accepted : Registered(a[1], a[2]))'
  BY <1>6, <1>10, <1>11, <1>14 DEF IInv
<1>21. QED
  BY <1>9, <1>15, <1>17, <1>18, <1>19, <1>20 DEF IInv

(* The requests of S end with a status, their transactions rolled back.    *)
LEMMA RollbackStep ==
  ASSUME IInv, NEW S \in SUBSET Requests, NEW status \in Statuses,
         tx' = [q \in Requests |-> IF q \in S THEN NoTx ELSE tx[q]],
         req' = [q \in Requests |-> IF q \in S THEN Idle(status) ELSE req[q]],
         UNCHANGED <<tables, nextId, accepted, taken>>
  PROVE  IInv'
<1>1. TypeOK'
  BY ShapesAreReqStates DEF IInv, TypeOK, tables
<1>2. Committed' = Committed /\ Open' = Open \ S
  BY DEF Committed, Open, tables
<1>3. \A i, f : Registered(i, f)' <=> Registered(i, f)
  BY <1>2 DEF Registered, tables
<1>4. \A q \in Requests : TransactionMatches(q)'
  <2> SUFFICES ASSUME NEW q \in Requests PROVE TransactionMatches(q)'
    OBVIOUS
  <2>1. CASE q \in S
    BY <2>1, <1>2 DEF TransactionMatches, InTransaction, Idle
  <2>2. CASE q \notin S
    BY <2>2, <1>2, <1>3 DEF IInv, TransactionMatches
  <2>3. QED
    BY <2>1, <2>2
<1>5. \A q \in Open \ S : tx'[q] = tx[q]
  BY DEF Open
<1>6. AccountsAreWhole' /\ UsersAreUnique' /\ TransactionsAreApart'
  BY <1>2, <1>5
     DEF IInv, AccountsAreWhole, UsersAreUnique, TransactionsAreApart, tables, Clash
<1>7. (\A i \in Committed : i < nextId)' /\ (\A a \in accepted : Registered(a[1], a[2]))'
  BY <1>2, <1>3 DEF IInv
<1>8. QED
  BY <1>1, <1>4, <1>6, <1>7 DEF IInv

(* A request outside a transaction goes on, or is refused.                 *)
LEMMA LookupStep ==
  ASSUME IInv, NEW p \in Requests,
         \/ GetUserByUsername(p) \/ GetUserByEmail(p) \/ HashPassword(p)
         \/ InsertUserDuplicate(p)
  PROVE  IInv'
<1>1. req[p].form \in Form /\ req[p].id \in 0..MaxUsers /\ req[p].stage # "idle"
  BY ReqShapes DEF IInv, TypeOK, GetUserByUsername, GetUserByEmail,
     HashPassword, InsertUserDuplicate
<1> DEFINE targets == {Idle(409), Duplicate, At("email", req[p].form, req[p].id),
                       At("hash", req[p].form, req[p].id),
                       At("insertUser", req[p].form, req[p].id)}
<1>2. \E r \in targets : Answer(p, r)
  BY <1>1, GoToIsAt DEF IInv, Stages, GetUserByUsername, GetUserByEmail,
     HashPassword, InsertUserDuplicate
<1>3. \A r \in targets : r \in ReqState /\ r.stage \in Outside \ {"token"}
  <2>1. \A r \in targets : r \in ReqState
    BY <1>1, ShapesAreReqStates DEF Statuses, Stages
  <2>2. \A r \in targets : r.stage \in Outside \ {"token"}
    BY DEF Outside, InTransaction, Stages, Idle, Duplicate, At
  <2>3. QED
    BY <2>1, <2>2
<1>4. req[p].stage \in Outside /\ UNCHANGED <<tables, nextId, tx, accepted, taken>>
  BY DEF Outside, InTransaction, Stages, GetUserByUsername, GetUserByEmail,
     HashPassword, InsertUserDuplicate, tables
<1>5. /\ \A a \in accepted' : a \in Ids \X Form /\ Registered(a[1], a[2])
      /\ taken' \subseteq Requests
  BY <1>4 DEF IInv, TypeOK
<1> HIDE DEF targets
<1>6. QED
  BY <1>2, <1>3, <1>4, <1>5, OutsideStep

LEMMA NextIInv == IInv /\ [Next]_vars => IInv'
<1> SUFFICES ASSUME IInv, [Next]_vars PROVE IInv'
  OBVIOUS
<1>1. ASSUME NEW p \in Requests, NEW form \in Form, BeginRegistration(p, form)
      PROVE  IInv'
  <2>1. At("username", form, 0) \in ReqState
    BY ShapesAreReqStates, RegistrationAssumption DEF Stages
  <2>2. At("username", form, 0).stage \in Outside \ {"token"}
    BY DEF At, Outside, InTransaction, Stages
  <2>3. req[p].stage \in Outside /\ Answer(p, At("username", form, 0))
        /\ UNCHANGED <<tables, nextId, tx, accepted>>
    BY <1>1 DEF BeginRegistration, Outside, InTransaction, tables
  <2>4. /\ \A a \in accepted' : a \in Ids \X Form /\ Registered(a[1], a[2])
        /\ taken' \subseteq Requests
    BY <1>1, <2>3 DEF BeginRegistration, IInv, TypeOK
  <2>5. QED
    BY <2>1, <2>2, <2>3, <2>4, OutsideStep
<1>2. ASSUME NEW p \in Requests,
             \/ GetUserByUsername(p) \/ GetUserByEmail(p) \/ HashPassword(p)
             \/ InsertUserDuplicate(p)
      PROVE  IInv'
  BY <1>2, LookupStep
<1>3. ASSUME NEW p \in Requests, InsertUser(p) PROVE IInv'
  BY <1>3, InsertUserStep
<1>4. ASSUME NEW p \in Requests, InsertCredential(p) \/ InsertProvider(p) PROVE IInv'
  BY <1>4, InsertDetailStep
<1>5. ASSUME NEW p \in Requests, Commit(p) \/ CommitUnanswered(p) PROVE IInv'
  BY <1>5, CommitStep
<1>6. ASSUME NEW p \in Requests, GenerateToken(p) PROVE IInv'
  <2>1. Registered(req[p].id, req[p].form) /\ req[p].form \in Form
    BY <1>6, ReqShapes DEF IInv, TypeOK, TransactionMatches, GenerateToken
  <2>2. req[p].id \in Ids
    BY <2>1 DEF Registered, Committed
  <2>3. req[p].stage \in Outside /\ UNCHANGED <<tables, nextId, tx, taken>>
        /\ Answer(p, Idle(201))
        /\ accepted' = accepted \cup {<<req[p].id, req[p].form>>}
    BY <1>6 DEF GenerateToken, Outside, InTransaction, Stages, tables
  <2>4. Idle(201) \in ReqState /\ Idle(201).stage \in Outside \ {"token"}
    BY ShapesAreReqStates DEF Statuses, Idle, Outside, InTransaction, Stages
  <2>5. /\ \A a \in accepted' : a \in Ids \X Form /\ Registered(a[1], a[2])
        /\ taken' \subseteq Requests
    BY <2>1, <2>2, <2>3 DEF IInv, TypeOK
  <2>6. QED
    BY <2>3, <2>4, <2>5, OutsideStep
<1>7. ASSUME NEW p \in Requests, FailRegistration(p) PROVE IInv'
  <2>1. /\ tx' = [q \in Requests |-> IF q \in {p} THEN NoTx ELSE tx[q]]
        /\ req' = [q \in Requests |-> IF q \in {p} THEN Idle(500) ELSE req[q]]
        /\ UNCHANGED <<tables, nextId, accepted, taken>>
    BY <1>7 DEF FailRegistration, Answer, IInv, TypeOK, tables
  <2>2. {p} \in SUBSET Requests /\ 500 \in Statuses
    BY DEF Statuses
  <2>3. QED
    BY <2>1, <2>2, RollbackStep
<1>8. ASSUME Restart PROVE IInv'
  <2>1. /\ tx' = [q \in Requests |-> IF q \in Requests THEN NoTx ELSE tx[q]]
        /\ req' = [q \in Requests |-> IF q \in Requests THEN Idle(0) ELSE req[q]]
        /\ UNCHANGED <<tables, nextId, accepted, taken>>
    BY <1>8 DEF Restart, tables
  <2>2. Requests \in SUBSET Requests /\ 0 \in Statuses
    BY DEF Statuses
  <2>3. QED
    BY <2>1, <2>2, RollbackStep
<1>9. ASSUME UNCHANGED vars PROVE IInv'
  BY <1>9 DEF vars, tables, IInv, TypeOK, AccountsAreWhole, UsersAreUnique,
     TransactionMatches, TransactionsAreApart, Registered, Committed, Open, Clash
<1>10. QED
  BY <1>1, <1>2, <1>3, <1>4, <1>5, <1>6, <1>7, <1>8, <1>9 DEF Next, Progress

(* The inductive invariant of Registration.                                *)
THEOREM IInvHolds == Spec => []IInv
  BY InitIInv, NextIInv, PTL DEF Spec

(* Type correctness of users, transactions and requests.                   *)
THEOREM TypeCorrect == Spec => []TypeOK
<1>1. IInv => TypeOK
  BY DEF IInv
<1>2. QED
  BY <1>1, IInvHolds, PTL

(* The three inserts of CreateUser take effect together or not at all.     *)
THEOREM AccountsStayWhole == Spec => []AccountsAreWhole
<1>1. IInv => AccountsAreWhole
  BY DEF IInv
<1>2. QED
  BY <1>1, IInvHolds, PTL

(* No two users share a username or an email, however many registrations   *)
(* interleave between look-up and insert.                                  *)
THEOREM UsersStayUnique == Spec => []UsersAreUnique
<1>1. IInv => UsersAreUnique
  BY DEF IInv
<1>2. QED
  BY <1>1, IInvHolds, PTL

(* Whoever was answered 201 can log in as that user from then on.          *)
THEOREM AcceptedAlwaysLogIn == Spec => []AcceptedCanLogIn
<1>1. IInv => AcceptedCanLogIn
  <2> SUFFICES ASSUME IInv, NEW a \in accepted
               PROVE  LoginUser(a[2].email, a[2].password) = {a[1]}
    BY DEF AcceptedCanLogIn
  <2>1. /\ a[1] \in Committed /\ users[a[1]] = UserOf(a[2])
        /\ credentials[a[1]] = a[2].password
    BY DEF IInv, Registered
  <2>2. users[a[1]].email = a[2].email
    BY <2>1 DEF UserOf
  <2>3. Known(a[1]) /\ a[1] \in Ids
    BY <2>1 DEF Known, IInv, AccountsAreWhole, Committed
  <2>4. ASSUME NEW j \in Committed, users[j].email = a[2].email PROVE j = a[1]
    BY <2>1, <2>2, <2>4 DEF IInv, UsersAreUnique, Clash
  <2>5. QED
    BY <2>1, <2>2, <2>3, <2>4 DEF LoginUser, Known
<1>2. QED
  BY <1>1, IInvHolds, PTL

-----------------------------------------------------------------------------
(* TakenIsToldByLookups: while a form that was taken is looked up, the user*)
(* who has its name, or at least its email, is there to be found, since    *)
(* users never go; so that such a request gets no further than the second  *)
(* look-up.                                                                *)
MeetsItsUser(p) ==
  /\ req[p].stage \in {"username", "email", "idle"}
  /\ req[p].stage = "username" => Taken(req[p].form)
  /\ req[p].stage = "email" => \E i \in Committed : users[i].email = req[p].form.email
  /\ req[p].stage = "idle" => ~req[p].duplicate /\ req[p].status # 201

LookupInv == \A p \in taken : MeetsItsUser(p)

LEMMA UsersStay ==
  ASSUME IInv, [Next]_vars
  PROVE  \A i \in Committed : i \in Committed' /\ users'[i] = users[i]
<1>1. CASE UNCHANGED users
  BY <1>1 DEF Committed
<1>2. CASE \E p \in Requests : Commit(p) \/ CommitUnanswered(p)
  <2>1. PICK p \in Requests : Commit(p) \/ CommitUnanswered(p)
    BY <1>2
  <2>2. p \in Open
    BY <2>1 DEF Commit, CommitUnanswered, IInv, TransactionMatches, InTransaction
  <2>3. tx[p].id \notin Committed
    BY <2>2 DEF IInv, TransactionsAreApart
  <2>4. users' = [users EXCEPT ![tx[p].id] = tx[p].user]
    BY <2>1 DEF Commit, CommitUnanswered, Apply
  <2>5. QED
    BY <2>3, <2>4 DEF Committed, IInv, TypeOK
<1>3. QED
  BY <1>1, <1>2 DEF Next, Progress, BeginRegistration, GetUserByUsername, GetUserByEmail,
     HashPassword, InsertUser, InsertUserDuplicate, InsertCredential, InsertProvider,
     GenerateToken, FailRegistration, Restart, tables, vars

(* A request that others overtake still meets its user.                    *)
LEMMA OvertakenMeets ==
  ASSUME NEW p \in Requests, MeetsItsUser(p), req'[p] = req[p],
         \A i \in Committed : i \in Committed' /\ users'[i] = users[i]
  PROVE  MeetsItsUser(p)'
BY DEF MeetsItsUser, Taken, Clash

LEMMA LookupMeets ==
  ASSUME IInv, NEW p \in Requests, MeetsItsUser(p),
         \/ GetUserByUsername(p) \/ GetUserByEmail(p) \/ HashPassword(p)
         \/ InsertUser(p) \/ InsertUserDuplicate(p) \/ InsertCredential(p) \/ InsertProvider(p)
         \/ Commit(p) \/ CommitUnanswered(p) \/ GenerateToken(p) \/ FailRegistration(p)
  PROVE  MeetsItsUser(p)'
<1>1. req \in [Requests -> ReqState] /\ req[p] \in ReqState
  BY DEF IInv, TypeOK
<1>2. \A s \in Statuses : Idle(s).stage = "idle" /\ ~Idle(s).duplicate /\ Idle(s).status = s
  BY DEF Idle
<1>3. \A i \in Committed : Known(i)
  BY DEF IInv, AccountsAreWhole, Known, Committed
<1>4. CASE FailRegistration(p)
  <2>1. req'[p] = Idle(500)
    BY <1>1, <1>4 DEF FailRegistration, Answer
  <2>2. QED
    BY <1>2, <2>1 DEF MeetsItsUser, Statuses
<1>5. CASE GetUserByUsername(p)
  <2>1. Taken(req[p].form) /\ req[p].stage = "username"
    BY <1>5 DEF GetUserByUsername, MeetsItsUser
  <2>2. PICK i \in Committed : Clash(users[i], req[p].form)
    BY <2>1 DEF Taken
  <2>3. CASE \E j \in Ids : Known(j) /\ users[j].username = req[p].form.username
    <3>1. req'[p] = Idle(409)
      BY <1>1, <1>5, <2>3 DEF GetUserByUsername, Answer
    <3>2. QED
      BY <1>2, <3>1 DEF MeetsItsUser, Statuses
  <2>4. CASE ~\E j \in Ids : Known(j) /\ users[j].username = req[p].form.username
    <3>1. users[i].email = req[p].form.email
      BY <1>3, <2>2, <2>4 DEF Clash, Committed
    <3>2. Answer(p, At("email", req[p].form, req[p].id))
      BY <1>5, <2>1, <2>4, GoToIsAt DEF GetUserByUsername, IInv, Stages
    <3>3. req'[p] = At("email", req[p].form, req[p].id) /\ UNCHANGED users
      BY <1>1, <1>5, <3>2 DEF Answer, GetUserByUsername, tables
    <3>4. req'[p].stage = "email" /\ req'[p].form = req[p].form
      BY <3>3 DEF At
    <3>5. QED
      BY <3>1, <3>3, <3>4 DEF MeetsItsUser, Committed
  <2>5. QED
    BY <2>3, <2>4
<1>6. CASE GetUserByEmail(p)
  <2>1. \E i \in Ids : Known(i) /\ users[i].email = req[p].form.email
    BY <1>3, <1>6 DEF GetUserByEmail, MeetsItsUser, Committed
  <2>2. req'[p] = Idle(409)
    BY <1>1, <1>6, <2>1 DEF GetUserByEmail, Answer
  <2>3. QED
    BY <1>2, <2>2 DEF MeetsItsUser, Statuses
<1>7. QED
  BY <1>4, <1>5, <1>6 DEF MeetsItsUser, HashPassword, InsertUser, InsertUserDuplicate,
     InsertCredential, InsertProvider, Commit, CommitUnanswered, GenerateToken

LEMMA LookupInvStep ==
  ASSUME IInv, LookupInv, [Next]_vars
  PROVE  LookupInv'
<1>1. \A i \in Committed : i \in Committed' /\ users'[i] = users[i]
  BY UsersStay
<1>2. SUFFICES ASSUME NEW q \in taken' PROVE MeetsItsUser(q)'
  BY DEF LookupInv
<1>3. taken \subseteq Requests /\ req \in [Requests -> ReqState]
  BY DEF IInv, TypeOK
<1>4. CASE \E p \in Requests, form \in Form : BeginRegistration(p, form)
  <2>1. PICK p \in Requests, form \in Form : BeginRegistration(p, form)
    BY <1>4
  <2>2. CASE q = p
    <3>1. Taken(form)
      BY <2>1, <2>2 DEF BeginRegistration
    <3>2. req'[q] = At("username", form, 0) /\ UNCHANGED users
      BY <1>3, <2>1, <2>2 DEF BeginRegistration, Answer, tables
    <3>3. req'[q].stage = "username" /\ req'[q].form = form
      BY <3>2 DEF At
    <3>4. QED
      BY <3>1, <3>2, <3>3 DEF MeetsItsUser, Taken, Committed
  <2>3. CASE q # p
    <3>1. q \in taken /\ req'[q] = req[q]
      BY <1>3, <2>1, <2>3 DEF BeginRegistration, Answer
    <3>2. QED
      BY <1>1, <1>3, <3>1, OvertakenMeets DEF LookupInv
  <2>4. QED
    BY <2>2, <2>3
<1>5. CASE \E p \in Requests : Progress(p) \/ FailRegistration(p)
  <2>1. PICK p \in Requests : Progress(p) \/ FailRegistration(p)
    BY <1>5
  <2>2. q \in taken /\ (p # q => req'[q] = req[q])
    BY <1>3, <2>1 DEF Progress, GetUserByUsername, GetUserByEmail,
       HashPassword, InsertUser, InsertUserDuplicate, InsertCredential, InsertProvider,
       Commit, CommitUnanswered, GenerateToken, FailRegistration, Answer, GoTo
  <2>3. CASE p = q
    BY <2>1, <2>2, <2>3, LookupMeets DEF LookupInv, Progress
  <2>4. CASE p # q
    BY <1>1, <1>3, <2>2, <2>4, OvertakenMeets DEF LookupInv
  <2>5. QED
    BY <2>3, <2>4
<1>6. CASE Restart
  <2>1. q \in taken /\ req'[q] = Idle(0)
    BY <1>3, <1>6 DEF Restart
  <2>2. QED
    BY <2>1 DEF MeetsItsUser, Idle
<1>7. CASE UNCHANGED vars
  BY <1>1, <1>3, <1>7, OvertakenMeets DEF vars, LookupInv
<1>8. QED
  BY <1>4, <1>5, <1>6, <1>7 DEF Next

(* A registration whose name or email was taken when it began is told so by*)
(* the look-ups (RegisterUser): it never meets the UNIQUE constraint and is*)
(* never answered 201.                                                     *)
THEOREM TakenAlwaysTold == Spec => []TakenIsToldByLookups
<1>1. Init => LookupInv
  BY DEF Init, LookupInv
<1>2. IInv /\ LookupInv /\ [Next]_vars => LookupInv'
  BY LookupInvStep
<1>3. LookupInv => TakenIsToldByLookups
  BY DEF LookupInv, MeetsItsUser, TakenIsToldByLookups
<1>4. QED
  BY <1>1, <1>2, <1>3, IInvHolds, PTL DEF Spec
-----------------------------------------------------------------------------
(* Registration implements UserDirectory.                                  *)

(* A row of the directory, as the tables give it.                          *)
Entry(i) == [user |-> users[i], password |-> credentials[i], provider |-> providers[i]]

(* An account is nobody's exactly as long as no user is committed, and who *)
(* is registered has the account of the form.                              *)
LEMMA EntryFacts ==
  ASSUME IInv, NEW i \in Ids
  PROVE  /\ i \notin Committed => Entry(i) = Directory!Nobody
         /\ Entry(i) # Directory!Nobody => i \in Committed
         /\ \A form \in Form : Registered(i, form) => Entry(i) = Directory!AccountOf(form)
<1>1. i \notin Committed => Entry(i) = Directory!Nobody
  BY DEF IInv, AccountsAreWhole, Committed, Entry, Directory!Nobody
<1>2. ASSUME NEW form \in Form, Registered(i, form)
      PROVE  Entry(i) = Directory!AccountOf(form)
  <2>1. /\ users[i] = [username |-> form.username, email |-> form.email]
        /\ credentials[i] = form.password
        /\ providers[i] = form.username
    BY <1>2 DEF Registered, UserOf, IInv, AccountsAreWhole
  <2>2. QED
    BY <2>1 DEF Entry, Directory!AccountOf
<1>3. QED
  BY <1>1, <1>2

LEMMA InitImplementsDirectory == Init => Directory!Init
  BY DEF Init, Directory!Init, Directory!Nobody

(* The COMMIT enrols: what it applies is the whole account of the form, to *)
(* an id that nobody has, and no committed row clashes with it.            *)
LEMMA CommitImplementsEnrol ==
  ASSUME IInv, NEW p \in Requests, req[p].stage = "commit", Apply(p), UNCHANGED accepted
  PROVE  Directory!Next
<1>1. p \in Open /\ tx[p] \in Tx
  BY DEF IInv, TypeOK, TransactionMatches, InTransaction, Open
<1>. PICK form \in Form, id \in Ids : form = req[p].form /\ id = tx[p].id
  BY <1>1, ReqShapes DEF IInv, TypeOK, Tx
<1>2. /\ tx[p].id = id /\ tx[p].user = UserOf(form)
      /\ tx[p].password = form.password /\ tx[p].provider = form.username
  BY <1>1 DEF IInv, TransactionMatches
<1>3. id \notin Committed /\ \A i \in Committed : ~Clash(users[i], UserOf(form))
  BY <1>1, <1>2 DEF IInv, TransactionsAreApart
<1>4. \A i \in Ids :
        Entry(i)' = IF i = id THEN Directory!AccountOf(form) ELSE Entry(i)
  BY <1>2 DEF Apply, IInv, TypeOK, Entry, Directory!AccountOf, UserOf
<1>5. ASSUME NEW i \in Ids, Entry(i) # Directory!Nobody
      PROVE  /\ Entry(i).user.username # form.username
             /\ Entry(i).user.email # form.email
  <2>1. i \in Committed
    BY <1>5, EntryFacts
  <2>2. QED
    BY <1>3, <2>1 DEF Entry, Clash, UserOf
<1>6. Entry(id) = Directory!Nobody
  BY <1>2, <1>3, EntryFacts
<1>7. Directory!Enrol(id, form)
  BY <1>2, <1>4, <1>5, <1>6 DEF Directory!Enrol, Entry
<1>8. QED
  BY <1>7 DEF Directory!Next

(* The 201 welcomes somebody whose account is there.                       *)
LEMMA TokenImplementsWelcome ==
  ASSUME IInv, NEW p \in Requests, GenerateToken(p)
  PROVE  Directory!Next
<1> DEFINE form == req[p].form
           id   == req[p].id
<1>1. Registered(id, form) /\ form \in Form
  BY ReqShapes DEF IInv, TypeOK, TransactionMatches, GenerateToken
<1>2. id \in Ids
  BY <1>1 DEF Registered, Committed
<1>3. Entry(id) = Directory!AccountOf(form)
  BY <1>1, <1>2, EntryFacts
<1>4. UNCHANGED tables /\ accepted' = accepted \cup {<<id, form>>}
  BY DEF GenerateToken
<1> HIDE DEF form, id
<1>5. Directory!Welcome(id, form)
  BY <1>2, <1>3, <1>4 DEF Directory!Welcome, Entry, tables
<1>6. QED
  BY <1>1, <1>2, <1>5 DEF Directory!Next

LEMMA NextImplementsDirectory ==
  ASSUME IInv, [Next]_vars
  PROVE  [Directory!Next]_(Directory!directoryVars)
<1>1. ASSUME NEW p \in Requests, Commit(p) \/ CommitUnanswered(p)
      PROVE  Directory!Next
  BY <1>1, CommitImplementsEnrol DEF Commit, CommitUnanswered
<1>2. ASSUME NEW p \in Requests, Progress(p), ~Commit(p), ~CommitUnanswered(p),
             ~GenerateToken(p)
      PROVE  UNCHANGED <<tables, accepted>>
  BY <1>2 DEF Progress, GetUserByUsername, GetUserByEmail, HashPassword, InsertUser,
     InsertUserDuplicate, InsertCredential, InsertProvider
<1>3. \A p, form : BeginRegistration(p, form) => UNCHANGED <<tables, accepted>>
  BY DEF BeginRegistration
<1>4. \A p : FailRegistration(p) => UNCHANGED <<tables, accepted>>
  BY DEF FailRegistration
<1>5. Restart \/ UNCHANGED vars => UNCHANGED <<tables, accepted>>
  BY DEF Restart, vars, tables
<1>6. UNCHANGED <<tables, accepted>> => UNCHANGED Directory!directoryVars
  BY DEF tables, Directory!directoryVars
<1>7. QED
  BY <1>1, <1>2, <1>3, <1>4, <1>5, <1>6, TokenImplementsWelcome DEF Next

(* Whatever the look-ups, transactions, failures and restarts do, readers  *)
(* of the three tables (user_store.go) see a UserDirectory.                *)
THEOREM DirectoryImplemented == Spec => ImplementsDirectory
<1>1. Init => Directory!Init
  BY InitImplementsDirectory
<1>2. IInv /\ [Next]_vars => [Directory!Next]_(Directory!directoryVars)
  BY NextImplementsDirectory
<1>3. QED
  BY <1>1, <1>2, IInvHolds, PTL DEF Spec, ImplementsDirectory, Directory!Spec
=============================================================================
