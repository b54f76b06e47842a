----------------------------- MODULE Registration -----------------------------
(***************************************************************************)
(* Registration and login:                                                 *)
(*   internal/api/handler.go (RegisterUser, LoginUser),                    *)
(*   internal/service/user_service.go, internal/store/user_store.go,       *)
(*   migration 0001 (users, user_credentials, user_auth_providers).        *)
(*                                                                         *)
(* A registration looks its username up, then its email, hashes the        *)
(* password and inserts three rows in one transaction.  Between the look-  *)
(* ups and the insert others register; the UNIQUE constraints of users     *)
(* decide then.  An insert whose username or email is in a row another     *)
(* transaction has not committed yet waits for that transaction to end.    *)
(*                                                                         *)
(* Data.  A password stands for its hash too: equal iff they match.        *)
(* Requests are the slots of the registrations served at the same time.    *)
(***************************************************************************)
EXTENDS Naturals, FiniteSets

CONSTANTS
  Usernames, Emails, Passwords,
  MaxUsers,   \* bound: how many rows users' BIGSERIAL ever numbers
  Requests,
  NoUser,     \* no row in users
  NoPassword, \* no row in user_credentials
  NoProvider, \* no row in user_auth_providers
  NoTx        \* no transaction

Ids  == 1..MaxUsers
User == [username : Usernames, email : Emails]
Form == [username : Usernames, email : Emails, password : Passwords]

(* What a transaction has inserted so far, unseen by all others.           *)
Tx == [id : Ids, user : User, password : Passwords \cup {NoPassword},
       provider : Usernames \cup {NoProvider}]

ASSUME RegistrationAssumption ==
  /\ MaxUsers \in Nat
  /\ NoUser \notin User
  /\ NoPassword \notin Passwords
  /\ NoProvider \notin Usernames
  /\ NoTx \notin Tx

VARIABLES
  users,       \* users: id -> row or NoUser
  credentials, \* user_credentials: user id -> password or NoPassword
  providers,   \* user_auth_providers: user id -> provider_user_id or NoProvider
  nextId,      \* the BIGSERIAL of users
  tx,          \* per request, its open transaction or NoTx
  req,         \* where each request stands
  accepted,    \* history: <<id, form>> of the registrations answered 201
  taken        \* history: requests whose name or email was taken when they began

tables == <<users, credentials, providers>>
vars   == <<users, credentials, providers, nextId, tx, req, accepted, taken>>

-----------------------------------------------------------------------------
(* A request is idle, with the status of its last answer (0 for none),     *)
(* or about to make the call its stage names.  duplicate tells whether the *)
(* database refused the insert for a UNIQUE constraint.                    *)
Stages == {"username", "email", "hash", "insertUser", "insertCredential",
           "insertProvider", "commit", "token"}
Statuses == {0, 201, 409, 500}

Idle(status)       == [stage |-> "idle", status |-> status, duplicate |-> FALSE]
Duplicate          == [stage |-> "idle", status |-> 500, duplicate |-> TRUE]
At(stage, form, i) == [stage |-> stage, form |-> form, id |-> i]

ReqState ==
  [stage : {"idle"}, status : Statuses, duplicate : BOOLEAN]
    \cup [stage : Stages, form : Form, id : 0..MaxUsers]

Committed == {i \in Ids : users[i] # NoUser}
Open      == {p \in Requests : tx[p] # NoTx}

Init ==
  /\ users = [i \in Ids |-> NoUser]
  /\ credentials = [i \in Ids |-> NoPassword]
  /\ providers = [i \in Ids |-> NoProvider]
  /\ nextId = 1
  /\ tx = [p \in Requests |-> NoTx]
  /\ req = [p \in Requests |-> Idle(0)]
  /\ accepted = {}
  /\ taken = {}

GoTo(p, stage)  == req' = [req EXCEPT ![p].stage = stage]
Answer(p, a)    == req' = [req EXCEPT ![p] = a]

-----------------------------------------------------------------------------
(* Bound: an id is left for every request that has yet to insert its user. *)
BeforeInsert == {"username", "email", "hash", "insertUser"}
IdsLeft == nextId + Cardinality({p \in Requests : req[p].stage \in BeforeInsert}) <= MaxUsers

(* Two rows that users' UNIQUE constraints keep apart.                     *)
Clash(row, form) == row.username = form.username \/ row.email = form.email

Taken(form) == \E i \in Committed : Clash(users[i], form)

(* RegisterUser: the form has passed the binding rules.                    *)
BeginRegistration(p, form) ==
  /\ req[p].stage = "idle"
  /\ IdsLeft
  /\ Answer(p, At("username", form, 0))
  /\ taken' = IF Taken(form) THEN taken \cup {p} ELSE taken \ {p}
  /\ UNCHANGED <<tables, nextId, tx, accepted>>

(* The look-ups join user_credentials and see what is committed.           *)
Known(i) == i \in Committed /\ credentials[i] # NoPassword

GetUserByUsername(p) ==
  /\ req[p].stage = "username"
  /\ IF \E i \in Ids : Known(i) /\ users[i].username = req[p].form.username
       THEN Answer(p, Idle(409))
       ELSE GoTo(p, "email")
  /\ UNCHANGED <<tables, nextId, tx, accepted, taken>>

(* Mutant: the look-up by email is given the username.                     *)
GetUserByEmail_Username(p) ==
  /\ req[p].stage = "email"
  /\ IF \E i \in Ids : Known(i) /\ users[i].username = req[p].form.username
       THEN Answer(p, Idle(409))
       ELSE GoTo(p, "hash")
  /\ UNCHANGED <<tables, nextId, tx, accepted, taken>>

GetUserByEmail(p) ==
  /\ req[p].stage = "email"
  /\ IF \E i \in Ids : Known(i) /\ users[i].email = req[p].form.email
       THEN Answer(p, Idle(409))
       ELSE GoTo(p, "hash")
  /\ UNCHANGED <<tables, nextId, tx, accepted, taken>>

HashPassword(p) ==
  /\ req[p].stage = "hash"
  /\ GoTo(p, "insertUser")
  /\ UNCHANGED <<tables, nextId, tx, accepted, taken>>

UserOf(form) == [username |-> form.username, email |-> form.email]

Pending(form) == \E q \in Open : Clash(tx[q].user, form)

(* Mutant: the look-ups are trusted, the columns are not UNIQUE.           *)
InsertUser_NotUnique(p) ==
  LET form == req[p].form IN
  /\ req[p].stage = "insertUser"
  /\ nextId \in Ids
  /\ tx' = [tx EXCEPT ![p] =
       [id |-> nextId, user |-> UserOf(form),
        password |-> NoPassword, provider |-> NoProvider]]
  /\ nextId' = nextId + 1
  /\ Answer(p, At("insertCredential", form, nextId))
  /\ UNCHANGED <<tables, accepted, taken>>

(* BEGIN and the INSERT into users, once no open transaction is in its way.*)
InsertUser(p) ==
  LET form == req[p].form IN
  /\ req[p].stage = "insertUser"
  /\ nextId \in Ids
  /\ ~Pending(form)
  /\ ~Taken(form)
  /\ tx' = [tx EXCEPT ![p] =
       [id |-> nextId, user |-> UserOf(form),
        password |-> NoPassword, provider |-> NoProvider]]
  /\ nextId' = nextId + 1
  /\ Answer(p, At("insertCredential", form, nextId))
  /\ UNCHANGED <<tables, accepted, taken>>

(* The constraint speaks up, and the answer is 500.                        *)
InsertUserDuplicate(p) ==
  /\ req[p].stage = "insertUser"
  /\ ~Pending(req[p].form)
  /\ Taken(req[p].form)
  /\ Answer(p, Duplicate)
  /\ UNCHANGED <<tables, nextId, tx, accepted, taken>>

(* Mutant: the credential is written outside the transaction.              *)
InsertCredential_Autocommit(p) ==
  /\ req[p].stage = "insertCredential"
  /\ credentials' = [credentials EXCEPT ![tx[p].id] = req[p].form.password]
  /\ tx' = [tx EXCEPT ![p].password = req[p].form.password]
  /\ GoTo(p, "insertProvider")
  /\ UNCHANGED <<users, providers, nextId, accepted, taken>>

InsertCredential(p) ==
  /\ req[p].stage = "insertCredential"
  /\ tx' = [tx EXCEPT ![p].password = req[p].form.password]
  /\ GoTo(p, "insertProvider")
  /\ UNCHANGED <<tables, nextId, accepted, taken>>

InsertProvider(p) ==
  /\ req[p].stage = "insertProvider"
  /\ tx' = [tx EXCEPT ![p].provider = req[p].form.username]
  /\ GoTo(p, "commit")
  /\ UNCHANGED <<tables, nextId, accepted, taken>>

(* What COMMIT does to the tables, whether its answer arrives or not.      *)
Apply(p) ==
  /\ users' = [users EXCEPT ![tx[p].id] = tx[p].user]
  /\ credentials' = [credentials EXCEPT ![tx[p].id] = tx[p].password]
  /\ providers' = [providers EXCEPT ![tx[p].id] = tx[p].provider]
  /\ tx' = [tx EXCEPT ![p] = NoTx]

Commit(p) ==
  /\ req[p].stage = "commit"
  /\ Apply(p)
  /\ GoTo(p, "token")
  /\ UNCHANGED <<nextId, accepted, taken>>

CommitUnanswered(p) ==
  /\ req[p].stage = "commit"
  /\ Apply(p)
  /\ Answer(p, Idle(500))
  /\ UNCHANGED <<nextId, accepted, taken>>

GenerateToken(p) ==
  /\ req[p].stage = "token"
  /\ Answer(p, Idle(201))
  /\ accepted' = accepted \cup {<<req[p].id, req[p].form>>}
  /\ UNCHANGED <<tables, nextId, tx, taken>>

(* Mutant: no deferred Rollback, the transaction stays open.               *)
FailRegistration_NoRollback(p) ==
  /\ req[p].stage # "idle"
  /\ Answer(p, Idle(500))
  /\ UNCHANGED <<tables, nextId, tx, accepted, taken>>

(* Mutant: an error of the store is dropped.                               *)
FailRegistration_Dropped(p) ==
  /\ req[p].stage # "idle"
  /\ tx' = [tx EXCEPT ![p] = NoTx]
  /\ IF tx[p] = NoTx
       THEN Answer(p, Idle(500)) /\ UNCHANGED accepted
       ELSE /\ Answer(p, Idle(201))
            /\ accepted' = accepted \cup {<<req[p].id, req[p].form>>}
  /\ UNCHANGED <<tables, nextId, taken>>

(* Any call may fail or be cancelled by a client that hangs up: an open    *)
(* transaction is rolled back, and the answer is 500.                      *)
FailRegistration(p) ==
  /\ req[p].stage # "idle"
  /\ tx' = [tx EXCEPT ![p] = NoTx]
  /\ Answer(p, Idle(500))
  /\ UNCHANGED <<tables, nextId, accepted, taken>>

(* The process dies; PostgreSQL rolls back what it had open.               *)
Restart ==
  /\ tx' = [p \in Requests |-> NoTx]
  /\ req' = [p \in Requests |-> Idle(0)]
  /\ UNCHANGED <<tables, nextId, accepted, taken>>

(* LoginUser changes nothing: whom it may log in when the database is well.*)
LoginUser(email, password) ==
  {i \in Ids : Known(i) /\ users[i].email = email /\ credentials[i] = password}

-----------------------------------------------------------------------------
Progress(p) ==
  \/ GetUserByUsername(p) \/ GetUserByEmail(p) \/ HashPassword(p)
  \/ InsertUser(p) \/ InsertUserDuplicate(p)
  \/ InsertCredential(p) \/ InsertProvider(p)
  \/ Commit(p) \/ CommitUnanswered(p) \/ GenerateToken(p)

Next ==
  \/ \E p \in Requests, form \in Form : BeginRegistration(p, form)
  \/ \E p \in Requests : Progress(p) \/ FailRegistration(p)
  \/ Restart

Spec == Init /\ [][Next]_vars

(* The calls of a request return.  Strong fairness because an INSERT that  *)
(* waits for other transactions stands in PostgreSQL's queue of that lock: *)
(* when its turn keeps coming, it runs.                                    *)
FairSpec == Spec /\ \A p \in Requests : SF_vars(Progress(p))

-----------------------------------------------------------------------------
(* Every variable holds values of its kind.                                *)
TypeOK ==
  /\ users \in [Ids -> User \cup {NoUser}]
  /\ credentials \in [Ids -> Passwords \cup {NoPassword}]
  /\ providers \in [Ids -> Usernames \cup {NoProvider}]
  /\ nextId \in 1..(MaxUsers + 1)
  /\ tx \in [Requests -> Tx \cup {NoTx}]
  /\ req \in [Requests -> ReqState]
  /\ accepted \subseteq Ids \X Form
  /\ taken \subseteq Requests

(* The three inserts of CreateUser take effect together or not at all: a   *)
(* user without credential would be invisible to the look-ups, which join  *)
(* the two tables, and yet keep its name and email taken.                  *)
AccountsAreWhole ==
  \A i \in Ids :
    /\ i \in Committed => /\ credentials[i] # NoPassword
                         /\ providers[i] = users[i].username
    /\ i \notin Committed => credentials[i] = NoPassword /\ providers[i] = NoProvider

(* However registrations interleave between look-up and insert, no two     *)
(* users share a username or an email.                                     *)
UsersAreUnique ==
  \A i, j \in Committed : i # j => ~Clash(users[i], users[j])

(* Whoever was answered 201 can log in with the email and password of the  *)
(* registration from then on, as that user and no other: across the        *)
(* registrations of others, failures and restarts.                         *)
AcceptedCanLogIn ==
  \A a \in accepted : LoginUser(a[2].email, a[2].password) = {a[1]}

(* The inductive invariant behind these three.  An open transaction is the *)
(* one its request thinks it is, its id is its own, and its row clashes    *)
(* with no other open or committed one; what a request or a client was     *)
(* told is in the tables.                                                  *)
Registered(i, form) ==
  i \in Committed /\ users[i] = UserOf(form) /\ credentials[i] = form.password

InTransaction == {"insertCredential", "insertProvider", "commit"}

TransactionMatches(p) ==
  /\ p \in Open <=> req[p].stage \in InTransaction
  /\ p \in Open =>
       /\ tx[p].id = req[p].id
       /\ tx[p].user = UserOf(req[p].form)
       /\ req[p].stage # "insertCredential" => tx[p].password = req[p].form.password
       /\ req[p].stage = "commit" => tx[p].provider = req[p].form.username
  /\ req[p].stage = "token" => Registered(req[p].id, req[p].form)

TransactionsAreApart ==
  \A p \in Open :
    /\ tx[p].id < nextId /\ tx[p].id \notin Committed
    /\ \A i \in Committed : ~Clash(users[i], tx[p].user)
    /\ \A q \in Open : p # q => tx[p].id # tx[q].id /\ ~Clash(tx[p].user, tx[q].user)

IInv ==
  /\ TypeOK
  /\ AccountsAreWhole
  /\ UsersAreUnique
  /\ \A p \in Requests : TransactionMatches(p)
  /\ TransactionsAreApart
  /\ \A i \in Committed : i < nextId
  /\ \A a \in accepted : Registered(a[1], a[2])

(* The three tables as one, seen from outside the transactions.            *)
Directory == INSTANCE UserDirectory WITH
               welcomed <- accepted,
               accounts <- [i \in Ids |-> [user |-> users[i],
                                           password |-> credentials[i],
                                           provider |-> providers[i]]]

(* To whoever reads them, the tables behave as a UserDirectory: although   *)
(* the name is looked up in two steps and the account written in three,    *)
(* while others register and anything may fail or die, an account appears  *)
(* whole and in one step, under a name and an email nobody has, stays as   *)
(* it is, and is there before its owner is told so.                        *)
ImplementsDirectory == Directory!Spec

(* Every registration is answered: requests that wait for each other's     *)
(* uncommitted rows do not wait for ever.                                  *)
RegistrationsReturn ==
  \A p \in Requests : req[p].stage # "idle" ~> req[p].stage = "idle"

(* A registration whose username or email was taken when it began is told  *)
(* so by the look-ups, whatever commits meanwhile: the UNIQUE constraint,  *)
(* whose refusal is answered 500, is only met in races, and it is never    *)
(* answered 201 (TestUserService_RegisterUser_DuplicateUsername).          *)
TakenIsToldByLookups ==
  \A p \in taken :
    req[p].stage = "idle" => ~req[p].duplicate /\ req[p].status # 201
===============================================================================
