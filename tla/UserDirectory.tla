---------------------------- MODULE UserDirectory ----------------------------
(***************************************************************************)
(* What registration promises, with its look-ups, transactions and         *)
(* failures left out: accounts appear whole, one at a time, under a name   *)
(* and an email nobody has; they never change and never disappear; and only*)
(* who has an account is welcomed.                                         *)
(***************************************************************************)
CONSTANTS Ids, Form, NoUser, NoPassword, NoProvider

VARIABLES
  accounts,  \* id -> the rows of the three tables, or Nobody
  welcomed   \* the <<id, form>> that were told of their registration

directoryVars == <<accounts, welcomed>>

Nobody == [user |-> NoUser, password |-> NoPassword, provider |-> NoProvider]

AccountOf(form) ==
  [user |-> [username |-> form.username, email |-> form.email],
   password |-> form.password, provider |-> form.username]

Init ==
  /\ accounts = [i \in Ids |-> Nobody]
  /\ welcomed = {}

Enrol(i, form) ==
  /\ accounts[i] = Nobody
  /\ \A j \in Ids : accounts[j] # Nobody =>
       /\ accounts[j].user.username # form.username
       /\ accounts[j].user.email # form.email
  /\ accounts' = [accounts EXCEPT ![i] = AccountOf(form)]
  /\ UNCHANGED welcomed

Welcome(i, form) ==
  /\ accounts[i] = AccountOf(form)
  /\ welcomed' = welcomed \cup {<<i, form>>}
  /\ UNCHANGED accounts

Next == \E i \in Ids, form \in Form : Enrol(i, form) \/ Welcome(i, form)

Spec == Init /\ [][Next]_directoryVars
=============================================================================
