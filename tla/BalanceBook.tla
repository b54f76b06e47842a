----------------------------- MODULE BalanceBook -----------------------------
(***************************************************************************)
(* What the exchange tables promise to whoever reads them, with the sync   *)
(* machinery left out: credentials come and go, and while a credential is  *)
(* registered, single entries of its book are overwritten with amounts the *)
(* exchange really reported for it at some revision up to the present one, *)
(* under the id of the user who registered it.  Entries appear in no other *)
(* way and disappear only together with their credential.                  *)
(***************************************************************************)
EXTENDS Naturals

CONSTANTS Users, Names, CredIds, Assets, Upper, Held, MaxRev, Symbols,
          NoCred, NoRow

VARIABLES
  creds,    \* the registered credentials
  issued,   \* every credential id ever given out
  book,     \* the entries: credential id, symbol -> [user, rev] or NoRow
  account   \* the current revision of every exchange account

bookVars == <<creds, issued, book, account>>

Init ==
  /\ creds = [c \in CredIds |-> NoCred]
  /\ issued = {}
  /\ book = [c \in CredIds |-> [s \in Symbols |-> NoRow]]
  /\ account = [c \in CredIds |-> 0]

(* A new id, and at most one credential per user and exchange.             *)
Register(c, u, n) ==
  /\ c \notin issued
  /\ \A d \in CredIds : creds[d] # [user |-> u, exchange |-> n]
  /\ creds' = [creds EXCEPT ![c] = [user |-> u, exchange |-> n]]
  /\ issued' = issued \cup {c}
  /\ UNCHANGED <<book, account>>

(* A credential leaves with all its entries.                               *)
Withdraw(c) ==
  /\ creds[c] # NoCred
  /\ creds' = [creds EXCEPT ![c] = NoCred]
  /\ book' = [book EXCEPT ![c] = [s \in Symbols |-> NoRow]]
  /\ UNCHANGED <<issued, account>>

Trade(c) ==
  /\ account[c] < MaxRev
  /\ account' = [account EXCEPT ![c] = @ + 1]
  /\ UNCHANGED <<creds, issued, book>>

(* One entry becomes what the exchange reported at revision r.             *)
Record(c, a, r) ==
  /\ creds[c] # NoCred
  /\ r <= account[c]
  /\ a \in Held[c][r]
  /\ book' = [book EXCEPT ![c][Upper[a]] =
                [user |-> creds[c].user, rev |-> r]]
  /\ UNCHANGED <<creds, issued, account>>

Next ==
  \E c \in CredIds :
    \/ \E u \in Users, n \in Names : Register(c, u, n)
    \/ Withdraw(c)
    \/ Trade(c)
    \/ \E a \in Assets, r \in 0..MaxRev : Record(c, a, r)

Spec == Init /\ [][Next]_bookVars
=============================================================================
