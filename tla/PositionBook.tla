---------------------------- MODULE PositionBook ----------------------------
(***************************************************************************)
(* What the wallets and their DeFi positions promise to whoever reads the  *)
(* two tables, with the requests that write them left out: wallets come,   *)
(* and go as long as nothing is recorded of them; an entry is a position   *)
(* that was open at some address, under its own protocol and type and the  *)
(* id of the wallet's owner, and is only ever replaced by another such.    *)
(***************************************************************************)
CONSTANTS WalletIds, Users, SupportedChains, Addresses, Blank, HexAddresses,
          Tokens, Keys, KeyOf, NoWallet, NoRow

VARIABLES
  wallets,  \* the registered wallets
  issued,   \* every wallet id ever given out
  book,     \* the entries: wallet id, key -> [token, account, by] or NoRow
  seen      \* every <<address, token>> that was ever open on chain

bookVars == <<wallets, issued, book, seen>>

Init ==
  /\ wallets = [w \in WalletIds |-> NoWallet]
  /\ issued = {}
  /\ book = [w \in WalletIds |-> [k \in Keys |-> NoRow]]
  /\ seen = {}

(* A new id, and an address at most once per user and chain.               *)
Register(w, u, c, a) ==
  LET wallet == [user |-> u, chain |-> c, address |-> a] IN
  /\ w \notin issued
  /\ \A v \in WalletIds : wallets[v] # wallet
  /\ wallets' = [wallets EXCEPT ![w] = wallet]
  /\ issued' = issued \cup {w}
  /\ UNCHANGED <<book, seen>>

(* A wallet leaves, unless an entry holds it.                              *)
Withdraw(w) ==
  /\ wallets[w] # NoWallet
  /\ \A k \in Keys : book[w][k] = NoRow
  /\ wallets' = [wallets EXCEPT ![w] = NoWallet]
  /\ UNCHANGED <<issued, book, seen>>

Appear(a, t) ==
  /\ seen' = seen \cup {<<a, t>>}
  /\ UNCHANGED <<wallets, issued, book>>

Record(w, a, t) ==
  /\ wallets[w] # NoWallet
  /\ <<a, t>> \in seen
  /\ book' = [book EXCEPT ![w][KeyOf[t]] =
                [token |-> t, account |-> a, by |-> wallets[w].user]]
  /\ UNCHANGED <<wallets, issued, seen>>

Next ==
  \/ \E w \in WalletIds, u \in Users, c \in SupportedChains, a \in Addresses \ {Blank} :
       Register(w, u, c, a)
  \/ \E w \in WalletIds : Withdraw(w)
  \/ \E a \in HexAddresses, t \in Tokens : Appear(a, t)
  \/ \E w \in WalletIds, a \in HexAddresses, t \in Tokens : Record(w, a, t)

Spec == Init /\ [][Next]_bookVars
=============================================================================
