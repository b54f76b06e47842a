------------------------------- MODULE DefiSync -------------------------------
(***************************************************************************)
(* Wallets and the DeFi positions synced into them:                        *)
(*   internal/service/wallet_service.go, internal/store/wallet_store.go,   *)
(*   internal/api/wallet_handler.go, internal/service/defi_sync_service.go,*)
(*   internal/store/defi_store.go, internal/api/defi_handler.go,           *)
(*   migrations 0001, 0003 and 0006.                                       *)
(*                                                                         *)
(* POST /wallets/:id/defi/sync first checks that the wallet is the user's, *)
(* then asks every protocol for the positions of the address given with    *)
(* the request, then upserts them one autocommitted statement at a time;   *)
(* what fails on the way is logged and skipped.  Requests are the slots of *)
(* such calls served at the same time.  The periodic runSync only logs and *)
(* has no step here; how Uniswap's list is read is UniswapPositions.       *)
(*                                                                         *)
(* Data.  A position is the token that stands for it; the row it is stored *)
(* in is found by its protocol and type alone.                             *)
(***************************************************************************)
EXTENDS Naturals, Sequences

CONSTANTS
  Users,
  Chains,           \* chain names as a client may spell them
  Normal,           \* strings.ToLower and TrimSpace on Chains
  SupportedChains,
  Addresses,        \* addresses, without surrounding blanks
  Blank,            \* the empty address
  HexAddresses,     \* those that IsHexAddress accepts
  MaxWallets,       \* bound: how many wallets are ever registered
  Protocols,        \* s.protocols, a sequence of names
  Types,            \* position types
  Tokens,           \* positions
  ProtocolOf, TypeOf,
  Requests,
  NoWallet,         \* no row in user_wallets
  NoRow             \* no row in user_defi_positions

WalletIds == 1..MaxWallets
Wallet    == [user : Users, chain : Chains, address : Addresses]
Row       == [token : Tokens, account : HexAddresses, by : Users]
Steps     == 1..Len(Protocols)
Names     == {Protocols[i] : i \in Steps}
Keys      == Names \X Types
Key(t)    == <<ProtocolOf[t], TypeOf[t]>>

ASSUME WalletsAssumption ==
  /\ MaxWallets \in Nat
  /\ Normal \in [Chains -> Chains]
  /\ \A n \in Chains : Normal[Normal[n]] = Normal[n]
  /\ Blank \in Addresses
  /\ HexAddresses \subseteq Addresses \ {Blank}
  /\ NoWallet \notin Wallet
ASSUME PositionsAssumption ==
  /\ Protocols \in Seq(STRING)
  /\ ProtocolOf \in [Tokens -> Names]
  /\ TypeOf \in [Tokens -> Types]
  /\ NoRow \notin Row

VARIABLES
  wallets,  \* user_wallets: id -> row or NoWallet
  nextId,   \* its BIGSERIAL
  rows,     \* user_defi_positions: wallet id, key -> row or NoRow
  open,     \* on chain: per address, its open positions
  ever,     \* history: every <<address, token>> that was ever in open
  req       \* where each request stands

tables == <<wallets, nextId, rows>>
chain  == <<open, ever>>
vars   == <<wallets, nextId, rows, open, ever, req>>

-----------------------------------------------------------------------------
(* A request is idle (with the status it answered last), about to verify   *)
(* the ownership, about to ask protocol i, or saving what i answered.      *)
(* saved is history: the tokens whose upsert reported success.             *)
Statuses == {0, 202, 403, 500}

Idle(status)       == [stage |-> "idle", status |-> status]
Verifying(u, w, a) == [stage |-> "verify", user |-> u, wallet |-> w, account |-> a]
Asking(u, w, a, i, S) ==
  [stage |-> "ask", user |-> u, wallet |-> w, account |-> a, step |-> i, saved |-> S]
Saving(u, w, a, i, S, P) ==
  [stage |-> "save", user |-> u, wallet |-> w, account |-> a, step |-> i,
   saved |-> S, pending |-> P]

ReqState ==
  [stage : {"idle"}, status : Statuses]
    \cup [stage : {"verify"}, user : Users, wallet : WalletIds, account : HexAddresses]
    \cup [stage : {"ask"}, user : Users, wallet : WalletIds, account : HexAddresses,
          step : Steps, saved : SUBSET Tokens]
    \cup [stage : {"save"}, user : Users, wallet : WalletIds, account : HexAddresses,
          step : Steps, saved : SUBSET Tokens, pending : SUBSET Tokens]

Live == {w \in WalletIds : wallets[w] # NoWallet}

Init ==
  /\ wallets = [w \in WalletIds |-> NoWallet]
  /\ nextId = 1
  /\ rows = [w \in WalletIds |-> [k \in Keys |-> NoRow]]
  /\ open = [a \in HexAddresses |-> {}]
  /\ ever = {}
  /\ req = [p \in Requests |-> Idle(0)]

-----------------------------------------------------------------------------
(* Wallets.                                                                *)

(* Mutant: the chain is stored as the client spelled it.                   *)
AddWallet_KeepsSpelling(u, name, a) ==
  /\ nextId \in WalletIds
  /\ Normal[name] \in SupportedChains
  /\ a # Blank
  /\ \A w \in Live : wallets[w] # [user |-> u, chain |-> name, address |-> a]
  /\ wallets' = [wallets EXCEPT ![nextId] = [user |-> u, chain |-> name, address |-> a]]
  /\ nextId' = nextId + 1
  /\ UNCHANGED <<rows, chain, req>>

(* The INSERT, under the UNIQUE(user_id, chain, address) of migration 0003.*)
InsertWallet(wallet) ==
  /\ nextId \in WalletIds
  /\ \A w \in Live : wallets[w] # wallet
  /\ wallets' = [wallets EXCEPT ![nextId] = wallet]
  /\ nextId' = nextId + 1

(* The service: the chain is supported and the address not empty.          *)
Registrable(name, a) == Normal[name] \in SupportedChains /\ a # Blank

(* POST /wallets.                                                          *)
AddWallet(u, name, a) ==
  /\ Registrable(name, a)
  /\ InsertWallet([user |-> u, chain |-> Normal[name], address |-> a])
  /\ UNCHANGED <<rows, chain, req>>

(* A wallet with positions cannot go: their foreign key does not cascade.  *)
(* (Nothing writes the two other tables that refer to wallets.)            *)
Referenced(w) == \E k \in Keys : rows[w][k] # NoRow

(* Mutant: the positions go with the wallet, as ON DELETE CASCADE has it.  *)
DeleteWallet_Cascades(u, w) ==
  /\ w \in Live
  /\ wallets[w].user = u
  /\ wallets' = [wallets EXCEPT ![w] = NoWallet]
  /\ rows' = [rows EXCEPT ![w] = [k \in Keys |-> NoRow]]
  /\ UNCHANGED <<nextId, chain, req>>

(* Whether w is in the user's list of wallets.                             *)
Owns(u, w) == w \in Live /\ wallets[w].user = u

(* The DELETE of the row with this id and this user.                       *)
RemoveWallet(u, w) ==
  /\ Owns(u, w)
  /\ ~Referenced(w)
  /\ wallets' = [wallets EXCEPT ![w] = NoWallet]

(* DELETE /wallets/:id.                                                    *)
DeleteWallet(u, w) ==
  /\ RemoveWallet(u, w)
  /\ UNCHANGED <<nextId, rows, chain, req>>

-----------------------------------------------------------------------------
(* The chain: a position is open at one address at most.                   *)
OpenPosition(a, t) ==
  /\ \A b \in HexAddresses : t \notin open[b]
  /\ open' = [open EXCEPT ![a] = @ \cup {t}]
  /\ ever' = ever \cup {<<a, t>>}
  /\ UNCHANGED <<tables, req>>

ClosePosition(a, t) ==
  /\ t \in open[a]
  /\ open' = [open EXCEPT ![a] = @ \ {t}]
  /\ UNCHANGED <<tables, ever, req>>

-----------------------------------------------------------------------------
(* SyncDefiPositions and SyncPositions.                                    *)

(* The two loops: the pending positions, then the next protocol, then nil, *)
(* which the handler answers with 202.                                     *)
Proceed(p, i, saved, pending) ==
  LET r == req[p] IN
  req' = [req EXCEPT ![p] =
    IF pending # {} THEN Saving(r.user, r.wallet, r.account, i, saved, pending)
    ELSE IF i < Len(Protocols) THEN Asking(r.user, r.wallet, r.account, i + 1, saved)
    ELSE Idle(202)]

(* A user asks for wallet id w and a hex address, both as he likes.        *)
BeginSync(p, u, w, a) ==
  /\ req[p].stage = "idle"
  /\ req' = [req EXCEPT ![p] = Verifying(u, w, a)]
  /\ UNCHANGED <<tables, chain>>

(* Mutant: any wallet that exists will do.                                 *)
VerifyOwner_AnyWallet(p) ==
  /\ req[p].stage = "verify"
  /\ IF req[p].wallet \in Live
       THEN Proceed(p, 0, {}, {})
       ELSE req' = [req EXCEPT ![p] = Idle(403)]
  /\ UNCHANGED <<tables, chain>>

(* The wallet must be in the list of the user's wallets.                   *)
VerifyOwner(p) ==
  /\ req[p].stage = "verify"
  /\ IF Owns(req[p].user, req[p].wallet)
       THEN Proceed(p, 0, {}, {})
       ELSE req' = [req EXCEPT ![p] = Idle(403)]
  /\ UNCHANGED <<tables, chain>>

VerifyFails(p) ==
  /\ req[p].stage = "verify"
  /\ req' = [req EXCEPT ![p] = Idle(500)]
  /\ UNCHANGED <<tables, chain>>

(* Mutant: a protocol's client answers with positions of other protocols.  *)
AskProtocol_AnyProtocol(p) ==
  /\ req[p].stage = "ask"
  /\ Proceed(p, req[p].step, req[p].saved, open[req[p].account])
  /\ UNCHANGED <<tables, chain>>

(* proto.GetPositions answers.                                             *)
AskProtocol(p) ==
  /\ req[p].stage = "ask"
  /\ Proceed(p, req[p].step, req[p].saved,
             {t \in open[req[p].account] : ProtocolOf[t] = Protocols[req[p].step]})
  /\ UNCHANGED <<tables, chain>>

(* ... or fails: the protocol is skipped.                                  *)
ProtocolFails(p) ==
  /\ req[p].stage = "ask"
  /\ Proceed(p, req[p].step, req[p].saved, {})
  /\ UNCHANGED <<tables, chain>>

(* INSERT ... ON CONFLICT (wallet_id, protocol, position_type) DO UPDATE,  *)
(* with the name of the protocol that was asked.                           *)
CommitPosition(p, t) ==
  LET r == req[p]
      k == <<Protocols[r.step], TypeOf[t]>>
  IN /\ r.wallet \in Live
     /\ rows' = [rows EXCEPT ![r.wallet][k] =
                   [token |-> t, account |-> r.account, by |-> r.user]]

SavePosition(p, t) ==
  /\ req[p].stage = "save"
  /\ t \in req[p].pending
  /\ CommitPosition(p, t)
  /\ Proceed(p, req[p].step, req[p].saved \cup {t}, req[p].pending \ {t})
  /\ UNCHANGED <<wallets, nextId, chain>>

(* The upsert reports an error, having committed or not: logged, skipped.  *)
SaveFails(p, t) ==
  /\ req[p].stage = "save"
  /\ t \in req[p].pending
  /\ CommitPosition(p, t) \/ UNCHANGED rows
  /\ Proceed(p, req[p].step, req[p].saved, req[p].pending \ {t})
  /\ UNCHANGED <<wallets, nextId, chain>>

(* The process dies and starts again.                                      *)
Restart ==
  /\ req' = [p \in Requests |-> Idle(0)]
  /\ UNCHANGED <<tables, chain>>

RequestStep(p) ==
  \/ VerifyOwner(p)
  \/ VerifyFails(p)
  \/ AskProtocol(p)
  \/ ProtocolFails(p)
  \/ \E t \in Tokens : SavePosition(p, t)
  \/ \E t \in Tokens : SaveFails(p, t)

Next ==
  \/ \E u \in Users, name \in Chains, a \in Addresses : AddWallet(u, name, a)
  \/ \E u \in Users, w \in WalletIds : DeleteWallet(u, w)
  \/ \E a \in HexAddresses, t \in Tokens : OpenPosition(a, t)
  \/ \E a \in HexAddresses, t \in Tokens : ClosePosition(a, t)
  \/ \E p \in Requests, u \in Users, w \in WalletIds, a \in HexAddresses :
       BeginSync(p, u, w, a)
  \/ \E p \in Requests : RequestStep(p)
  \/ Restart

Spec == Init /\ [][Next]_vars

-----------------------------------------------------------------------------
(* Properties.                                                             *)

TypeOK ==
  /\ wallets \in [WalletIds -> Wallet \cup {NoWallet}]
  /\ nextId \in 1..(MaxWallets + 1)
  /\ rows \in [WalletIds -> [Keys -> Row \cup {NoRow}]]
  /\ open \in [HexAddresses -> SUBSET Tokens]
  /\ ever \in SUBSET (HexAddresses \X Tokens)
  /\ req \in [Requests -> ReqState]

(* No user has the same address twice on one chain, however the clients    *)
(* spell the chain.                                                        *)
WalletsAreUnique ==
  \A v, w \in Live :
    /\ wallets[v].user = wallets[w].user
    /\ Normal[wallets[v].chain] = Normal[wallets[w].chain]
    /\ wallets[v].address = wallets[w].address
    => v = w

(* The ownership of a wallet is checked once, before the calls to the      *)
(* protocols.  Whatever is deleted or added meanwhile, a position is only  *)
(* ever stored under a wallet that exists and belongs to the user who      *)
(* asked for the sync.                                                     *)
PositionsBelongToRequester ==
  \A w \in WalletIds, k \in Keys :
    rows[w][k] # NoRow => w \in Live /\ rows[w][k].by = wallets[w].user

(* Every stored position was once open at the address the sync named, and  *)
(* is stored under its own protocol and type, however requests interleave. *)
PositionsWereOpen ==
  \A w \in WalletIds, k \in Keys :
    rows[w][k] # NoRow =>
      /\ <<rows[w][k].account, rows[w][k].token>> \in ever
      /\ Key(rows[w][k].token) = k

(* What a request knows stays true while it runs: no id is given twice, so *)
(* its wallet, while it exists, is the requesting user's.                  *)
IdsNeverReused == \A w \in WalletIds : w >= nextId => wallets[w] = NoWallet

Truthful(r) ==
  /\ r.stage \in {"ask", "save"} =>
       /\ r.wallet < nextId
       /\ r.wallet \in Live => wallets[r.wallet].user = r.user
  /\ r.stage = "save" =>
       \A t \in r.pending :
         <<r.account, t>> \in ever /\ ProtocolOf[t] = Protocols[r.step]

StoredWalletsAreUnique ==
  \A v \in Live :
    /\ Normal[wallets[v].chain] = wallets[v].chain
    /\ \A w \in Live : wallets[v] = wallets[w] => v = w

OpenWasOpened == \A a \in HexAddresses : \A t \in open[a] : <<a, t>> \in ever

(* The inductive invariant.                                                *)
IInv ==
  /\ TypeOK
  /\ IdsNeverReused
  /\ StoredWalletsAreUnique
  /\ OpenWasOpened
  /\ \A p \in Requests : Truthful(req[p])
  /\ PositionsBelongToRequester
  /\ PositionsWereOpen

(* While a sync goes on, every position whose save reported success has a  *)
(* row, its own or one that a position of the same protocol and type has   *)
(* taken over: no deletion of the wallet and no other sync removes it.     *)
SavedKeysAreKept ==
  \A p \in Requests :
    req[p].stage \in {"ask", "save"} =>
      \A t \in req[p].saved : rows[req[p].wallet][Key(t)] # NoRow

(* The two tables as their readers see them behave as a PositionBook:      *)
(* though the ownership is checked long before the rows are written and    *)
(* the deletion of a wallet may come in between, no entry ever appears     *)
(* under another id, key or wallet, and a wallet with entries stays.       *)
Book == INSTANCE PositionBook WITH
          book <- rows, seen <- ever, issued <- 1..(nextId - 1),
          KeyOf <- [t \in Tokens |-> Key(t)]

ImplementsBook == Book!Spec
=============================================================================
