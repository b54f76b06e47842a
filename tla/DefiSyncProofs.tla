---------------------------- MODULE DefiSyncProofs ----------------------------
(***************************************************************************)
(* Proofs about DefiSync for every set of users, chains, addresses,        *)
(* protocols, positions and requests: the inductive invariant IInv and     *)
(* what follows from it.                                                   *)
(***************************************************************************)
EXTENDS DefiSync, TLAPS

Busy == {"verify", "ask", "save"}

(* A request is idle or busy for a user, a wallet id and an address.       *)
LEMMA ReqShapes ==
  ASSUME NEW r \in ReqState
  PROVE  /\ r.stage \in Busy \cup {"idle"}
         /\ r.stage \in Busy =>
              r.user \in Users /\ r.wallet \in WalletIds /\ r.account \in HexAddresses
         /\ r.stage \in {"ask", "save"} => r.step \in Steps /\ r.saved \in SUBSET Tokens
         /\ r.stage = "save" => r.pending \in SUBSET Tokens
  BY DEF ReqState, Busy

LEMMA ShapesAreReqStates ==
  /\ \A s \in Statuses : Idle(s) \in ReqState
  /\ \A u \in Users, w \in WalletIds, a \in HexAddresses :
       /\ Verifying(u, w, a) \in ReqState
       /\ \A i \in Steps, S \in SUBSET Tokens :
            /\ Asking(u, w, a, i, S) \in ReqState
            /\ \A P \in SUBSET Tokens : Saving(u, w, a, i, S, P) \in ReqState
  BY DEF ReqState, Idle, Verifying, Asking, Saving

(* A request that only waits or is idle knows nothing to be wrong about.   *)
LEMMA NothingToKnow ==
  ASSUME NEW r, r.stage \in {"idle", "verify"}
  PROVE  Truthful(r)
  BY DEF Truthful

LEMMA InitIInv == Init => IInv
<1> SUFFICES ASSUME Init PROVE IInv
  OBVIOUS
<1>1. TypeOK
  <2>1. Idle(0) \in ReqState
    BY ShapesAreReqStates DEF Statuses
  <2>2. 1 \in 1..(MaxWallets + 1)
    BY WalletsAssumption
  <2>3. QED
    BY <2>1, <2>2 DEF Init, TypeOK
<1>2. Live = {}
  BY DEF Init, Live
<1>3. \A p \in Requests : Truthful(req[p])
  BY NothingToKnow DEF Init, Idle
<1>4. QED
  BY <1>1, <1>2, <1>3 DEF Init, IInv, IdsNeverReused, StoredWalletsAreUnique,
     OpenWasOpened, PositionsBelongToRequester, PositionsWereOpen

-----------------------------------------------------------------------------
(* Steps of the users and of the chain.                                    *)
LEMMA AddWalletStep ==
  ASSUME IInv, NEW u \in Users, NEW name \in Chains, NEW a \in Addresses,
         AddWallet(u, name, a)
  PROVE  IInv'
<1> DEFINE wallet == [user |-> u, chain |-> Normal[name], address |-> a]
<1>1. wallet \in Wallet /\ Normal[wallet.chain] = wallet.chain
  BY WalletsAssumption DEF Wallet
<1>2. /\ nextId \in WalletIds
      /\ \A w \in Live : wallets[w] # wallet
      /\ wallets' = [wallets EXCEPT ![nextId] = wallet]
      /\ nextId' = nextId + 1
      /\ UNCHANGED <<rows, chain, req>>
  BY DEF AddWallet, InsertWallet
<1> HIDE DEF wallet
<1>3. TypeOK'
  BY <1>1, <1>2, WalletsAssumption DEF IInv, TypeOK, WalletIds, chain
<1>4. wallets[nextId] = NoWallet
  BY <1>2, WalletsAssumption DEF IInv, IdsNeverReused, WalletIds
<1>5. /\ \A w \in WalletIds \ {nextId} : wallets'[w] = wallets[w]
      /\ wallets'[nextId] = wallet
  BY <1>2 DEF IInv, TypeOK
<1>6. Live' = Live \cup {nextId} /\ nextId \notin Live
  BY <1>1, <1>2, <1>4, <1>5, WalletsAssumption DEF Live
<1>7. IdsNeverReused'
  BY <1>2, <1>5, WalletsAssumption DEF IInv, IdsNeverReused, WalletIds
<1>8. StoredWalletsAreUnique'
  <2> SUFFICES ASSUME NEW v \in Live'
               PROVE  /\ Normal[wallets'[v].chain] = wallets'[v].chain
                      /\ \A w \in Live' : wallets'[v] = wallets'[w] => v = w
    BY DEF StoredWalletsAreUnique
  <2>1. \A w \in Live : w # nextId /\ wallets'[w] = wallets[w] /\ wallets[w] # wallet
    BY <1>2, <1>5, <1>6 DEF Live
  <2>2. CASE v = nextId
    BY <2>1, <2>2, <1>1, <1>5, <1>6
  <2>3. CASE v \in Live
    BY <2>1, <2>3, <1>5, <1>6 DEF IInv, StoredWalletsAreUnique
  <2>4. QED
    BY <2>2, <2>3, <1>6
<1>9. \A p \in Requests : Truthful(req[p])'
  <2> SUFFICES ASSUME NEW p \in Requests PROVE Truthful(req[p])'
    OBVIOUS
  <2>1. req[p].stage \in Busy => req[p].wallet \in WalletIds
    BY ReqShapes DEF IInv, TypeOK
  <2>2. Truthful(req[p]) /\ req'[p] = req[p] /\ ever' = ever
    BY <1>2 DEF IInv, chain
  <2>3. ASSUME req[p].stage \in {"ask", "save"}
        PROVE  /\ req[p].wallet < nextId'
               /\ req[p].wallet \in Live' => wallets'[req[p].wallet].user = req[p].user
    <3>1. req[p].wallet \in WalletIds /\ req[p].wallet < nextId
      BY <2>1, <2>2, <2>3 DEF Truthful, Busy
    <3>2. req[p].wallet # nextId /\ req[p].wallet < nextId + 1
      BY <3>1, <1>2, WalletsAssumption DEF WalletIds
    <3>3. QED
      BY <3>1, <3>2, <2>2, <2>3, <1>2, <1>5, <1>6 DEF Truthful
  <2>4. QED
    BY <2>2, <2>3 DEF Truthful
<1>10. OpenWasOpened' /\ PositionsWereOpen'
  BY <1>2 DEF IInv, OpenWasOpened, PositionsWereOpen, chain
<1>11. PositionsBelongToRequester'
  BY <1>2, <1>5, <1>6 DEF IInv, PositionsBelongToRequester, Live
<1>12. QED
  BY <1>3, <1>7, <1>8, <1>9, <1>10, <1>11 DEF IInv

LEMMA DeleteWalletStep ==
  ASSUME IInv, NEW u \in Users, NEW w \in WalletIds, DeleteWallet(u, w)
  PROVE  IInv'
<1>1. /\ wallets' = [wallets EXCEPT ![w] = NoWallet]
      /\ UNCHANGED <<nextId, rows, chain, req>>
      /\ \A k \in Keys : rows[w][k] = NoRow
  BY DEF DeleteWallet, RemoveWallet, Referenced
<1>2. TypeOK'
  BY <1>1 DEF IInv, TypeOK, chain
<1>3. /\ \A v \in WalletIds \ {w} : wallets'[v] = wallets[v]
      /\ wallets'[w] = NoWallet
  BY <1>1 DEF IInv, TypeOK
<1>4. Live' = Live \ {w}
  BY <1>3 DEF Live
<1>5. IdsNeverReused' /\ StoredWalletsAreUnique'
  BY <1>1, <1>3, <1>4 DEF IInv, IdsNeverReused, StoredWalletsAreUnique, Live
<1>6. \A p \in Requests : Truthful(req[p])'
  BY <1>1, <1>3, <1>4 DEF IInv, Truthful, Live, chain
<1>7. OpenWasOpened' /\ PositionsWereOpen'
  BY <1>1 DEF IInv, OpenWasOpened, PositionsWereOpen, chain
<1>8. PositionsBelongToRequester'
  BY <1>1, <1>3, <1>4 DEF IInv, PositionsBelongToRequester, Live
<1>9. QED
  BY <1>2, <1>5, <1>6, <1>7, <1>8 DEF IInv

LEMMA ChainStep ==
  ASSUME IInv, NEW a \in HexAddresses, NEW t \in Tokens,
         OpenPosition(a, t) \/ ClosePosition(a, t)
  PROVE  IInv'
<1>1. UNCHANGED <<tables, req>> /\ ever \subseteq ever'
  BY DEF OpenPosition, ClosePosition
<1>2. TypeOK'
  <2>1. CASE OpenPosition(a, t)
    <3>1. open' \in [HexAddresses -> SUBSET Tokens]
      BY <2>1 DEF IInv, TypeOK, OpenPosition
    <3>2. ever' \in SUBSET (HexAddresses \X Tokens)
      BY <2>1 DEF IInv, TypeOK, OpenPosition
    <3>3. QED
      BY <1>1, <3>1, <3>2 DEF IInv, TypeOK, tables
  <2>2. CASE ClosePosition(a, t)
    <3>1. open' \in [HexAddresses -> SUBSET Tokens] /\ ever' = ever
      BY <2>2 DEF IInv, TypeOK, ClosePosition
    <3>2. QED
      BY <1>1, <3>1 DEF IInv, TypeOK, tables
  <2>3. QED
    BY <2>1, <2>2
<1>3. Live' = Live
  BY <1>1 DEF Live, tables
<1>4. IdsNeverReused' /\ StoredWalletsAreUnique' /\ PositionsBelongToRequester'
  BY <1>1, <1>3 DEF IInv, IdsNeverReused, StoredWalletsAreUnique,
     PositionsBelongToRequester, tables
<1>5. OpenWasOpened'
  <2> SUFFICES ASSUME NEW b \in HexAddresses, NEW o \in open'[b]
               PROVE  <<b, o>> \in ever'
    BY DEF OpenWasOpened
  <2>1. o \in open[b] => <<b, o>> \in ever'
    BY <1>1 DEF IInv, OpenWasOpened
  <2>2. o \in open[b] \/ (OpenPosition(a, t) /\ b = a /\ o = t)
    BY DEF IInv, TypeOK, OpenPosition, ClosePosition
  <2>3. QED
    BY <2>1, <2>2 DEF OpenPosition
<1>6. \A p \in Requests : Truthful(req[p])'
  BY <1>1, <1>3 DEF IInv, Truthful, tables
<1>7. PositionsWereOpen'
  BY <1>1 DEF IInv, PositionsWereOpen, tables
<1>8. QED
  BY <1>2, <1>4, <1>5, <1>6, <1>7 DEF IInv
-----------------------------------------------------------------------------
(* Steps of the requests: they leave wallets and chain alone, and keep the *)
(* rows right.                                                             *)
RowsStayRight ==
  /\ UNCHANGED <<wallets, nextId, chain>>
  /\ rows' \in [WalletIds -> [Keys -> Row \cup {NoRow}]]
  /\ PositionsBelongToRequester'
  /\ PositionsWereOpen'

LEMMA UnchangedRowsStayRight ==
  ASSUME IInv, UNCHANGED <<tables, chain>>
  PROVE  RowsStayRight
  BY DEF RowsStayRight, IInv, TypeOK, tables, chain, PositionsBelongToRequester,
     PositionsWereOpen, Live

(* An upsert that commits: the wallet exists, so the foreign key holds, is *)
(* the requester's, because the request is truthful, and the row's key is  *)
(* that of the position, because the protocol that was asked is its own.   *)
LEMMA CommittedRowsAreRight ==
  ASSUME IInv, NEW p \in Requests, NEW t \in Tokens, req[p].stage = "save",
         t \in req[p].pending, CommitPosition(p, t),
         UNCHANGED <<wallets, nextId, chain>>
  PROVE  RowsStayRight
<1> DEFINE r   == req[p]
           key == <<Protocols[r.step], TypeOf[t]>>
           row == [token |-> t, account |-> r.account, by |-> r.user]
<1>1. /\ r.user \in Users /\ r.wallet \in WalletIds /\ r.account \in HexAddresses
      /\ r.step \in Steps
  BY ReqShapes DEF IInv, TypeOK, Busy
<1>2. row \in Row /\ key \in Keys
  BY <1>1, PositionsAssumption DEF Row, Keys, Names
<1>3. Truthful(r)
  BY DEF IInv
<1>4. key = Key(t) /\ <<r.account, t>> \in ever
  BY <1>3 DEF Truthful, Key
<1>5. r.wallet \in Live /\ wallets[r.wallet].user = r.user
  BY <1>3 DEF CommitPosition, Truthful
<1>6. rows' = [rows EXCEPT ![r.wallet] = [rows[r.wallet] EXCEPT ![key] = row]]
  BY DEF CommitPosition
<1> HIDE DEF r, key
<1>7. rows' \in [WalletIds -> [Keys -> Row \cup {NoRow}]]
  BY <1>1, <1>2, <1>6 DEF IInv, TypeOK
<1>8. ASSUME NEW w \in WalletIds, NEW k \in Keys
      PROVE  rows'[w][k] = IF w = r.wallet /\ k = key THEN row ELSE rows[w][k]
  BY <1>1, <1>2, <1>6 DEF IInv, TypeOK
<1>9. Live' = Live
  BY DEF Live
<1>10. PositionsBelongToRequester'
  <2> SUFFICES ASSUME NEW w \in WalletIds, NEW k \in Keys, rows'[w][k] # NoRow
               PROVE  w \in Live /\ rows'[w][k].by = wallets[w].user
    BY <1>9 DEF PositionsBelongToRequester
  <2>1. CASE w = r.wallet /\ k = key
    BY <2>1, <1>5, <1>8
  <2>2. CASE ~(w = r.wallet /\ k = key)
    BY <2>2, <1>8 DEF IInv, PositionsBelongToRequester
  <2>3. QED
    BY <2>1, <2>2
<1>11. PositionsWereOpen'
  <2> SUFFICES ASSUME NEW w \in WalletIds, NEW k \in Keys, rows'[w][k] # NoRow
               PROVE  /\ <<rows'[w][k].account, rows'[w][k].token>> \in ever
                      /\ Key(rows'[w][k].token) = k
    BY DEF PositionsWereOpen, chain, Key
  <2>1. CASE w = r.wallet /\ k = key
    BY <2>1, <1>4, <1>8
  <2>2. CASE ~(w = r.wallet /\ k = key)
    BY <2>2, <1>8 DEF IInv, PositionsWereOpen
  <2>3. QED
    BY <2>1, <2>2
<1>12. QED
  BY <1>7, <1>10, <1>11 DEF RowsStayRight

(* p moves on to a state that is truthful.                                 *)
LEMMA RequestMoves ==
  ASSUME IInv, RowsStayRight, NEW p \in Requests, NEW r \in ReqState, Truthful(r),
         req' = [req EXCEPT ![p] = r]
  PROVE  IInv'
<1>1. TypeOK'
  BY DEF IInv, TypeOK, RowsStayRight, chain
<1>2. Live' = Live
  BY DEF Live, RowsStayRight
<1>3. IdsNeverReused' /\ StoredWalletsAreUnique' /\ OpenWasOpened'
  BY <1>2 DEF IInv, IdsNeverReused, StoredWalletsAreUnique, OpenWasOpened,
     RowsStayRight, chain
<1>4. \A q \in Requests : Truthful(req[q])'
  <2> SUFFICES ASSUME NEW q \in Requests PROVE Truthful(req[q])'
    OBVIOUS
  <2>1. Truthful(req'[q])
    BY DEF IInv, TypeOK
  <2>2. QED
    BY <2>1, <1>2 DEF Truthful, RowsStayRight, chain
<1>5. QED
  BY <1>1, <1>3, <1>4 DEF IInv, RowsStayRight

(* Proceed, when what it is about to save is right.                        *)
LEMMA ProceedStep ==
  ASSUME IInv, RowsStayRight, NEW p \in Requests, req[p].stage \in Busy,
         NEW i \in 0..Len(Protocols), NEW saved \in SUBSET Tokens,
         NEW pending \in SUBSET Tokens, Proceed(p, i, saved, pending),
         req[p].wallet < nextId,
         req[p].wallet \in Live => wallets[req[p].wallet].user = req[p].user,
         pending # {} => i \in Steps,
         \A t \in pending :
           <<req[p].account, t>> \in ever /\ ProtocolOf[t] = Protocols[i]
  PROVE  IInv'
<1> DEFINE r  == req[p]
           to == IF pending # {} THEN Saving(r.user, r.wallet, r.account, i, saved, pending)
                 ELSE IF i < Len(Protocols)
                   THEN Asking(r.user, r.wallet, r.account, i + 1, saved)
                   ELSE Idle(202)
<1>1. r.user \in Users /\ r.wallet \in WalletIds /\ r.account \in HexAddresses
  BY ReqShapes DEF IInv, TypeOK
<1>2. Len(Protocols) \in Nat
  BY PositionsAssumption
<1>3. to \in ReqState
  <2>1. CASE pending # {}
    BY <2>1, <1>1, ShapesAreReqStates
  <2>2. CASE pending = {} /\ i < Len(Protocols)
    <3>1. i + 1 \in Steps
      BY <2>2, <1>2 DEF Steps
    <3>2. QED
      BY <2>2, <3>1, <1>1, ShapesAreReqStates
  <2>3. CASE pending = {} /\ ~(i < Len(Protocols))
    BY <2>3, ShapesAreReqStates DEF Statuses
  <2>4. QED
    BY <2>1, <2>2, <2>3
<1>4. Truthful(to)
  BY DEF Truthful, Saving, Asking, Idle
<1>5. req' = [req EXCEPT ![p] = to]
  BY DEF Proceed
<1> HIDE DEF to
<1>6. QED
  BY <1>3, <1>4, <1>5, RequestMoves

LEMMA VerifyOwnerStep ==
  ASSUME IInv, NEW p \in Requests, VerifyOwner(p)
  PROVE  IInv'
<1>1. RowsStayRight /\ req[p].stage \in Busy
  BY UnchangedRowsStayRight DEF VerifyOwner, Busy
<1>2. CASE Owns(req[p].user, req[p].wallet)
  <2>1. req[p].wallet < nextId
    <3>1. req[p].wallet \in WalletIds /\ wallets[req[p].wallet] # NoWallet
      BY <1>2 DEF Owns, Live
    <3>2. ~(req[p].wallet >= nextId)
      BY <3>1 DEF IInv, IdsNeverReused
    <3>3. QED
      BY <3>1, <3>2, WalletsAssumption DEF IInv, TypeOK, WalletIds
  <2>2. Proceed(p, 0, {}, {}) /\ wallets[req[p].wallet].user = req[p].user
    BY <1>2 DEF VerifyOwner, Owns
  <2>3. 0 \in 0..Len(Protocols)
    BY PositionsAssumption
  <2>4. QED
    BY <1>1, <2>1, <2>2, <2>3, ProceedStep
<1>3. CASE ~Owns(req[p].user, req[p].wallet)
  <2>1. req' = [req EXCEPT ![p] = Idle(403)]
    BY <1>3 DEF VerifyOwner
  <2>2. Idle(403) \in ReqState /\ Truthful(Idle(403))
    BY ShapesAreReqStates, NothingToKnow DEF Statuses, Idle
  <2>3. QED
    BY <1>1, <2>1, <2>2, RequestMoves
<1>4. QED
  BY <1>2, <1>3

(* The protocol answers with positions that are open and its own, or       *)
(* fails, which is as good as none.                                        *)
LEMMA AskProtocolStep ==
  ASSUME IInv, NEW p \in Requests, AskProtocol(p) \/ ProtocolFails(p)
  PROVE  IInv'
<1>1. req[p].stage = "ask" /\ UNCHANGED <<tables, chain>>
  BY DEF AskProtocol, ProtocolFails
<1>2. /\ req[p].account \in HexAddresses /\ req[p].step \in Steps
      /\ req[p].saved \in SUBSET Tokens
  BY <1>1, ReqShapes DEF IInv, TypeOK, Busy
<1>3. /\ req[p].wallet < nextId
      /\ req[p].wallet \in Live => wallets[req[p].wallet].user = req[p].user
  BY <1>1 DEF IInv, Truthful
<1>4. PICK pending \in SUBSET Tokens :
        /\ Proceed(p, req[p].step, req[p].saved, pending)
        /\ \A t \in pending : <<req[p].account, t>> \in ever
                               /\ ProtocolOf[t] = Protocols[req[p].step]
  <2>1. CASE AskProtocol(p)
    <3> DEFINE found == {t \in open[req[p].account] : ProtocolOf[t] = Protocols[req[p].step]}
    <3>1. Proceed(p, req[p].step, req[p].saved, found)
      BY <2>1 DEF AskProtocol
    <3>2. found \in SUBSET Tokens /\ \A t \in found : <<req[p].account, t>> \in ever
      BY <1>2 DEF IInv, TypeOK, OpenWasOpened
    <3>3. QED
      BY <3>1, <3>2
  <2>2. CASE ProtocolFails(p)
    BY <2>2 DEF ProtocolFails
  <2>3. QED
    BY <2>1, <2>2
<1>5. req[p].step \in 0..Len(Protocols)
  BY <1>2, PositionsAssumption DEF Steps
<1>6. RowsStayRight
  BY <1>1, UnchangedRowsStayRight
<1>7. QED
  BY <1>1, <1>2, <1>3, <1>4, <1>5, <1>6, ProceedStep DEF Busy

(* A position was saved, or reported as failed: then it may be there or    *)
(* not.                                                                    *)
LEMMA SaveStep ==
  ASSUME IInv, NEW p \in Requests, NEW t \in Tokens, SavePosition(p, t) \/ SaveFails(p, t)
  PROVE  IInv'
<1>1. /\ req[p].stage = "save" /\ t \in req[p].pending
      /\ CommitPosition(p, t) \/ UNCHANGED rows
      /\ UNCHANGED <<wallets, nextId, chain>>
  BY DEF SavePosition, SaveFails
<1>2. /\ req[p].step \in Steps
      /\ req[p].saved \in SUBSET Tokens /\ req[p].pending \in SUBSET Tokens
  BY <1>1, ReqShapes DEF IInv, TypeOK, Busy
<1>3. /\ req[p].wallet < nextId
      /\ req[p].wallet \in Live => wallets[req[p].wallet].user = req[p].user
      /\ \A o \in req[p].pending :
           <<req[p].account, o>> \in ever /\ ProtocolOf[o] = Protocols[req[p].step]
  BY <1>1 DEF IInv, Truthful
<1>4. PICK saved \in SUBSET Tokens :
        Proceed(p, req[p].step, saved, req[p].pending \ {t})
  BY <1>2 DEF SavePosition, SaveFails
<1>5. req[p].step \in 0..Len(Protocols)
  BY <1>2, PositionsAssumption DEF Steps
<1>6. RowsStayRight
  <2>1. CASE CommitPosition(p, t)
    BY <2>1, <1>1, CommittedRowsAreRight
  <2>2. CASE UNCHANGED rows
    BY <2>2, <1>1, UnchangedRowsStayRight DEF tables
  <2>3. QED
    BY <1>1, <2>1, <2>2
<1>7. req[p].pending \ {t} \in SUBSET Tokens
  BY <1>2
<1>8. QED
  BY <1>1, <1>2, <1>3, <1>4, <1>5, <1>6, <1>7, ProceedStep DEF Busy

LEMMA NextIInv == IInv /\ [Next]_vars => IInv'
<1> SUFFICES ASSUME IInv, [Next]_vars PROVE IInv'
  OBVIOUS
<1>1. ASSUME NEW u \in Users, NEW name \in Chains, NEW a \in Addresses, AddWallet(u, name, a)
      PROVE  IInv'
  BY <1>1, AddWalletStep
<1>2. ASSUME NEW u \in Users, NEW w \in WalletIds, DeleteWallet(u, w) PROVE IInv'
  BY <1>2, DeleteWalletStep
<1>3. ASSUME NEW a \in HexAddresses, NEW t \in Tokens, OpenPosition(a, t) \/ ClosePosition(a, t)
      PROVE  IInv'
  BY <1>3, ChainStep
<1>4. ASSUME NEW p \in Requests, NEW u \in Users, NEW w \in WalletIds,
             NEW a \in HexAddresses, BeginSync(p, u, w, a)
      PROVE  IInv'
  <2>1. Verifying(u, w, a) \in ReqState /\ Truthful(Verifying(u, w, a))
    BY ShapesAreReqStates, NothingToKnow DEF Verifying
  <2>2. RowsStayRight /\ req' = [req EXCEPT ![p] = Verifying(u, w, a)]
    BY <1>4, UnchangedRowsStayRight DEF BeginSync
  <2>3. QED
    BY <2>1, <2>2, RequestMoves
<1>5. ASSUME NEW p \in Requests, VerifyOwner(p) PROVE IInv'
  BY <1>5, VerifyOwnerStep
<1>6. ASSUME NEW p \in Requests, VerifyFails(p) PROVE IInv'
  <2>1. Idle(500) \in ReqState /\ Truthful(Idle(500))
    BY ShapesAreReqStates, NothingToKnow DEF Statuses, Idle
  <2>2. RowsStayRight /\ req' = [req EXCEPT ![p] = Idle(500)]
    BY <1>6, UnchangedRowsStayRight DEF VerifyFails
  <2>3. QED
    BY <2>1, <2>2, RequestMoves
<1>7. ASSUME NEW p \in Requests, AskProtocol(p) \/ ProtocolFails(p) PROVE IInv'
  BY <1>7, AskProtocolStep
<1>8. ASSUME NEW p \in Requests, NEW t \in Tokens, SavePosition(p, t) \/ SaveFails(p, t)
      PROVE  IInv'
  BY <1>8, SaveStep
<1>9. ASSUME Restart PROVE IInv'
  <2>1. /\ req' = [p \in Requests |-> Idle(0)]
        /\ RowsStayRight
    BY <1>9, UnchangedRowsStayRight DEF Restart
  <2>2. Idle(0) \in ReqState /\ Idle(0).stage = "idle"
    BY ShapesAreReqStates DEF Statuses, Idle
  <2>3. TypeOK'
    BY <2>1, <2>2 DEF IInv, TypeOK, RowsStayRight, chain
  <2>4. Live' = Live
    BY <2>1 DEF Live, RowsStayRight
  <2>5. IdsNeverReused' /\ StoredWalletsAreUnique' /\ OpenWasOpened'
    BY <2>1, <2>4 DEF IInv, IdsNeverReused, StoredWalletsAreUnique, OpenWasOpened,
       RowsStayRight, chain
  <2>6. \A p \in Requests : Truthful(req[p])'
    BY <2>1, <2>2 DEF Truthful
  <2>7. QED
    BY <2>1, <2>3, <2>5, <2>6 DEF IInv, RowsStayRight
<1>10. ASSUME UNCHANGED vars PROVE IInv'
  BY <1>10 DEF vars, IInv, TypeOK, IdsNeverReused, StoredWalletsAreUnique, OpenWasOpened,
     Truthful, PositionsBelongToRequester, PositionsWereOpen, Live
<1>11. QED
  BY <1>1, <1>2, <1>3, <1>4, <1>5, <1>6, <1>7, <1>8, <1>9, <1>10 DEF Next, RequestStep

(* The inductive invariant of DefiSync.                                    *)
THEOREM IInvHolds == Spec => []IInv
  BY InitIInv, NextIInv, PTL DEF Spec

(* Type correctness of wallets, positions and requests.                    *)
THEOREM TypeCorrect == Spec => []TypeOK
<1>1. IInv => TypeOK
  BY DEF IInv
<1>2. QED
  BY <1>1, IInvHolds, PTL

(* No user has the same address twice on one chain, whatever the spelling. *)
THEOREM WalletsStayUnique == Spec => []WalletsAreUnique
<1>1. IInv => WalletsAreUnique
  <2> SUFFICES ASSUME IInv, NEW v \in Live, NEW w \in Live,
                      wallets[v].user = wallets[w].user,
                      Normal[wallets[v].chain] = Normal[wallets[w].chain],
                      wallets[v].address = wallets[w].address
               PROVE  v = w
    BY DEF WalletsAreUnique
  <2>1. wallets[v] \in Wallet /\ wallets[w] \in Wallet
    BY DEF IInv, TypeOK, Live
  <2>2. wallets[v].chain = wallets[w].chain
    BY DEF IInv, StoredWalletsAreUnique
  <2>3. wallets[v] = wallets[w]
    BY <2>1, <2>2 DEF Wallet
  <2>4. QED
    BY <2>3 DEF IInv, StoredWalletsAreUnique
<1>2. QED
  BY <1>1, IInvHolds, PTL

(* A position is only ever stored under an existing wallet of the user who *)
(* asked for it, although the ownership was checked long before.           *)
THEOREM PositionsAlwaysBelong == Spec => []PositionsBelongToRequester
<1>1. IInv => PositionsBelongToRequester
  BY DEF IInv
<1>2. QED
  BY <1>1, IInvHolds, PTL

(* A stored position was once open at the address that was asked for, and  *)
(* stands under its own protocol and type.                                 *)
THEOREM PositionsAlwaysWereOpen == Spec => []PositionsWereOpen
<1>1. IInv => PositionsWereOpen
  BY DEF IInv
<1>2. QED
  BY <1>1, IInvHolds, PTL

-----------------------------------------------------------------------------
(* SavedKeysAreKept: no row ever disappears, and a save that reported      *)
(* success has written one.                                                *)
RowsStay ==
  \A w \in WalletIds, k \in Keys : rows[w][k] # NoRow => rows'[w][k] # NoRow

(* An upsert overwrites a row and removes none.                            *)
LEMMA CommitLeavesRows ==
  ASSUME IInv, NEW p \in Requests, NEW t \in Tokens, req[p].stage = "save",
         t \in req[p].pending, CommitPosition(p, t)
  PROVE  /\ RowsStay
         /\ req[p].wallet \in WalletIds /\ Key(t) \in Keys
         /\ rows'[req[p].wallet][Key(t)] # NoRow
<1> DEFINE r   == req[p]
           key == <<Protocols[r.step], TypeOf[t]>>
           row == [token |-> t, account |-> r.account, by |-> r.user]
<1>1. /\ r.user \in Users /\ r.wallet \in WalletIds /\ r.account \in HexAddresses
      /\ r.step \in Steps
  BY ReqShapes DEF IInv, TypeOK, Busy
<1>2. row \in Row /\ key \in Keys /\ row # NoRow
  BY <1>1, PositionsAssumption DEF Row, Keys, Names
<1>3. key = Key(t)
  BY DEF IInv, Truthful, Key
<1>4. rows' = [rows EXCEPT ![r.wallet] = [rows[r.wallet] EXCEPT ![key] = row]]
  BY DEF CommitPosition
<1> HIDE DEF r, key, row
<1>5. ASSUME NEW w \in WalletIds, NEW k \in Keys
      PROVE  rows'[w][k] = IF w = r.wallet /\ k = key THEN row ELSE rows[w][k]
  BY <1>1, <1>2, <1>4 DEF IInv, TypeOK
<1>6. QED
  BY <1>1, <1>2, <1>3, <1>5 DEF RowsStay, r

LEMMA NextLeavesRows ==
  ASSUME IInv, [Next]_vars
  PROVE  RowsStay
<1>1. ASSUME NEW p \in Requests, NEW t \in Tokens, SavePosition(p, t) \/ SaveFails(p, t)
      PROVE  RowsStay
  <2>1. CASE CommitPosition(p, t)
    BY <1>1, <2>1, CommitLeavesRows DEF SavePosition, SaveFails
  <2>2. CASE UNCHANGED rows
    BY <2>2 DEF RowsStay
  <2>3. QED
    BY <1>1, <2>1, <2>2 DEF SavePosition, SaveFails
<1>2. UNCHANGED rows => RowsStay
  BY DEF RowsStay
<1>3. QED
  BY <1>1, <1>2 DEF Next, RequestStep, AddWallet, InsertWallet, DeleteWallet, RemoveWallet, OpenPosition,
     ClosePosition, BeginSync, VerifyOwner, VerifyFails, AskProtocol, ProtocolFails, Restart,
     tables, vars

(* Where Proceed leads, and what it takes along.                           *)
LEMMA ProceedTakesSaved ==
  ASSUME IInv, NEW p \in Requests, NEW i, NEW saved, NEW pending, Proceed(p, i, saved, pending)
  PROVE  /\ \A q \in Requests \ {p} : req'[q] = req[q]
         /\ req'[p].stage \in {"ask", "save"} =>
              req'[p].saved = saved /\ req'[p].wallet = req[p].wallet
<1> DEFINE r  == req[p]
           to == IF pending # {} THEN Saving(r.user, r.wallet, r.account, i, saved, pending)
                 ELSE IF i < Len(Protocols)
                   THEN Asking(r.user, r.wallet, r.account, i + 1, saved)
                   ELSE Idle(202)
<1>1. to.stage \in {"ask", "save"} => to.saved = saved /\ to.wallet = r.wallet
  BY DEF Saving, Asking, Idle
<1>2. req' = [req EXCEPT ![p] = to] /\ req \in [Requests -> ReqState]
  BY DEF Proceed, IInv, TypeOK
<1> HIDE DEF to
<1>3. QED
  BY <1>1, <1>2

SavedInv ==
  \A p \in Requests :
    req[p].stage \in {"ask", "save"} =>
      \A t \in req[p].saved : Key(t) \in Keys /\ rows[req[p].wallet][Key(t)] # NoRow

LEMMA SavedInvStep ==
  ASSUME IInv, SavedInv, [Next]_vars
  PROVE  SavedInv'
<1>1. RowsStay
  BY NextLeavesRows
<1>2. SUFFICES ASSUME NEW q \in Requests, req'[q].stage \in {"ask", "save"}, NEW t \in req'[q].saved
               PROVE  Key(t) \in Keys /\ rows'[req'[q].wallet][Key(t)] # NoRow
  BY DEF SavedInv, Key
<1>3. CASE /\ req[q].stage \in {"ask", "save"} /\ t \in req[q].saved
           /\ req'[q].wallet = req[q].wallet
  <2>1. req[q].wallet \in WalletIds
    BY <1>3, ReqShapes DEF IInv, TypeOK, Busy
  <2>2. QED
    BY <1>1, <1>3, <2>1 DEF SavedInv, RowsStay
<1>4. CASE \E o \in Tokens : SavePosition(q, o)
  <2>1. PICK o \in Tokens : SavePosition(q, o)
    BY <1>4
  <2>2. /\ req[q].stage = "save" /\ o \in req[q].pending /\ CommitPosition(q, o)
        /\ Proceed(q, req[q].step, req[q].saved \cup {o}, req[q].pending \ {o})
    BY <2>1 DEF SavePosition
  <2>3. req'[q].saved = req[q].saved \cup {o} /\ req'[q].wallet = req[q].wallet
    BY <1>2, <2>2, ProceedTakesSaved
  <2>4. CASE t = o
    BY <2>2, <2>3, <2>4, CommitLeavesRows
  <2>5. CASE t # o
    BY <1>2, <1>3, <2>2, <2>3, <2>5
  <2>6. QED
    BY <2>4, <2>5
<1>5. CASE \E p \in Requests : VerifyOwner(p) \/ AskProtocol(p) \/ ProtocolFails(p)
                              \/ (\E o \in Tokens : SavePosition(p, o) /\ p # q)
                              \/ (\E o \in Tokens : SaveFails(p, o))
  <2>1. PICK p \in Requests : VerifyOwner(p) \/ AskProtocol(p) \/ ProtocolFails(p)
                              \/ (\E o \in Tokens : SavePosition(p, o) /\ p # q)
                              \/ (\E o \in Tokens : SaveFails(p, o))
    BY <1>5
  <2>2. CASE p # q
    <3>1. req'[q] = req[q]
      BY <2>1, <2>2, ProceedTakesSaved DEF VerifyOwner, AskProtocol, ProtocolFails, SavePosition,
         SaveFails, IInv, TypeOK
    <3>2. QED
      BY <1>2, <1>3, <3>1
  <2>3. CASE p = q
    <3>1. CASE VerifyOwner(q)
      <4>1. req'[q].saved = {}
        <5>1. CASE Owns(req[q].user, req[q].wallet)
          BY <1>2, <3>1, <5>1, ProceedTakesSaved DEF VerifyOwner
        <5>2. CASE ~Owns(req[q].user, req[q].wallet)
          BY <1>2, <3>1, <5>2 DEF VerifyOwner, Idle, IInv, TypeOK
        <5>3. QED
          BY <5>1, <5>2
      <4>2. QED
        BY <1>2, <4>1
    <3>2. CASE AskProtocol(q) \/ ProtocolFails(q) \/ \E o \in Tokens : SaveFails(q, o)
      <4>1. /\ req[q].stage \in {"ask", "save"}
            /\ req'[q].saved = req[q].saved /\ req'[q].wallet = req[q].wallet
        BY <1>2, <3>2, ProceedTakesSaved DEF AskProtocol, ProtocolFails, SaveFails
      <4>2. QED
        BY <1>2, <1>3, <4>1
    <3>3. QED
      BY <2>1, <2>3, <3>1, <3>2
  <2>4. QED
    BY <2>2, <2>3
<1>6. CASE \/ \E p \in Requests : VerifyFails(p)
           \/ \E p \in Requests, u \in Users, w \in WalletIds, a \in HexAddresses : BeginSync(p, u, w, a)
           \/ Restart
  <2>1. req'[q] = req[q] \/ req'[q].stage \in {"idle", "verify"}
    BY <1>6 DEF VerifyFails, BeginSync, Restart, Idle, Verifying, IInv, TypeOK
  <2>2. QED
    BY <1>2, <1>3, <2>1
<1>7. CASE UNCHANGED req
  BY <1>2, <1>3, <1>7
<1>8. QED
  BY <1>4, <1>5, <1>6, <1>7 DEF Next, RequestStep, AddWallet, DeleteWallet, OpenPosition,
     ClosePosition, vars

(* Whatever is deleted, added or synced meanwhile, the row that a sync's   *)
(* successful save left (UpsertPosition) is there, its own or overwritten. *)
THEOREM SavedKeysStay == Spec => []SavedKeysAreKept
<1>1. Init => SavedInv
  BY DEF Init, SavedInv, Idle
<1>2. IInv /\ SavedInv /\ [Next]_vars => SavedInv'
  BY SavedInvStep
<1>3. SavedInv => SavedKeysAreKept
  BY DEF SavedInv, SavedKeysAreKept
<1>4. QED
  BY <1>1, <1>2, <1>3, IInvHolds, PTL DEF Spec
-----------------------------------------------------------------------------
(* DefiSync implements PositionBook.                                       *)

LEMMA InitImplementsBook == Init => Book!Init
<1>1. nextId = 1 => 1..(nextId - 1) = {}
  OBVIOUS
<1>2. QED
  BY <1>1 DEF Init, Book!Init

LEMMA AddImplementsRegister ==
  ASSUME IInv, NEW u \in Users, NEW name \in Chains, NEW a \in Addresses,
         AddWallet(u, name, a)
  PROVE  Book!Next
<1> DEFINE wallet == [user |-> u, chain |-> Normal[name], address |-> a]
<1>1. Normal[name] \in SupportedChains /\ a \in Addresses \ {Blank}
  BY DEF AddWallet, Registrable
<1>2. wallet \in Wallet
  BY WalletsAssumption DEF Wallet
<1>3. \A v \in WalletIds : wallets[v] # wallet
  BY <1>2, WalletsAssumption DEF AddWallet, InsertWallet, Live
<1>4. nextId \in WalletIds /\ nextId \in Nat
  BY DEF AddWallet, InsertWallet, WalletIds
<1>5. 1..(nextId' - 1) = 1..(nextId - 1) \cup {nextId} /\ nextId \notin 1..(nextId - 1)
  BY <1>4 DEF AddWallet, InsertWallet, WalletIds
<1>. PICK w \in WalletIds : w = nextId
  BY <1>4
<1>6. Book!Register(w, u, Normal[name], a)
  BY <1>3, <1>5 DEF Book!Register, AddWallet, InsertWallet, chain
<1>7. QED
  BY <1>1, <1>6 DEF Book!Next

(* A position that is committed is recorded: as CommittedRowsAreRight has  *)
(* it, its wallet exists and is the requester's, and its key is its own.   *)
LEMMA CommitImplementsRecord ==
  ASSUME IInv, NEW p \in Requests, NEW t \in Tokens, req[p].stage = "save",
         t \in req[p].pending, CommitPosition(p, t),
         UNCHANGED <<wallets, nextId, chain>>
  PROVE  Book!Next
<1>1. /\ req[p].wallet \in WalletIds /\ req[p].account \in HexAddresses
      /\ Truthful(req[p])
  BY ReqShapes DEF IInv, TypeOK, Busy
<1>. PICK w \in WalletIds, a \in HexAddresses : w = req[p].wallet /\ a = req[p].account
  BY <1>1
<1>2. <<Protocols[req[p].step], TypeOf[t]>> = Key(t) /\ <<a, t>> \in ever
  BY <1>1 DEF Truthful, Key
<1>3. w \in Live /\ wallets[w].user = req[p].user
  BY <1>1 DEF CommitPosition, Truthful
<1>4. rows' = [rows EXCEPT ![w][Key(t)] =
                 [token |-> t, account |-> a, by |-> wallets[w].user]]
  BY <1>2, <1>3 DEF CommitPosition
<1>5. Book!Record(w, a, t)
  BY <1>2, <1>3, <1>4 DEF Book!Record, Live, chain
<1>6. QED
  BY <1>5 DEF Book!Next

LEMMA NextImplementsBook ==
  ASSUME IInv, [Next]_vars
  PROVE  [Book!Next]_(Book!bookVars)
<1>1. ASSUME NEW u \in Users, NEW w \in WalletIds, DeleteWallet(u, w)
      PROVE  Book!Next
  <2>1. Book!Withdraw(w)
    BY <1>1 DEF Book!Withdraw, DeleteWallet, RemoveWallet, Owns, Referenced, Live, chain
  <2>2. QED
    BY <2>1 DEF Book!Next
<1>2. ASSUME NEW a \in HexAddresses, NEW t \in Tokens, OpenPosition(a, t)
      PROVE  Book!Next
  <2>1. Book!Appear(a, t)
    BY <1>2 DEF Book!Appear, OpenPosition, tables
  <2>2. QED
    BY <2>1 DEF Book!Next
<1>3. ASSUME NEW p \in Requests, NEW t \in Tokens, SavePosition(p, t) \/ SaveFails(p, t)
      PROVE  Book!Next \/ UNCHANGED <<tables, ever>>
  <2>1. /\ req[p].stage = "save" /\ t \in req[p].pending
        /\ UNCHANGED <<wallets, nextId, chain>>
    BY <1>3 DEF SavePosition, SaveFails
  <2>2. CASE CommitPosition(p, t)
    BY <2>1, <2>2, CommitImplementsRecord
  <2>3. CASE UNCHANGED rows
    BY <2>1, <2>3 DEF tables, chain
  <2>4. QED
    BY <1>3, <2>2, <2>3 DEF SavePosition, SaveFails
<1>4. ASSUME NEW p \in Requests,
             \/ VerifyOwner(p) \/ VerifyFails(p) \/ AskProtocol(p) \/ ProtocolFails(p)
             \/ \E u \in Users, w \in WalletIds, a \in HexAddresses : BeginSync(p, u, w, a)
      PROVE  UNCHANGED <<tables, ever>>
  BY <1>4 DEF VerifyOwner, VerifyFails, AskProtocol, ProtocolFails, BeginSync, chain
<1>5. \A a, t : ClosePosition(a, t) => UNCHANGED <<tables, ever>>
  BY DEF ClosePosition
<1>6. Restart \/ UNCHANGED vars => UNCHANGED <<tables, ever>>
  BY DEF Restart, vars, tables, chain
<1>7. UNCHANGED <<tables, ever>> => UNCHANGED Book!bookVars
  BY DEF tables, Book!bookVars
<1>8. QED
  BY <1>1, <1>2, <1>3, <1>4, <1>5, <1>6, <1>7, AddImplementsRegister
     DEF Next, RequestStep

(* Whatever syncs, deletions, failures and restarts do, readers of the     *)
(* wallets and of their positions (defi_store.go) see a PositionBook.      *)
THEOREM BookImplemented == Spec => ImplementsBook
<1>1. Init => Book!Init
  BY InitImplementsBook
<1>2. IInv /\ [Next]_vars => [Book!Next]_(Book!bookVars)
  BY NextImplementsBook
<1>3. QED
  BY <1>1, <1>2, IInvHolds, PTL DEF Spec, ImplementsBook, Book!Spec
=============================================================================
