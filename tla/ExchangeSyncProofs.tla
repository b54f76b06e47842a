-------------------------- MODULE ExchangeSyncProofs --------------------------
(***************************************************************************)
(* Proofs about ExchangeSync for every number of users, credentials,       *)
(* requests and revisions: the inductive invariant IInv, what follows from *)
(* it, that rows step back only when syncs overlap, and that the tables    *)
(* behave as a BalanceBook.                                                *)
(***************************************************************************)
EXTENDS SyncOverlaps, TLAPS

(* A sync state is one of the four shapes, told apart by its stage.        *)
LEMMA SyncShapes ==
  ASSUME NEW s \in SyncState
  PROVE  /\ s.stage \in {"idle", "load", "fetch", "save"}
         /\ s.stage = "load" => s = Loading(s.cred) /\ s.cred \in CredIds
         /\ s.stage = "fetch" => s.cred \in CredIds /\ s.user \in Users
         /\ s.stage = "save" =>
              /\ s.cred \in CredIds
              /\ s.user \in Users
              /\ s.rev \in Revs
              /\ s.pending \in SUBSET Assets
  BY DEF SyncState, Loading

(* The shapes the actions build are sync states.                           *)
LEMMA ShapesAreSyncStates ==
  /\ \A e \in Errors : Idle(e) \in SyncState
  /\ \A c \in CredIds : Loading(c) \in SyncState
  /\ \A c \in CredIds, u \in Users : Fetching(c, u) \in SyncState
  /\ \A c \in CredIds, u \in Users, r \in Revs, A \in SUBSET Assets :
       Saving(c, u, r, A) \in SyncState
  BY DEF SyncState, Idle, Loading, Fetching, Saving

LEMMA InitIInv == Init => IInv
<1> SUFFICES ASSUME Init PROVE IInv
  OBVIOUS
<1>1. TypeOK
  <2>1. Idle("none") \in SyncState
    BY ShapesAreSyncStates DEF Errors
  <2>2. creds \in [CredIds -> Credential \cup {NoCred}] /\ account \in [CredIds -> Revs]
    BY BoundsAssumption DEF Init, Revs
  <2>3. nextId \in 1..(MaxCreds + 1)
    BY BoundsAssumption DEF Init
  <2>4. balances \in [CredIds -> [Symbols -> Balance \cup {NoRow}]]
    BY DEF Init
  <2>5. sync \in [Procs -> SyncState]
    BY <2>1 DEF Init
  <2>6. loop \in LoopState /\ tick \in BOOLEAN /\ stopped \in BOOLEAN
    BY DEF Init, NewLoop, LoopState
  <2>7. QED
    BY <2>2, <2>3, <2>4, <2>5, <2>6 DEF TypeOK
<1>2. QED
  BY <1>1 DEF Init, IInv, IdsNeverReused, StoredNamesAreUnique,
     RowsBelongToOwner, RowsWereReported, SyncsAreTruthful, Truthful,
     Idle, Live

-----------------------------------------------------------------------------
(* Type correctness.                                                       *)

(* Every way a sync changes keeps it a sync state.                         *)
LEMMA SyncTypes ==
  ASSUME TypeOK, NEW p \in Procs, NEW t \in SyncState,
         sync' = [sync EXCEPT ![p] = t]
  PROVE  sync' \in [Procs -> SyncState]
  BY DEF TypeOK

LEMMA SaveOrReturnTypes ==
  ASSUME TypeOK, NEW p \in Procs, NEW c \in CredIds, NEW u \in Users,
         NEW r \in Revs, NEW A \in SUBSET Assets, SaveOrReturn(p, c, u, r, A)
  PROVE  sync' \in [Procs -> SyncState]
<1>1. Idle("nil") \in SyncState /\ Saving(c, u, r, A) \in SyncState
  BY ShapesAreSyncStates DEF Errors
<1>2. QED
  BY <1>1 DEF SaveOrReturn, TypeOK

LEMMA SyncStepTypes ==
  ASSUME TypeOK, NEW p \in Procs, SyncStep(p)
  PROVE  TypeOK'
<1>1. sync[p] \in SyncState
  BY DEF TypeOK
<1>2. Idle("nil") \in SyncState /\ Idle("no_rows") \in SyncState /\ Idle("other") \in SyncState
  BY ShapesAreSyncStates DEF Errors
<1>3. ASSUME NEW c \in CredIds, LoadCredential(p, c)
      PROVE  TypeOK'
  <2>1. c \in Live => creds[c].user \in Users
    BY SentinelAssumption DEF TypeOK, Live, Credential
  <2>2. c \in Live => Fetching(c, creds[c].user) \in SyncState
    BY <2>1, ShapesAreSyncStates
  <2>3. sync' \in [Procs -> SyncState]
    BY <1>2, <1>3, <2>2 DEF LoadCredential, TypeOK
  <2>4. QED
    BY <1>3, <2>3 DEF LoadCredential, TypeOK, tables
<1>4. ASSUME NEW c \in CredIds, FetchBalances(p, c)
      PROVE  TypeOK'
  <2>1. sync[p].user \in Users
    BY <1>1, <1>4, SyncShapes DEF FetchBalances
  <2>2. account[c] \in Revs /\ Held[c][account[c]] \in SUBSET Assets
    BY HeldAssumption DEF TypeOK
  <2>3. sync' \in [Procs -> SyncState]
    BY <1>4, <2>1, <2>2, SaveOrReturnTypes DEF FetchBalances
  <2>4. QED
    BY <1>4, <2>3 DEF FetchBalances, TypeOK, tables
<1>5. ASSUME NEW c \in CredIds, NEW a \in Assets, CommitRow(p, c, a)
      PROVE  /\ balances' \in [CredIds -> [Symbols -> Balance \cup {NoRow}]]
             /\ sync[p].user \in Users /\ sync[p].rev \in Revs
             /\ sync[p].pending \in SUBSET Assets
  <2>1. sync[p].user \in Users /\ sync[p].rev \in Revs /\ sync[p].pending \in SUBSET Assets
    BY <1>1, <1>5, SyncShapes DEF CommitRow
  <2>2. [user |-> sync[p].user, rev |-> sync[p].rev] \in Balance
    BY <2>1 DEF Balance
  <2>3. \A row \in Balance : [row EXCEPT !.rev = sync[p].rev] \in Balance
    BY <2>1 DEF Balance
  <2>4. Upper[a] \in Symbols
    BY SpellingAssumption
  <2>5. QED
    BY <1>5, <2>1, <2>2, <2>3, <2>4 DEF CommitRow, TypeOK
<1>6. ASSUME NEW c \in CredIds, NEW a \in Assets, UpsertRow(p, c, a)
      PROVE  TypeOK'
  <2>1. sync' \in [Procs -> SyncState]
    BY <1>5, <1>6, SaveOrReturnTypes DEF UpsertRow
  <2>2. QED
    BY <1>5, <1>6, <2>1 DEF UpsertRow, CommitRow, TypeOK
<1>7. ASSUME NEW c \in CredIds, NEW a \in Assets, UpsertRowUnanswered(p, c, a)
      PROVE  TypeOK'
  <2>1. sync' \in [Procs -> SyncState]
    BY <1>2, <1>7, SyncTypes DEF UpsertRowUnanswered
  <2>2. QED
    BY <1>5, <1>7, <2>1 DEF UpsertRowUnanswered, CommitRow, TypeOK
<1>8. CASE FailSync(p)
  <2>1. sync' \in [Procs -> SyncState]
    BY <1>2, <1>8, SyncTypes DEF FailSync
  <2>2. QED
    BY <1>8, <2>1 DEF FailSync, TypeOK, tables
<1>9. QED
  BY <1>3, <1>4, <1>6, <1>7, <1>8 DEF SyncStep

LEMMA LoopStepTypes ==
  ASSUME TypeOK, LoopStep
  PROVE  TypeOK'
<1>1. CASE ListCredentials
  BY <1>1 DEF ListCredentials, TypeOK, LoopState, Live, tables
<1>2. CASE ListFails
  BY <1>2 DEF ListFails, TypeOK, LoopState, AtSelect, tables
<1>3. ASSUME NEW c \in CredIds, NextCredential(c)
      PROVE  TypeOK'
  <2>1. Loading(c) \in SyncState /\ Loop \in Procs
    BY ShapesAreSyncStates DEF Procs
  <2>2. sync' \in [Procs -> SyncState]
    BY <1>3, <2>1, SyncTypes DEF NextCredential
  <2>3. loop' \in LoopState
    BY <1>3 DEF NextCredential, TypeOK, LoopState
  <2>4. QED
    BY <1>3, <2>2, <2>3 DEF NextCredential, TypeOK, tables
<1>4. CASE EndRun
  BY <1>4 DEF EndRun, TypeOK, LoopState, AtSelect, tables
<1>5. CASE TakeTick
  BY <1>5 DEF TakeTick, TypeOK, LoopState, NewLoop, tables
<1>6. CASE TakeDone
  BY <1>6 DEF TakeDone, TypeOK, LoopState, tables
<1>7. QED
  BY <1>1, <1>2, <1>3, <1>4, <1>5, <1>6 DEF LoopStep

LEMMA NextTypes ==
  ASSUME TypeOK, [Next]_vars
  PROVE  TypeOK'
<1>1. ASSUME NEW u \in Users, NEW name \in Names, AddCredential(u, name)
      PROVE  TypeOK'
  <2>1. [user |-> u, exchange |-> Lower[name]] \in Credential
    BY SpellingAssumption DEF Credential
  <2>2. nextId' \in 1..(MaxCreds + 1)
    BY <1>1, BoundsAssumption DEF AddCredential, InsertCredential, TypeOK, CredIds
  <2>3. QED
    BY <1>1, <2>1, <2>2 DEF AddCredential, InsertCredential, TypeOK, process
<1>2. ASSUME NEW u \in Users, NEW c \in CredIds, DeleteCredential(u, c)
      PROVE  TypeOK'
  BY <1>2 DEF DeleteCredential, TypeOK, process
<1>3. ASSUME NEW c \in CredIds, Trade(c)
      PROVE  TypeOK'
  <2>1. account[c] + 1 \in Revs
    BY <1>3, BoundsAssumption DEF Trade, TypeOK, Revs
  <2>2. QED
    BY <1>3, <2>1 DEF Trade, TypeOK, process, tables
<1>4. ASSUME NEW p \in Requests, NEW c \in CredIds, BeginRequest(p, c)
      PROVE  TypeOK'
  <2>1. Loading(c) \in SyncState /\ p \in Procs
    BY ShapesAreSyncStates DEF Procs
  <2>2. sync' \in [Procs -> SyncState]
    BY <1>4, <2>1, SyncTypes DEF BeginRequest
  <2>3. QED
    BY <1>4, <2>2 DEF BeginRequest, TypeOK, tables
<1>5. CASE TickerFires
  BY <1>5 DEF TickerFires, TypeOK, tables
<1>6. CASE Stop
  BY <1>6 DEF Stop, TypeOK, tables
<1>7. CASE Restart
  <2>1. Idle("none") \in SyncState
    BY ShapesAreSyncStates DEF Errors
  <2>2. QED
    BY <1>7, <2>1 DEF Restart, TypeOK, NewLoop, LoopState, tables
<1>8. CASE UNCHANGED vars
  BY <1>8 DEF vars, TypeOK
<1>9. QED
  BY <1>1, <1>2, <1>3, <1>4, <1>5, <1>6, <1>7, <1>8, SyncStepTypes, LoopStepTypes DEF Next

(* Every variable keeps its type, for any number of concurrent requests.   *)
THEOREM TypeCorrect == Spec => []TypeOK
<1>1. Init => TypeOK
  BY InitIInv DEF IInv
<1>2. TypeOK /\ [Next]_vars => TypeOK'
  BY NextTypes
<1>3. QED
  BY <1>1, <1>2, PTL DEF Spec

-----------------------------------------------------------------------------
(* The inductive invariant.                                                *)

(* The part of IInv that is about the tables alone.                        *)
TablesInv ==
  /\ IdsNeverReused
  /\ StoredNamesAreUnique
  /\ RowsBelongToOwner
  /\ RowsWereReported

(* A step that changes nothing but one sync keeps IInv if the new state of *)
(* that sync is truthful.                                                  *)
LEMMA SyncOnly ==
  ASSUME IInv, TypeOK', NEW p \in Procs, NEW t, Truthful(t),
         sync' = [sync EXCEPT ![p] = t], UNCHANGED <<tables, account>>
  PROVE  IInv'
<1>1. TablesInv'
  BY DEF TablesInv, IInv, IdsNeverReused, StoredNamesAreUnique,
     RowsBelongToOwner, RowsWereReported, Live, tables
<1>2. ASSUME NEW q \in Procs PROVE Truthful(sync[q])'
  <2>1. Truthful(sync[q]) /\ (sync'[q] = IF q = p THEN t ELSE sync[q])
    BY DEF IInv, SyncsAreTruthful, TypeOK
  <2>2. Truthful(sync'[q])
    BY <2>1
  <2>3. QED
    BY <2>2 DEF Truthful, Live, tables
<1>3. QED
  BY <1>1, <1>2 DEF IInv, TablesInv, SyncsAreTruthful

(* An idle or a loading sync has nothing to be wrong about.                *)
LEMMA IdleIsTruthful == \A e : Truthful(Idle(e))
  BY DEF Truthful, Idle

LEMMA LoadingIsTruthful == \A c : Truthful(Loading(c))
  BY DEF Truthful, Loading

LEMMA LoadKeepsIInv ==
  ASSUME IInv, TypeOK', NEW p \in Procs, NEW c \in CredIds, LoadCredential(p, c)
  PROVE  IInv'
<1> DEFINE t == IF c \notin Live THEN Idle("no_rows")
                ELSE IF Lower[creds[c].exchange] \in Supported
                       THEN Fetching(c, creds[c].user)
                       ELSE Idle("other")
<1>1. Truthful(t)
  <2>1. c \in Live => c < nextId
    BY BoundsAssumption DEF IInv, IdsNeverReused, Live, TypeOK, CredIds
  <2>2. c \in Live => Truthful(Fetching(c, creds[c].user))
    BY <2>1 DEF Truthful, Fetching
  <2>3. QED
    BY <2>2, IdleIsTruthful
<1>2. sync' = [sync EXCEPT ![p] = t] /\ UNCHANGED <<tables, account>>
  BY DEF LoadCredential
<1>3. QED
  BY <1>1, <1>2, SyncOnly

LEMMA FetchKeepsIInv ==
  ASSUME IInv, TypeOK', NEW p \in Procs, NEW c \in CredIds, FetchBalances(p, c)
  PROVE  IInv'
<1> DEFINE A == Held[c][account[c]]
           u == sync[p].user
           t == IF A = {} THEN Idle("nil") ELSE Saving(c, u, account[c], A)
<1>1. Truthful(sync[p]) /\ sync[p].stage = "fetch" /\ sync[p].cred = c
  BY DEF IInv, SyncsAreTruthful, FetchBalances
<1>2. Truthful(Saving(c, u, account[c], A))
  <2>1. c < nextId /\ (c \in Live => u = creds[c].user)
    BY <1>1 DEF Truthful
  <2>2. account[c] \in Nat
    BY BoundsAssumption DEF IInv, TypeOK, Revs
  <2>3. QED
    BY <2>1, <2>2 DEF Truthful, Saving
<1>3. Truthful(t)
  BY <1>2, IdleIsTruthful
<1>4. sync' = [sync EXCEPT ![p] = t] /\ UNCHANGED <<tables, account>>
  BY DEF FetchBalances, SaveOrReturn
<1>5. QED
  BY <1>3, <1>4, SyncOnly

(* What a committed row does to the tables, and to the other syncs.        *)
LEMMA CommitFacts ==
  ASSUME IInv, NEW p \in Procs, NEW c \in CredIds, NEW a \in Assets,
         CommitRow(p, c, a)
  PROVE  /\ c \in Live /\ a \in Held[c][sync[p].rev]
         /\ sync[p].rev \in Revs /\ sync[p].rev <= account[c]
         /\ sync[p].user = creds[c].user
         /\ balances' = [balances EXCEPT ![c][Upper[a]] =
                           [user |-> creds[c].user, rev |-> sync[p].rev]]
<1>1. sync[p] \in SyncState /\ Truthful(sync[p])
  BY DEF IInv, TypeOK, SyncsAreTruthful
<1>2. sync[p].stage = "save" /\ sync[p].cred = c /\ c \in Live
  BY DEF CommitRow
<1>3. /\ sync[p].user = creds[c].user
      /\ sync[p].rev \in Revs
      /\ sync[p].rev <= account[c]
      /\ a \in Held[c][sync[p].rev]
  BY <1>1, <1>2, SyncShapes DEF Truthful, CommitRow
<1>4. Upper[a] \in Symbols
  BY SpellingAssumption
<1>5. balances[c][Upper[a]] # NoRow =>
        [balances[c][Upper[a]] EXCEPT !.rev = sync[p].rev]
          = [user |-> creds[c].user, rev |-> sync[p].rev]
  BY <1>4 DEF IInv, TypeOK, RowsBelongToOwner, Balance
<1>6. balances' = [balances EXCEPT ![c][Upper[a]] =
                    [user |-> creds[c].user, rev |-> sync[p].rev]]
  BY <1>3, <1>4, <1>5 DEF CommitRow, IInv, TypeOK
<1>7. QED
  BY <1>2, <1>3, <1>6

LEMMA CommitKeepsTruth ==
  ASSUME IInv, NEW p \in Procs, NEW c \in CredIds, NEW a \in Assets,
         CommitRow(p, c, a)
  PROVE  /\ TablesInv'
         /\ \A s : Truthful(s) /\ s \in SyncState => Truthful(s)'
         /\ balances'[c][Upper[a]] # NoRow
         /\ \A d \in CredIds, z \in Symbols :
              balances[d][z] # NoRow => balances'[d][z] # NoRow
<1> DEFINE row == [user |-> creds[c].user, rev |-> sync[p].rev]
<1>1. /\ c \in Live /\ a \in Held[c][sync[p].rev]
      /\ sync[p].rev \in Revs /\ sync[p].rev <= account[c]
      /\ balances' = [balances EXCEPT ![c][Upper[a]] = row]
  BY CommitFacts
<1>2. UNCHANGED <<creds, nextId, account>>
  BY DEF CommitRow
<1>3. row \in Balance /\ row # NoRow
  <2>1. creds[c].user \in Users
    BY <1>1 DEF IInv, TypeOK, Live, Credential
  <2>2. QED
    BY <1>1, <2>1, SentinelAssumption DEF Balance
<1>4. Upper[a] \in Symbols
  BY SpellingAssumption
<1>5. \A d \in CredIds, z \in Symbols :
        balances'[d][z] = IF d = c /\ z = Upper[a] THEN row ELSE balances[d][z]
  BY <1>1, <1>4 DEF IInv, TypeOK
<1>6. Live' = Live
  BY <1>2 DEF Live
<1>7. IdsNeverReused' /\ StoredNamesAreUnique'
  BY <1>2, <1>6 DEF IInv, IdsNeverReused, StoredNamesAreUnique
<1>8. RowsBelongToOwner'
  BY <1>1, <1>2, <1>5, <1>6 DEF IInv, RowsBelongToOwner
<1>9. RowsWereReported'
  BY <1>1, <1>2, <1>5 DEF IInv, RowsWereReported
<1>10. \A d \in CredIds, z \in Symbols :
         balances[d][z] # NoRow => balances'[d][z] # NoRow
  BY <1>3, <1>5
<1>11. ASSUME NEW s \in SyncState, Truthful(s)
       PROVE  Truthful(s)'
  <2>1. CASE s.stage = "save"
    <3>1. s.cred \in CredIds /\ s.rev \in Revs
      BY <2>1, SyncShapes
    <3>2. Held[s.cred][s.rev] \subseteq Assets
      BY <3>1, HeldAssumption
    <3>3. \A b \in Held[s.cred][s.rev] : Upper[b] \in Symbols
      BY <3>2, SpellingAssumption
    <3>4. QED
      BY <1>2, <1>6, <1>10, <1>11, <2>1, <3>1, <3>3 DEF Truthful
  <2>2. CASE s.stage # "save"
    BY <1>2, <1>6, <1>11, <2>2 DEF Truthful
  <2>3. QED
    BY <2>1, <2>2
<1>12. QED
  BY <1>3, <1>4, <1>5, <1>7, <1>8, <1>9, <1>10, <1>11 DEF TablesInv

(* A committed row, together with any truthful new state of its sync.      *)
LEMMA CommitKeepsIInv ==
  ASSUME IInv, TypeOK', NEW p \in Procs, NEW c \in CredIds, NEW a \in Assets,
         CommitRow(p, c, a),
         NEW t, Truthful(t)', sync' = [sync EXCEPT ![p] = t]
  PROVE  IInv'
<1>1. TablesInv' /\ \A s : Truthful(s) /\ s \in SyncState => Truthful(s)'
  BY CommitKeepsTruth
<1>2. ASSUME NEW q \in Procs PROVE Truthful(sync[q])'
  <2>1. Truthful(sync[q]) /\ sync[q] \in SyncState
    BY DEF IInv, SyncsAreTruthful, TypeOK
  <2>3. sync'[q] = IF q = p THEN t ELSE sync[q]
    BY DEF IInv, TypeOK
  <2>4. CASE q = p
    <3>1. sync'[q] = t
      BY <2>3, <2>4
    <3>2. QED
      BY <3>1 DEF Truthful
  <2>5. CASE q # p
    <3>1. sync'[q] = sync[q]
      BY <2>3, <2>5
    <3>2. \A s : s = sync[q] => (Truthful(s) /\ s \in SyncState => Truthful(s)')
      BY <1>1
    <3>3. QED
      BY <2>1, <3>1, <3>2 DEF Truthful
  <2>6. QED
    BY <2>4, <2>5
<1>3. QED
  BY <1>1, <1>2 DEF IInv, TablesInv, SyncsAreTruthful

LEMMA UpsertKeepsIInv ==
  ASSUME IInv, TypeOK', NEW p \in Procs, NEW c \in CredIds, NEW a \in Assets,
         UpsertRow(p, c, a)
  PROVE  IInv'
<1> DEFINE u == sync[p].user
           r == sync[p].rev
           A == sync[p].pending \ {a}
           t == IF A = {} THEN Idle("nil") ELSE Saving(c, u, r, A)
<1>1. CommitRow(p, c, a) /\ sync' = [sync EXCEPT ![p] = t]
  BY DEF UpsertRow, SaveOrReturn
<1>2. PICK saving : saving = Saving(c, u, r, A)
  OBVIOUS
<1>3. Truthful(saving)'
  <2>1. Truthful(sync[p]) /\ sync[p].stage = "save" /\ sync[p].cred = c
    BY <1>1 DEF IInv, SyncsAreTruthful, CommitRow
  <2>2. c < nextId /\ u = creds[c].user /\ r <= account[c] /\ r \in Revs
    BY <1>1, <2>1, CommitFacts DEF Truthful
  <2>3. A \subseteq Held[c][r]
    BY <2>1 DEF Truthful
  <2>4. ASSUME NEW b \in Held[c][r] \ A PROVE balances'[c][Upper[b]] # NoRow
    <3>1. Upper[b] \in Symbols
      BY <2>2, HeldAssumption, SpellingAssumption
    <3>2. CASE b = a
      BY <1>1, <3>2, CommitKeepsTruth
    <3>3. CASE b # a
      <4>1. balances[c][Upper[b]] # NoRow
        BY <1>1, <2>1, <3>3, CommitFacts DEF Truthful
      <4>2. QED
        BY <1>1, <3>1, <4>1, CommitKeepsTruth
    <3>4. QED
      BY <3>2, <3>3
  <2>5. UNCHANGED <<creds, nextId, account>>
    BY <1>1 DEF CommitRow
  <2>6. /\ saving.stage = "save" /\ saving.cred = c /\ saving.user = u
        /\ saving.rev = r /\ saving.pending = A
    BY <1>2 DEF Saving
  <2>7. QED
    BY <2>2, <2>3, <2>4, <2>5, <2>6 DEF Truthful, Live
<1>4. Truthful(Idle("nil"))'
  BY DEF Truthful, Idle
<1>5. CASE A = {}
  <2>1. sync' = [sync EXCEPT ![p] = Idle("nil")]
    BY <1>1, <1>5
  <2>2. QED
    BY <1>1, <1>4, <2>1, CommitKeepsIInv
<1>6. CASE A # {}
  <2>1. sync' = [sync EXCEPT ![p] = saving]
    BY <1>1, <1>2, <1>6
  <2>2. QED
    BY <1>1, <1>3, <2>1, CommitKeepsIInv
<1>7. QED
  BY <1>5, <1>6

LEMMA SyncStepKeepsIInv ==
  ASSUME IInv, TypeOK', NEW p \in Procs, SyncStep(p)
  PROVE  IInv'
<1>1. ASSUME NEW c \in CredIds, NEW a \in Assets, UpsertRowUnanswered(p, c, a)
      PROVE  IInv'
  <2>1. Truthful(Idle("other"))'
    BY DEF Truthful, Idle
  <2>2. QED
    BY <1>1, <2>1, CommitKeepsIInv DEF UpsertRowUnanswered
<1>2. CASE FailSync(p)
  <2>1. sync' = [sync EXCEPT ![p] = Idle("other")] /\ UNCHANGED <<tables, account>>
    BY <1>2 DEF FailSync
  <2>2. QED
    BY <2>1, IdleIsTruthful, SyncOnly
<1>3. QED
  BY <1>1, <1>2, LoadKeepsIInv, FetchKeepsIInv, UpsertKeepsIInv DEF SyncStep

(* Steps that touch neither the tables nor any sync.                       *)
LEMMA ElsewhereKeepsIInv ==
  ASSUME IInv, TypeOK', UNCHANGED <<tables, account, sync>>
  PROVE  IInv'
  BY DEF IInv, IdsNeverReused, StoredNamesAreUnique, RowsBelongToOwner,
     RowsWereReported, SyncsAreTruthful, Truthful, Live, tables

LEMMA LoopStepKeepsIInv ==
  ASSUME IInv, TypeOK', LoopStep
  PROVE  IInv'
<1>1. ASSUME NEW c \in CredIds, NextCredential(c)
      PROVE  IInv'
  <2>1. sync' = [sync EXCEPT ![Loop] = Loading(c)] /\ Loop \in Procs
    BY <1>1 DEF NextCredential, Procs
  <2>2. UNCHANGED <<tables, account>>
    BY <1>1 DEF NextCredential
  <2>3. QED
    BY <2>1, <2>2, LoadingIsTruthful, SyncOnly
<1>2. CASE ListCredentials
  BY <1>2, ElsewhereKeepsIInv DEF ListCredentials
<1>3. CASE ListFails
  BY <1>3, ElsewhereKeepsIInv DEF ListFails
<1>4. CASE EndRun
  BY <1>4, ElsewhereKeepsIInv DEF EndRun
<1>5. CASE TakeTick
  BY <1>5, ElsewhereKeepsIInv DEF TakeTick
<1>6. CASE TakeDone
  BY <1>6, ElsewhereKeepsIInv DEF TakeDone
<1>7. QED
  BY <1>1, <1>2, <1>3, <1>4, <1>5, <1>6 DEF LoopStep

LEMMA AddKeepsIInv ==
  ASSUME IInv, TypeOK', NEW u \in Users, NEW name \in Names, AddCredential(u, name)
  PROVE  IInv'
<1> DEFINE new == [user |-> u, exchange |-> Lower[name]]
<1>1. /\ nextId \in CredIds /\ creds[nextId] = NoCred
      /\ \A c \in Live : creds[c] # new
      /\ creds' = [creds EXCEPT ![nextId] = new] /\ nextId' = nextId + 1
      /\ UNCHANGED <<balances, account, sync>>
  BY DEF AddCredential, InsertCredential, process, IInv, IdsNeverReused, CredIds
<1>2. new \in Credential /\ new # NoCred /\ Lower[new.exchange] = new.exchange
  BY SpellingAssumption, SentinelAssumption DEF Credential
<1>3. Live' = Live \cup {nextId}
  BY <1>1, <1>2 DEF Live, IInv, TypeOK
<1>4. \A c \in CredIds : c # nextId => creds'[c] = creds[c]
  BY <1>1 DEF IInv, TypeOK
<1>5. creds'[nextId] = new
  BY <1>1 DEF IInv, TypeOK
<1>6. IdsNeverReused'
  BY <1>1, <1>4, BoundsAssumption DEF IInv, IdsNeverReused, CredIds
<1>7. StoredNamesAreUnique'
  BY <1>1, <1>2, <1>3, <1>4, <1>5 DEF IInv, StoredNamesAreUnique, Live
<1>8. nextId \notin Live
  BY <1>1 DEF Live
<1>9. RowsBelongToOwner'
  BY <1>1, <1>3, <1>4, <1>8 DEF IInv, RowsBelongToOwner, Live
<1>10. RowsWereReported'
  BY <1>1 DEF IInv, RowsWereReported
<1>11. ASSUME NEW q \in Procs PROVE Truthful(sync[q])'
  <2>1. sync[q] \in SyncState /\ Truthful(sync[q]) /\ sync'[q] = sync[q]
    BY <1>1 DEF IInv, TypeOK, SyncsAreTruthful
  <2>2. CASE sync[q].stage \in {"fetch", "save"}
    <3>1. sync[q].cred \in CredIds /\ sync[q].cred < nextId
      BY <2>1, <2>2, SyncShapes DEF Truthful
    <3>2. sync[q].cred # nextId /\ sync[q].cred < nextId + 1
      BY <3>1 DEF CredIds, IInv, TypeOK
    <3>3. QED
      BY <1>1, <1>3, <1>4, <2>1, <3>1, <3>2 DEF Truthful
  <2>3. CASE sync[q].stage \notin {"fetch", "save"}
    BY <2>1, <2>3 DEF Truthful
  <2>4. QED
    BY <2>2, <2>3
<1>12. QED
  BY <1>6, <1>7, <1>9, <1>10, <1>11 DEF IInv, SyncsAreTruthful

LEMMA DeleteKeepsIInv ==
  ASSUME IInv, TypeOK', NEW u \in Users, NEW c \in CredIds, DeleteCredential(u, c)
  PROVE  IInv'
<1>1. /\ creds' = [creds EXCEPT ![c] = NoCred]
      /\ balances' = [balances EXCEPT ![c] = [s \in Symbols |-> NoRow]]
      /\ UNCHANGED <<nextId, account, sync>>
  BY DEF DeleteCredential, process
<1>2. Live' = Live \ {c}
  BY <1>1 DEF Live, IInv, TypeOK
<1>3. \A d \in CredIds : d # c => creds'[d] = creds[d] /\ balances'[d] = balances[d]
  BY <1>1 DEF IInv, TypeOK
<1>4. creds'[c] = NoCred /\ \A s \in Symbols : balances'[c][s] = NoRow
  BY <1>1 DEF IInv, TypeOK
<1>5. IdsNeverReused'
  BY <1>1, <1>3, <1>4 DEF IInv, IdsNeverReused
<1>6. StoredNamesAreUnique'
  BY <1>2, <1>3 DEF IInv, StoredNamesAreUnique, Live
<1>7. RowsBelongToOwner'
  BY <1>2, <1>3, <1>4 DEF IInv, RowsBelongToOwner
<1>8. RowsWereReported'
  BY <1>1, <1>3, <1>4 DEF IInv, RowsWereReported
<1>9. ASSUME NEW q \in Procs PROVE Truthful(sync[q])'
  <2>1. Truthful(sync[q]) /\ sync'[q] = sync[q]
    BY <1>1 DEF IInv, SyncsAreTruthful
  <2>2. \A d : d \in Live' => d \in Live /\ creds'[d] = creds[d] /\ balances'[d] = balances[d]
    BY <1>2, <1>3 DEF Live
  <2>3. QED
    BY <1>1, <2>1, <2>2 DEF Truthful
<1>10. QED
  BY <1>5, <1>6, <1>7, <1>8, <1>9 DEF IInv, SyncsAreTruthful

LEMMA TradeKeepsIInv ==
  ASSUME IInv, TypeOK', NEW c \in CredIds, Trade(c)
  PROVE  IInv'
<1>1. /\ account' = [account EXCEPT ![c] = @ + 1]
      /\ UNCHANGED <<creds, nextId, balances, sync>>
  BY DEF Trade, tables, process
<1>2. \A d \in CredIds : account[d] \in Nat /\ account'[d] \in Nat /\ account[d] <= account'[d]
  BY <1>1, BoundsAssumption DEF IInv, TypeOK, Revs
<1>3. Live' = Live
  BY <1>1 DEF Live
<1>4. IdsNeverReused' /\ StoredNamesAreUnique' /\ RowsBelongToOwner'
  BY <1>1, <1>3 DEF IInv, IdsNeverReused, StoredNamesAreUnique, RowsBelongToOwner
<1>5. \A d \in CredIds, s \in Symbols : balances[d][s] # NoRow => balances[d][s].rev \in Nat
  BY BoundsAssumption DEF IInv, TypeOK, Balance, Revs
<1>6. RowsWereReported'
  BY <1>1, <1>2, <1>5 DEF IInv, RowsWereReported
<1>7. ASSUME NEW q \in Procs PROVE Truthful(sync[q])'
  <2>1. sync[q] \in SyncState /\ Truthful(sync[q]) /\ sync'[q] = sync[q]
    BY <1>1 DEF IInv, TypeOK, SyncsAreTruthful
  <2>2. CASE sync[q].stage = "save"
    <3>1. sync[q].cred \in CredIds /\ sync[q].rev \in Nat
      BY <2>1, <2>2, SyncShapes, BoundsAssumption DEF Revs
    <3>2. QED
      BY <1>1, <1>2, <1>3, <2>1, <2>2, <3>1 DEF Truthful
  <2>3. CASE sync[q].stage # "save"
    BY <1>1, <1>3, <2>1, <2>3 DEF Truthful
  <2>4. QED
    BY <2>2, <2>3
<1>8. QED
  BY <1>4, <1>6, <1>7 DEF IInv, SyncsAreTruthful

LEMMA NextKeepsIInv ==
  ASSUME IInv, [Next]_vars
  PROVE  IInv'
<1>1. TypeOK'
  BY NextTypes DEF IInv
<1>2. ASSUME NEW p \in Requests, NEW c \in CredIds, BeginRequest(p, c)
      PROVE  IInv'
  <2>1. sync' = [sync EXCEPT ![p] = Loading(c)] /\ p \in Procs
    BY <1>2 DEF BeginRequest, Procs
  <2>2. UNCHANGED <<tables, account>>
    BY <1>2 DEF BeginRequest
  <2>3. QED
    BY <1>1, <2>1, <2>2, LoadingIsTruthful, SyncOnly
<1>3. CASE TickerFires
  BY <1>1, <1>3, ElsewhereKeepsIInv DEF TickerFires
<1>4. CASE Stop
  BY <1>1, <1>4, ElsewhereKeepsIInv DEF Stop
<1>5. CASE Restart
  <2>1. TablesInv'
    BY <1>5 DEF Restart, tables, TablesInv, IInv, IdsNeverReused,
       StoredNamesAreUnique, RowsBelongToOwner, RowsWereReported, Live
  <2>2. SyncsAreTruthful'
    BY <1>5 DEF Restart, SyncsAreTruthful, Truthful, Idle
  <2>3. QED
    BY <1>1, <2>1, <2>2 DEF IInv, TablesInv
<1>6. CASE UNCHANGED vars
  BY <1>1, <1>6, ElsewhereKeepsIInv DEF vars, tables
<1>7. QED
  BY <1>1, <1>2, <1>3, <1>4, <1>5, <1>6, SyncStepKeepsIInv, LoopStepKeepsIInv,
     AddKeepsIInv, DeleteKeepsIInv, TradeKeepsIInv DEF Next

(* The inductive invariant holds in every reachable state.                 *)
THEOREM IInvHolds == Spec => []IInv
<1>1. Init => IInv
  BY InitIInv
<1>2. IInv /\ [Next]_vars => IInv'
  BY NextKeepsIInv
<1>3. QED
  BY <1>1, <1>2, PTL DEF Spec

-----------------------------------------------------------------------------
(* What follows from the inductive invariant.                              *)

(* Deletions and syncs interleaved in any way never leave a balance row    *)
(* without its credential or under another user's id.                      *)
THEOREM RowsAlwaysBelongToOwner == Spec => []RowsBelongToOwner
<1>1. IInv => RowsBelongToOwner
  BY DEF IInv
<1>2. QED
  BY <1>1, IInvHolds, PTL

(* No row ever holds an amount the exchange did not report for it.         *)
THEOREM RowsAlwaysReported == Spec => []RowsWereReported
<1>1. IInv => RowsWereReported
  BY DEF IInv
<1>2. QED
  BY <1>1, IInvHolds, PTL

(* A user never has two credentials for one exchange, however spelled.     *)
THEOREM ExchangesStayUnique == Spec => []OneCredentialPerExchange
<1>1. IInv => OneCredentialPerExchange
  <2> SUFFICES ASSUME IInv, NEW c \in Live, NEW d \in Live,
                      creds[c].user = creds[d].user,
                      Lower[creds[c].exchange] = Lower[creds[d].exchange]
               PROVE  c = d
    BY DEF OneCredentialPerExchange
  <2>1. creds[c] \in Credential /\ creds[d] \in Credential
    BY DEF IInv, TypeOK, Live
  <2>2. creds[c].exchange = creds[d].exchange
    BY DEF IInv, StoredNamesAreUnique
  <2>3. creds[c] = creds[d]
    BY <2>1, <2>2 DEF Credential
  <2>4. QED
    BY <2>3 DEF IInv, StoredNamesAreUnique
<1>2. QED
  BY <1>1, IInvHolds, PTL

(* When the last upsert of a report makes the call return nil, the earlier *)
(* ones are still in the tables.                                           *)
LEMMA NextAnswersHonestly ==
  ASSUME IInv, Next
  PROVE  NilMeansStored
<1> SUFFICES ASSUME NEW p \in Procs, sync[p].stage = "save",
                    sync'[p].stage = "idle", sync'[p].err = "nil",
                    NEW b \in Held[sync[p].cred][sync[p].rev]
             PROVE  balances'[sync[p].cred][Upper[b]] # NoRow
                      \/ creds'[sync[p].cred] = NoCred
  BY DEF NilMeansStored, Status
<1>0. sync \in [Procs -> SyncState] /\ sync'[p] # sync[p]
  BY DEF IInv, TypeOK, Idle
<1>1. ASSUME NEW q \in Procs, NEW c \in CredIds, NEW a \in Assets, UpsertRow(q, c, a)
      PROVE  balances'[sync[p].cred][Upper[b]] # NoRow
  <2> DEFINE A == sync[q].pending \ {a}
  <2>1. sync' = [sync EXCEPT ![q] = IF A = {} THEN Idle("nil")
                              ELSE Saving(c, sync[q].user, sync[q].rev, A)]
    BY <1>1 DEF UpsertRow, SaveOrReturn
  <2>2. q = p /\ CommitRow(p, c, a)
    BY <1>0, <1>1, <2>1 DEF UpsertRow
  <2>3. A = {}
    BY <1>0, <2>1, <2>2 DEF Idle, Saving
  <2>4. sync[p].cred = c /\ c \in Live /\ Truthful(sync[p]) /\ sync[p].rev \in Revs
    BY <2>2, CommitFacts DEF CommitRow, IInv, SyncsAreTruthful
  <2>5. Upper[b] \in Symbols
    BY <2>4, HeldAssumption, SpellingAssumption
  <2>6. CASE b = a
    BY <2>2, <2>4, <2>6, CommitKeepsTruth
  <2>7. CASE b # a
    <3>1. b \notin sync[p].pending
      BY <2>2, <2>3, <2>7
    <3>2. balances[c][Upper[b]] # NoRow
      BY <2>4, <3>1 DEF Truthful
    <3>3. QED
      BY <2>2, <2>4, <2>5, <3>2, CommitKeepsTruth
  <2>8. QED
    BY <2>6, <2>7
<1>2. ASSUME NEW q \in Procs, SyncStep(q),
             \A c \in CredIds, a \in Assets : ~UpsertRow(q, c, a)
      PROVE  FALSE
  <2>1. ASSUME NEW c \in CredIds, LoadCredential(q, c) PROVE FALSE
    <3>1. sync[q].stage = "load"
      BY <2>1 DEF LoadCredential, Loading
    <3>2. q # p
      BY <3>1
    <3>3. sync'[p] = sync[p]
      BY <1>0, <2>1, <3>2 DEF LoadCredential
    <3>4. QED
      BY <1>0, <3>3
  <2>2. ASSUME NEW c \in CredIds, FetchBalances(q, c) PROVE FALSE
    <3>1. q # p
      BY <2>2 DEF FetchBalances
    <3>2. sync'[p] = sync[p]
      BY <1>0, <2>2, <3>1 DEF FetchBalances, SaveOrReturn
    <3>3. QED
      BY <1>0, <3>2
  <2>3. ASSUME NEW c \in CredIds, NEW a \in Assets, UpsertRowUnanswered(q, c, a)
        PROVE  FALSE
    BY <1>0, <2>3 DEF UpsertRowUnanswered, Idle
  <2>4. CASE FailSync(q)
    BY <1>0, <2>4 DEF FailSync, Idle
  <2>5. QED
    BY <1>2, <2>1, <2>2, <2>3, <2>4 DEF SyncStep
<1>3. ASSUME LoopStep PROVE FALSE
  <2>1. ASSUME NEW c \in CredIds, NextCredential(c) PROVE FALSE
    <3>1. p # Loop
      BY <2>1 DEF NextCredential
    <3>2. sync'[p] = sync[p]
      BY <1>0, <2>1, <3>1 DEF NextCredential
    <3>3. QED
      BY <1>0, <3>2
  <2>2. QED
    BY <1>0, <1>3, <2>1 DEF LoopStep, ListCredentials, ListFails, EndRun, TakeTick, TakeDone
<1>4. ASSUME NEW q \in Requests, NEW c \in CredIds, BeginRequest(q, c) PROVE FALSE
  <2>1. p # q
    BY <1>4 DEF BeginRequest
  <2>2. sync'[p] = sync[p]
    BY <1>0, <1>4, <2>1 DEF BeginRequest
  <2>3. QED
    BY <1>0, <2>2
<1>5. ~Restart
  BY <1>0 DEF Restart, Idle
<1>6. ASSUME NEW u \in Users, NEW name \in Names, AddCredential(u, name) PROVE FALSE
  BY <1>0, <1>6 DEF AddCredential, InsertCredential, process
<1>7. ASSUME NEW u \in Users, NEW c \in CredIds, DeleteCredential(u, c) PROVE FALSE
  BY <1>0, <1>7 DEF DeleteCredential, process
<1>8. ASSUME NEW c \in CredIds, Trade(c) PROVE FALSE
  BY <1>0, <1>8 DEF Trade, process
<1>9. ~TickerFires /\ ~Stop
  BY <1>0 DEF TickerFires, Stop
<1>10. QED
  BY <1>1, <1>2, <1>3, <1>4, <1>5, <1>6, <1>7, <1>8, <1>9 DEF Next

(* A 200 answer is never given for a report that was stored in part.       *)
THEOREM AnswersStayHonest == Spec => SyncAnswersHonestly
<1>1. IInv /\ [Next]_vars => [NilMeansStored]_vars
  BY NextAnswersHonestly
<1>2. QED
  BY <1>1, IInvHolds, PTL DEF Spec, SyncAnswersHonestly

-----------------------------------------------------------------------------
(* Rows step back only when syncs overlap.                                 *)

(* A sync with a report to store either had it before or has just fetched  *)
(* it, and then it is the account as it is.                                *)
LEMMA SaveOrigins ==
  ASSUME IInv, [Next]_vars, NEW p \in Procs, sync'[p].stage = "save"
  PROVE  \/ /\ sync[p].stage = "save"
            /\ sync'[p].cred = sync[p].cred /\ sync'[p].rev = sync[p].rev
         \/ /\ UNCHANGED balances /\ sync'[p].cred \in CredIds
            /\ sync'[p].rev = account[sync'[p].cred]
<1> DEFINE Goal == \/ /\ sync[p].stage = "save"
                      /\ sync'[p].cred = sync[p].cred /\ sync'[p].rev = sync[p].rev
                   \/ /\ UNCHANGED balances /\ sync'[p].cred \in CredIds
                      /\ sync'[p].rev = account[sync'[p].cred]
<1>1. sync \in [Procs -> SyncState]
  BY DEF IInv, TypeOK
<1>2. CASE sync'[p] = sync[p]
  BY <1>2
<1>3. ASSUME NEW q \in Procs, SyncStep(q), q = p PROVE Goal
  <2>1. ASSUME NEW c \in CredIds, FetchBalances(p, c) PROVE Goal
    <3>1. sync'[p] = Saving(c, sync[p].user, account[c], Held[c][account[c]])
      BY <1>1, <2>1 DEF FetchBalances, SaveOrReturn, Idle
    <3>2. sync'[p].cred = c /\ sync'[p].rev = account[c]
      BY <3>1 DEF Saving
    <3>3. QED
      BY <2>1, <3>2 DEF FetchBalances, tables
  <2>2. ASSUME NEW c \in CredIds, NEW a \in Assets, UpsertRow(p, c, a) PROVE Goal
    <3>1. sync'[p] = Saving(c, sync[p].user, sync[p].rev, sync[p].pending \ {a})
      BY <1>1, <2>2 DEF UpsertRow, SaveOrReturn, Idle
    <3>2. QED
      BY <2>2, <3>1 DEF UpsertRow, CommitRow, Saving
  <2>3. ASSUME NEW c \in CredIds, LoadCredential(p, c) PROVE FALSE
    BY <1>1, <2>3 DEF LoadCredential, Idle, Fetching
  <2>4. ASSUME NEW c \in CredIds, NEW a \in Assets, UpsertRowUnanswered(p, c, a) PROVE FALSE
    BY <1>1, <2>4 DEF UpsertRowUnanswered, Idle
  <2>5. CASE FailSync(p)
    BY <1>1, <2>5 DEF FailSync, Idle
  <2>6. QED
    BY <1>3, <2>1, <2>2, <2>3, <2>4, <2>5 DEF SyncStep
<1>4. ASSUME NEW q \in Procs, SyncStep(q), q # p PROVE sync'[p] = sync[p]
  BY <1>1, <1>4 DEF SyncStep, LoadCredential, FetchBalances, UpsertRow, UpsertRowUnanswered,
     FailSync, SaveOrReturn
<1>5. ASSUME NEW c \in CredIds, NextCredential(c) PROVE sync'[p] = sync[p]
  BY <1>1, <1>5 DEF NextCredential, Loading
<1>6. ASSUME NEW q \in Requests, NEW c \in CredIds, BeginRequest(q, c)
      PROVE  sync'[p] = sync[p]
  BY <1>1, <1>6 DEF BeginRequest, Loading
<1>7. ~Restart
  BY DEF Restart, Idle
<1>8. \/ UNCHANGED sync
      \/ \E q \in Procs : SyncStep(q)
      \/ \E c \in CredIds : NextCredential(c)
      \/ \E q \in Requests, c \in CredIds : BeginRequest(q, c)
  BY <1>7 DEF Next, vars, AddCredential, DeleteCredential, Trade, LoopStep, ListCredentials,
     ListFails, EndRun, TakeTick, TakeDone, TickerFires, Stop, process
<1>9. QED
  BY <1>2, <1>3, <1>4, <1>5, <1>6, <1>8

(* Rows change by the upsert of a sync, and else at most disappear.        *)
LEMMA RowOrigins ==
  ASSUME IInv, [Next]_vars
  PROVE  \/ \A c \in CredIds, s \in Symbols : balances'[c][s] \in {NoRow, balances[c][s]}
         \/ \E p \in Procs, c \in CredIds, a \in Assets :
              CommitRow(p, c, a) /\ sync'[p] # sync[p]
<1>1. sync \in [Procs -> SyncState]
  BY DEF IInv, TypeOK
<1>2. ASSUME NEW u \in Users, NEW c \in CredIds, DeleteCredential(u, c)
      PROVE  \A d \in CredIds, s \in Symbols : balances'[d][s] \in {NoRow, balances[d][s]}
  BY <1>2 DEF DeleteCredential, IInv, TypeOK
<1>3. ASSUME NEW p \in Procs, NEW c \in CredIds, NEW a \in Assets, UpsertRow(p, c, a)
      PROVE  CommitRow(p, c, a) /\ sync'[p] # sync[p]
  <2>1. sync[p].stage = "save" /\ a \in sync[p].pending /\ CommitRow(p, c, a)
    BY <1>3 DEF UpsertRow, CommitRow
  <2>2. sync'[p].stage # "save" \/ a \notin sync'[p].pending
    BY <1>1, <1>3 DEF UpsertRow, SaveOrReturn, Idle, Saving
  <2>3. QED
    BY <2>1, <2>2
<1>4. ASSUME NEW p \in Procs, NEW c \in CredIds, NEW a \in Assets,
             UpsertRowUnanswered(p, c, a)
      PROVE  CommitRow(p, c, a) /\ sync'[p] # sync[p]
  BY <1>1, <1>4 DEF UpsertRowUnanswered, CommitRow, Idle
<1>5. \/ UNCHANGED balances
      \/ \E u \in Users, c \in CredIds : DeleteCredential(u, c)
      \/ \E p \in Procs, c \in CredIds, a \in Assets :
           UpsertRow(p, c, a) \/ UpsertRowUnanswered(p, c, a)
  BY DEF Next, vars, AddCredential, Trade, BeginRequest, SyncStep, LoadCredential,
     FetchBalances, FailSync, LoopStep, ListCredentials, ListFails, NextCredential, EndRun,
     TakeTick, TakeDone, TickerFires, Stop, Restart, tables
<1>6. QED
  BY <1>2, <1>3, <1>4, <1>5

(* A sync that has met no other is the only one storing its credential, and*)
(* what it is about to store is at least as new as every row of it.        *)
LoneReportsAreNewest ==
  \A p \in Procs : sync[p].stage = "save" /\ p \notin overlapped =>
    /\ ~Meets(p)
    /\ \A s \in Symbols :
         balances[sync[p].cred][s] # NoRow =>
           balances[sync[p].cred][s].rev <= sync[p].rev

(* What an upsert does to each row.                                        *)
LEMMA CommittedRow ==
  ASSUME IInv, NEW p \in Procs, NEW c \in CredIds, NEW a \in Assets, CommitRow(p, c, a)
  PROVE  /\ sync[p].stage = "save" /\ sync[p].cred = c /\ sync[p].rev \in Nat
         /\ \A d \in CredIds, s \in Symbols :
              \/ balances'[d][s] = balances[d][s]
              \/ d = c /\ balances'[d][s].rev = sync[p].rev
<1>1. Upper[a] \in Symbols /\ sync[p].stage = "save" /\ sync[p].cred = c
  BY SpellingAssumption DEF CommitRow
<1>2. /\ sync[p].rev \in Nat
      /\ balances' = [balances EXCEPT ![c][Upper[a]] =
                        [user |-> creds[c].user, rev |-> sync[p].rev]]
  BY CommitFacts DEF Revs
<1>3. QED
  BY <1>1, <1>2 DEF IInv, TypeOK

LEMMA LoneReportsStayNewest ==
  ASSUME IInv, LoneReportsAreNewest, [OverlapNext]_overlapVars
  PROVE  LoneReportsAreNewest'
<1>1. CASE UNCHANGED overlapVars
  BY <1>1 DEF overlapVars, LoneReportsAreNewest, Meets
<1>2. CASE OverlapNext
  <2> SUFFICES ASSUME NEW p \in Procs, sync'[p].stage = "save", p \notin overlapped'
               PROVE  /\ ~Meets(p)'
                      /\ \A s \in Symbols :
                           balances'[sync'[p].cred][s] # NoRow =>
                             balances'[sync'[p].cred][s].rev <= sync'[p].rev
    BY DEF LoneReportsAreNewest
  <2>1. p \notin overlapped /\ ~Meets(p)' /\ [Next]_vars
    BY <1>2 DEF OverlapNext, NoteOverlaps
  <2>2. CASE /\ UNCHANGED balances /\ sync'[p].cred \in CredIds
             /\ sync'[p].rev = account[sync'[p].cred]
    BY <2>1, <2>2 DEF IInv, RowsWereReported
  <2>3. CASE /\ sync[p].stage = "save"
             /\ sync'[p].cred = sync[p].cred /\ sync'[p].rev = sync[p].rev
    <3>1. sync[p].cred \in CredIds /\ sync[p].rev \in Nat
      BY <2>3, SyncShapes DEF IInv, TypeOK, Revs
    <3>2. /\ ~Meets(p)
          /\ \A s \in Symbols : balances[sync[p].cred][s] # NoRow =>
                                 balances[sync[p].cred][s].rev <= sync[p].rev
      BY <2>1, <2>3 DEF LoneReportsAreNewest
    <3>3. CASE \A c \in CredIds, s \in Symbols :
                 balances'[c][s] \in {NoRow, balances[c][s]}
      BY <2>1, <2>3, <3>1, <3>2, <3>3
    <3>4. ASSUME NEW q \in Procs, NEW c \in CredIds, NEW a \in Assets, CommitRow(q, c, a)
          PROVE  \A s \in Symbols :
                   \/ balances'[sync[p].cred][s] = balances[sync[p].cred][s]
                   \/ balances'[sync[p].cred][s].rev = sync[p].rev
      <4>1. q = p \/ c # sync[p].cred
        BY <3>2, <3>4, CommittedRow DEF Meets
      <4>2. QED
        BY <3>1, <3>4, <4>1, CommittedRow
    <3>5. QED
      BY <2>1, <2>3, <3>1, <3>2, <3>3, <3>4, RowOrigins
  <2>4. QED
    BY <2>1, <2>2, <2>3, SaveOrigins
<1>3. QED
  BY <1>1, <1>2

LEMMA NextRegressesByOverlap ==
  ASSUME IInv, LoneReportsAreNewest, [Next]_vars
  PROVE  NewerRowsStay \/ \E p \in overlapped : sync'[p] # sync[p]
<1>1. \A c \in CredIds, s \in Symbols : balances[c][s] # NoRow => balances[c][s].rev \in Nat
  BY DEF IInv, TypeOK, Balance, Revs
<1>2. CASE \A c \in CredIds, s \in Symbols : balances'[c][s] \in {NoRow, balances[c][s]}
  BY <1>1, <1>2 DEF NewerRowsStay
<1>3. ASSUME NEW p \in Procs, NEW c \in CredIds, NEW a \in Assets,
             CommitRow(p, c, a), sync'[p] # sync[p]
      PROVE  NewerRowsStay \/ \E q \in overlapped : sync'[q] # sync[q]
  <2>1. CASE p \in overlapped
    BY <1>3, <2>1
  <2>2. CASE p \notin overlapped
    <3>1. \A s \in Symbols : balances[c][s] # NoRow => balances[c][s].rev <= sync[p].rev
      BY <1>3, <2>2, CommittedRow DEF LoneReportsAreNewest
    <3>2. QED
      BY <1>1, <1>3, <3>1, CommittedRow DEF NewerRowsStay
  <2>3. QED
    BY <2>1, <2>2
<1>4. QED
  BY <1>2, <1>3, RowOrigins

(* For any number of requests beside the goroutine: an amount is replaced  *)
(* by one of an older report only by a sync that met another one storing   *)
(* the same credential (exchange_service.go locks nothing).                *)
THEOREM RowsStepBackOnlyByOverlap == OverlapSpec => RowsRegressOnlyByOverlap
<1>1. OverlapInit => Init /\ LoneReportsAreNewest
  BY DEF OverlapInit, Init, LoneReportsAreNewest, Idle
<1>2. [OverlapNext]_overlapVars => [Next]_vars
  BY DEF OverlapNext, overlapVars, vars
<1>3. IInv /\ LoneReportsAreNewest /\ [OverlapNext]_overlapVars => LoneReportsAreNewest'
  BY LoneReportsStayNewest
<1>4. IInv /\ LoneReportsAreNewest /\ [OverlapNext]_overlapVars =>
        [NewerRowsStay \/ \E p \in overlapped : sync'[p] # sync[p]]_overlapVars
  BY <1>2, NextRegressesByOverlap
<1>5. OverlapSpec => Spec
  BY <1>1, <1>2, PTL DEF OverlapSpec, Spec
<1>6. QED
  BY <1>1, <1>3, <1>4, <1>5, IInvHolds, PTL DEF OverlapSpec, RowsRegressOnlyByOverlap

-----------------------------------------------------------------------------
(* ExchangeSync implements BalanceBook.                                    *)

LEMMA InitImplementsBook == Init => Book!Init
<1>1. nextId = 1 => 1..(nextId - 1) = {}
  OBVIOUS
<1>2. QED
  BY <1>1 DEF Init, Book!Init

(* A committed row is the recording of a report, everything else a sync    *)
(* does is invisible to readers of the tables.                             *)
LEMMA CommitImplementsRecord ==
  ASSUME IInv, NEW p \in Procs, NEW c \in CredIds, NEW a \in Assets,
         CommitRow(p, c, a)
  PROVE  Book!Next
<1>1. /\ c \in Live /\ a \in Held[c][sync[p].rev]
      /\ sync[p].rev \in Revs /\ sync[p].rev <= account[c]
      /\ balances' = [balances EXCEPT ![c][Upper[a]] =
                        [user |-> creds[c].user, rev |-> sync[p].rev]]
  BY CommitFacts
<1>2. Book!Record(c, a, sync[p].rev)
  BY <1>1 DEF Book!Record, CommitRow, Live
<1>3. QED
  BY <1>1, <1>2 DEF Book!Next, Revs

LEMMA NextImplementsBook ==
  ASSUME IInv, [Next]_vars
  PROVE  [Book!Next]_(Book!bookVars)
<1>1. ASSUME NEW u \in Users, NEW name \in Names, AddCredential(u, name)
      PROVE  Book!Next
  <2>1. Lower[name] \in Names
    BY SpellingAssumption
  <2>2. nextId \in CredIds /\ nextId \in Nat
    BY <1>1 DEF AddCredential, InsertCredential, CredIds
  <2>3. 1..(nextId' - 1) = 1..(nextId - 1) \cup {nextId}
    BY <1>1, <2>2 DEF AddCredential, InsertCredential, CredIds
  <2>4. [user |-> u, exchange |-> Lower[name]] \in Credential
    BY <2>1 DEF Credential
  <2>5. \A d \in CredIds : creds[d] # [user |-> u, exchange |-> Lower[name]]
    BY <1>1, <2>4, SentinelAssumption DEF AddCredential, InsertCredential, Live
  <2>6. Book!Register(nextId, u, Lower[name])
    BY <1>1, <2>2, <2>3, <2>5 DEF Book!Register, AddCredential, InsertCredential
  <2>7. QED
    BY <2>1, <2>2, <2>6 DEF Book!Next
<1>2. ASSUME NEW u \in Users, NEW c \in CredIds, DeleteCredential(u, c)
      PROVE  Book!Next
  <2>1. Book!Withdraw(c)
    BY <1>2 DEF Book!Withdraw, DeleteCredential, Live
  <2>2. QED
    BY <2>1 DEF Book!Next
<1>3. ASSUME NEW c \in CredIds, Trade(c)
      PROVE  Book!Next
  <2>1. Book!Trade(c)
    BY <1>3 DEF Book!Trade, Trade, tables
  <2>2. QED
    BY <2>1 DEF Book!Next
<1>4. ASSUME NEW p \in Procs, SyncStep(p)
      PROVE  Book!Next \/ UNCHANGED <<tables, account>>
  <2>1. ASSUME NEW c \in CredIds, NEW a \in Assets,
               UpsertRow(p, c, a) \/ UpsertRowUnanswered(p, c, a)
        PROVE  Book!Next
    BY <2>1, CommitImplementsRecord DEF UpsertRow, UpsertRowUnanswered
  <2>2. QED
    BY <1>4, <2>1 DEF SyncStep, LoadCredential, FetchBalances, FailSync
<1>5. LoopStep => UNCHANGED <<tables, account>>
  BY DEF LoopStep, ListCredentials, ListFails, NextCredential, EndRun, TakeTick, TakeDone
<1>6. TickerFires \/ Stop \/ Restart => UNCHANGED <<tables, account>>
  BY DEF TickerFires, Stop, Restart
<1>7. \A p, c : BeginRequest(p, c) => UNCHANGED <<tables, account>>
  BY DEF BeginRequest
<1>8. UNCHANGED vars => UNCHANGED <<tables, account>>
  BY DEF vars, tables
<1>9. UNCHANGED <<tables, account>> => UNCHANGED Book!bookVars
  BY DEF tables, Book!bookVars
<1>10. QED
  BY <1>1, <1>2, <1>3, <1>4, <1>5, <1>6, <1>7, <1>8, <1>9 DEF Next

(* Whatever the syncs, the loop, cancellations and restarts do, readers of *)
(* the two tables see a BalanceBook.                                       *)
THEOREM BookImplemented == Spec => ImplementsBook
<1>1. Init => Book!Init
  BY InitImplementsBook
<1>2. IInv /\ [Next]_vars => [Book!Next]_(Book!bookVars)
  BY NextImplementsBook
<1>3. QED
  BY <1>1, <1>2, IInvHolds, PTL DEF Spec, ImplementsBook, Book!Spec
=============================================================================
