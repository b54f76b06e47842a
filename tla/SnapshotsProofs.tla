--------------------------- MODULE SnapshotsProofs ---------------------------
(***************************************************************************)
(* For any environments, users, requests and bounds: a save that was       *)
(* answered stays, saves and histories are in order, whoever is served was *)
(* let in, tokens live as long as configured, and the process panics only  *)
(* on an interval that overflows.                                          *)
(*                                                                         *)
(* The argument is IInv of Snapshots: what a save has read is no older     *)
(* than the saves that were answered before it came, and what it is about  *)
(* to commit is its own.  KeepsIInv reduces every step of a request to     *)
(* what is true of the state that the request goes to.                     *)
(***************************************************************************)
EXTENDS Snapshots, TLAPS

-----------------------------------------------------------------------------
(* Arithmetic of 64 bits.                                                  *)
LEMMA ConstantsArePositive ==
  /\ Half \in Nat /\ Half > 24 /\ Second \in Nat /\ Second >= 1
  /\ Hour \in Nat /\ Hour >= 1
<1>1. Second \in Nat /\ Second >= 1 /\ Half \in Nat /\ 24 * (3600 * Second) < Half
  BY ServerAssumption DEF Hour
<1>2. QED
  BY <1>1 DEF Hour

LEMMA ModOfSmall ==
  ASSUME NEW m \in Nat, NEW a \in Nat, a < m
  PROVE  a % m = a
OBVIOUS

(* What fits is not changed.                                               *)
LEMMA WrapOfFitting ==
  ASSUME NEW x \in Nat, x < Half
  PROVE  Wrap(x) = x
<1>1. Half \in Nat
  BY ConstantsArePositive
<1>2. x + Half \in Nat /\ 2 * Half \in Nat /\ x + Half < 2 * Half
  BY <1>1
<1>3. (x + Half) % (2 * Half) = x + Half
  BY <1>2, ModOfSmall
<1>4. QED
  BY <1>1, <1>3 DEF Wrap

LEMMA WrapIsInt ==
  ASSUME NEW x \in Int
  PROVE  Wrap(x) \in Int
<1>1. Half \in Nat /\ 2 * Half > 0
  BY ConstantsArePositive
<1>2. (x + Half) % (2 * Half) \in Int
  BY <1>1
<1>3. QED
  BY <1>1, <1>2 DEF Wrap

LEMMA ProductIsNat ==
  ASSUME NEW a \in Nat, NEW b \in Nat
  PROVE  a * b \in Nat
OBVIOUS

LEMMA ProductsAreOrdered ==
  ASSUME NEW a \in Nat, NEW b \in Nat, NEW k \in Nat, k >= 1
  PROVE  a * k < b * k <=> a < b
<1>1. ASSUME a < b PROVE a * k < b * k
  <2>1. PICK c \in Nat : b = a + 1 + c
    <3>1. b - a - 1 \in Nat /\ b = a + 1 + (b - a - 1)
      BY <1>1
    <3>2. QED
      BY <3>1
  <2>2. b * k = a * k + k + c * k /\ c * k \in Nat /\ a * k \in Nat
    BY <2>1
  <2>3. QED
    BY <2>2
<1>2. ASSUME b <= a PROVE b * k <= a * k
  <2>1. PICK c \in Nat : a = b + c
    <3>1. a - b \in Nat /\ a = b + (a - b)
      BY <1>2
    <3>2. QED
      BY <3>1
  <2>2. a * k = b * k + c * k /\ c * k \in Nat /\ b * k \in Nat
    BY <2>1
  <2>3. QED
    BY <2>2
<1>3. a * k \in Nat /\ b * k \in Nat
  OBVIOUS
<1>4. QED
  BY <1>1, <1>2, <1>3

(* A setting is positive and an int.                                       *)
LEMMA NumberIsPositive ==
  ASSUME env \in Envs, NEW s \in Settings
  PROVE  Number(s) \in 1..(Half - 1)
<1>1. Default[s] \in {60, 300, 900, 24}
  BY DEF Default, Settings, Loops
<1>2. Default[s] \in 1..(Half - 1)
  <2>1. Second \in Nat /\ Second >= 1 /\ Half \in Nat /\ 24 * (3600 * Second) < Half
    BY ServerAssumption DEF Hour
  <2>2. 900 < Half
    BY <2>1
  <2>3. QED
    BY <1>1, <2>1, <2>2
<1>3. QED
  BY <1>2 DEF Number

-----------------------------------------------------------------------------
(* The process.                                                            *)

(* A token that is handed out is one, and dated now.                       *)
LEMMA FreshIsToken ==
  ASSUME ServerTypeOK, NEW u \in Users
  PROVE  /\ Fresh(u) \in Token
         /\ Fresh(u).born = now /\ Fresh(u).hours \in 1..(Half - 1)
         /\ Fresh(u).exp = now * Hour + Wrap(Fresh(u).hours * Hour)
<1> DEFINE h == Number("JWT_EXPIRY_HOURS")
<1>1. h \in 1..(Half - 1) /\ h \in Nat
  <2>1. "JWT_EXPIRY_HOURS" \in Settings /\ Half \in Nat
    BY ConstantsArePositive DEF Settings
  <2>2. QED
    BY <2>1, NumberIsPositive DEF ServerTypeOK
<1>2. env.secret \in Secrets /\ now \in Nat
  BY EnvAssumption, ServerAssumption DEF ServerTypeOK
<1>3. now * Hour + Wrap(h * Hour) \in Int
  BY <1>1, <1>2, ConstantsArePositive, ProductIsNat, WrapIsInt
<1>4. QED
  BY <1>1, <1>2, <1>3 DEF Fresh, Token

(* What a step of the process does to what requests depend on: a new       *)
(* environment comes only to a process that is down, which starts with no  *)
(* request, and tokens and time only grow.                                 *)
LEMMA ServerNextFacts ==
  ASSUME ServerTypeOK, TokensAreDated, ServerNext
  PROVE  /\ ServerTypeOK' /\ TokensAreDated'
         /\ now <= now' /\ tokens \subseteq tokens'
         /\ proc' = "down" \/ (env' = env /\ (proc = "serve" => proc' = "serve"))
<1> USE DEF ServerTypeOK
<1>1. CASE Redeploy
  BY <1>1, ServerAssumption DEF Redeploy, TokensAreDated
<1>2. CASE Load \/ Fatal \/ Kill \/ \E loop \in Loops : NewTicker(loop)
  BY <1>2, ServerAssumption DEF Load, Fatal, Kill, NewTicker, End, Stages, Ends, TokensAreDated
<1>3. CASE Connect \/ Dial \/ Run
  BY <1>3, ServerAssumption DEF Connect, Dial, Run, Stages, TokensAreDated
<1>4. CASE \E u \in Users : GenerateToken(u)
  <2>1. PICK u \in Users : GenerateToken(u)
    BY <1>4
  <2>2. UNCHANGED <<env, proc, starting, ended, now>> /\ tokens' = tokens \cup {Fresh(u)}
    BY <2>1 DEF GenerateToken
  <2>3. ServerTypeOK'
    BY <2>2, FreshIsToken
  <2>4. TokensAreDated'
    <3>1. SUFFICES ASSUME NEW t \in tokens' PROVE
            /\ t.born <= now' /\ t.hours \in 1..(Half - 1)
            /\ t.exp = t.born * Hour + Wrap(t.hours * Hour)
      BY DEF TokensAreDated
    <3>2. CASE t \in tokens
      BY <2>2, <3>2 DEF TokensAreDated
    <3>3. CASE t = Fresh(u)
      BY <2>2, <3>3, FreshIsToken, ServerAssumption
    <3>4. QED
      BY <2>2, <3>1, <3>2, <3>3
  <2>5. QED
    BY <2>2, <2>3, <2>4, ServerAssumption
<1>5. CASE Clock
  <2>1. now' = now + 1 /\ now' \in 0..MaxNow /\ UNCHANGED <<env, proc, starting, ended, tokens>>
    BY <1>5, ServerAssumption DEF Clock
  <2>2. \A t \in tokens : t.born <= now'
    BY <2>1 DEF TokensAreDated, Token
  <2>3. QED
    BY <2>1, <2>2 DEF TokensAreDated
<1>6. QED
  BY <1>1, <1>2, <1>3, <1>4, <1>5 DEF ServerNext

(* Only an interval that overflows panics.                                 *)
LEMMA TickerPanicsOnOverflow ==
  ASSUME ServerTypeOK, NEW loop \in Loops, ~(Interval(loop) > 0)
  PROVE  ~IntervalsFit
<1> DEFINE n == Number(loop)
<1>1. n \in 1..(Half - 1) /\ n \in Nat /\ n >= 1 /\ Half \in Nat
  BY NumberIsPositive, ConstantsArePositive DEF ServerTypeOK, Settings
<1>2. n * Second \in Nat /\ n * Second >= 1
  <2>1. 0 * Second < n * Second
    BY <1>1, ConstantsArePositive, ProductsAreOrdered
  <2>2. n * Second \in Nat
    BY <1>1, ConstantsArePositive, ProductIsNat
  <2>3. QED
    BY <2>1, <2>2, ConstantsArePositive
<1>3. loop # "PRICE_SYNC_INTERVAL_S"
  <2>1. Default["PRICE_SYNC_INTERVAL_S"] = 60
    BY DEF Default, Settings, Loops
  <2>2. Default["PRICE_SYNC_INTERVAL_S"] * Second > 0
    BY <2>1, ConstantsArePositive
  <2>3. Wrap(n * Second) \in Int
    BY <1>2, WrapIsInt
  <2>4. QED
    BY <2>2, <2>3 DEF Interval
<1>4. ~(Wrap(n * Second) > 0)
  BY <1>3 DEF Interval
<1>5. ~(n * Second < Half)
  BY <1>2, <1>4, WrapOfFitting
<1>6. QED
  BY <1>3, <1>5 DEF IntervalsFit, Fits

-----------------------------------------------------------------------------
(* Requests.  What each shape of a request's state holds.                  *)
LEMMA RequestShapes ==
  ASSUME NEW r \in ReqState
  PROVE  /\ r.stage = "header" => r.user \in Users /\ r.after \subseteq Ids
         /\ r.stage = "history" => r.user \in Users
         /\ r.stage = "balance" => r.user \in Users /\ r.after \subseteq Ids /\ r.block \in Blocks
         /\ r.stage \in {"snapshot", "asset", "commit"} =>
              r.user \in Users /\ r.row \in Row /\ r.id \in 0..MaxIds
         /\ r.stage = "listed" => r.list \subseteq Ids /\ r.missed \subseteq Ids
         /\ r.stage \in {"idle", "listed", "header", "history", "balance",
                         "snapshot", "asset", "commit"}
BY DEF ReqState

LEMMA IdleIsQuiet == Idle \in ReqState /\ Idle.stage = "idle" /\ RequestKnows(Idle)
BY DEF Idle, ReqState, RequestKnows

(* Whoever is being served when another step of the same process comes is  *)
(* still admitted after it.                                                *)
LEMMA StillAdmitted ==
  ASSUME IInv, UNCHANGED <<server>>, NEW p \in Requests,
         req[p].stage \notin Answered
  PROVE  proc' = "serve" /\ \E t \in tokens' : t.user = req[p].user /\ t.secret = env'.secret
BY DEF IInv, InFlightWereAdmitted, server

(* A request moves to a state it may be in, and nothing else changes.      *)
LEMMA MoveKeepsIInv ==
  ASSUME IInv, UNCHANGED <<server, tables, nextId, head, saved>>,
         NEW p \in Requests, NEW state \in ReqState, GoTo(p, state),
         RequestKnows(state),
         state.stage \in {"asset", "commit"} =>
           req[p].stage \in {"asset", "commit"} /\ req[p].id = state.id,
         state.stage = "listed" =>
           \A i \in state.list, j \in state.missed :
             i \in snapshots[j].after => snapshots[j].time = snapshots[i].time,
         state.stage \notin Answered =>
           proc = "serve" /\ \E t \in tokens : t.user = state.user /\ t.secret = env.secret
  PROVE  IInv'
<1>1. /\ req' = [req EXCEPT ![p] = state] /\ req \in [Requests -> ReqState]
      /\ req' \in [Requests -> ReqState]
      /\ UNCHANGED <<env, proc, starting, ended, tokens, now, snapshots, assets, nextId, head, saved>>
  BY DEF GoTo, IInv, TypeOK, server, tables
<1>2. req'[p] = state /\ \A q \in Requests \ {p} : req'[q] = req[q]
  BY <1>1
<1>3. TypeOK' /\ TokensAreDated' /\ SavesAreDurable' /\ SequentialSavesAreInOrder' /\ RowsArePast'
  BY <1>1 DEF IInv, TypeOK, ServerTypeOK, TokensAreDated, SavesAreDurable, SnapshotsAreWhole,
       Committed, SequentialSavesAreInOrder, RowsArePast, After
<1>4. HistoriesKeepNewest'
  BY <1>1, <1>2 DEF IInv, HistoriesKeepNewest
<1>5. InFlightWereAdmitted'
  BY <1>1, <1>2 DEF IInv, InFlightWereAdmitted
<1>6. \A q \in Requests : RequestKnows(req[q])'
  <2>1. ASSUME NEW q \in Requests, RequestKnows(req'[q]) PROVE RequestKnows(req[q])'
    BY <1>1, <2>1 DEF RequestKnows, Committed, After
  <2>2. \A q \in Requests : RequestKnows(req'[q])
    BY <1>2 DEF IInv
  <2>3. QED
    BY <2>1, <2>2
<1>7. IdsAreApart'
  BY <1>1, <1>2 DEF IInv, IdsAreApart
<1>8. QED
  BY <1>3, <1>4, <1>5, <1>6, <1>7 DEF IInv

LEMMA BeginKeepsIInv ==
  ASSUME IInv, NEW p \in Requests, NEW t \in tokens, BeginSave(p, t) \/ BeginHistory(p, t)
  PROVE  IInv'
<1>1. t.user \in Users /\ t.secret = env.secret /\ proc = "serve"
  BY DEF BeginSave, BeginHistory, Admit, Accepts, IInv, TypeOK, ServerTypeOK, Token
<1>2. CASE BeginSave(p, t)
  <2>1. AtHeader(t.user) \in ReqState
    BY <1>1 DEF AtHeader, ReqState, IInv, TypeOK
  <2>2. RequestKnows(AtHeader(t.user))
    BY DEF AtHeader, RequestKnows, IInv, SavesAreDurable
  <2>3. AtHeader(t.user).stage = "header" /\ AtHeader(t.user).user = t.user
    BY DEF AtHeader
  <2>4. QED
    BY <1>1, <1>2, <2>1, <2>2, <2>3, MoveKeepsIInv DEF BeginSave, Admit
<1>3. CASE BeginHistory(p, t)
  <2>1. AtHistory(t.user) \in ReqState /\ RequestKnows(AtHistory(t.user))
    BY <1>1 DEF AtHistory, ReqState, RequestKnows
  <2>2. AtHistory(t.user).stage = "history" /\ AtHistory(t.user).user = t.user
    BY DEF AtHistory
  <2>3. QED
    BY <1>1, <1>3, <2>1, <2>2, MoveKeepsIInv DEF BeginHistory, Admit
<1>4. QED
  BY <1>2, <1>3

(* The header is no older than any saved row's, since rows are past.       *)
LEMMA HeaderKeepsIInv ==
  ASSUME IInv, NEW p \in Requests, HeaderByNumber(p)
  PROVE  IInv'
<1> DEFINE r == req[p]
           state == [stage |-> "balance", user |-> r.user, after |-> r.after, block |-> head]
<1>1. r \in ReqState /\ r.stage = "header" /\ head \in Blocks
  BY DEF HeaderByNumber, IInv, TypeOK
<1>2. r.user \in Users /\ r.after \subseteq Ids
  BY <1>1, RequestShapes
<1>3. state \in ReqState
  BY <1>1, <1>2 DEF ReqState
<1>4. r.after \subseteq Committed /\ \A i \in r.after : snapshots[i].block <= head
  BY <1>1 DEF IInv, RequestKnows, RowsArePast, After
<1>5. RequestKnows(state)
  <2>1. head <= head
    BY <1>1, SnapshotsAssumption DEF Blocks
  <2>2. state.stage = "balance" /\ state.block = head /\ state.after = r.after
    OBVIOUS
  <2> HIDE DEF state
  <2>3. QED
    BY <1>4, <2>1, <2>2 DEF RequestKnows
<1>6. r.stage \notin Answered
  BY <1>1 DEF Answered
<1>7. QED
  BY <1>3, <1>5, <1>6, MoveKeepsIInv DEF HeaderByNumber, IInv, InFlightWereAdmitted

(* So is the time, which is taken now.                                     *)
LEMMA BalanceKeepsIInv ==
  ASSUME IInv, NEW p \in Requests, BalanceAt(p)
  PROVE  IInv'
<1> DEFINE r == req[p]
           row == [time |-> now, block |-> r.block, after |-> r.after]
           state == With(r, "snapshot", row, 0)
<1>1. r \in ReqState /\ r.stage = "balance" /\ now \in 0..MaxNow
  BY DEF BalanceAt, IInv, TypeOK, ServerTypeOK
<1>2. r.user \in Users /\ r.after \subseteq Ids /\ r.block \in Blocks
  BY <1>1, RequestShapes
<1>3. row \in Row /\ 0 \in 0..MaxIds
  BY <1>1, <1>2, SnapshotsAssumption DEF Row
<1>4. state \in ReqState /\ state.stage = "snapshot" /\ state.user = r.user /\ state.row = row
  BY <1>2, <1>3 DEF ReqState, With
<1>5. /\ r.block <= head /\ r.after \subseteq Committed
      /\ \A i \in r.after : snapshots[i].block <= r.block /\ snapshots[i].time <= now
  BY <1>1 DEF IInv, RequestKnows, RowsArePast, After
<1>6. \A i \in row.after : After(i, row.time, row.block)
  BY <1>5 DEF After
<1>7. RequestKnows(state)
  BY <1>1, <1>4, <1>5, <1>6, ServerAssumption DEF RequestKnows
<1>8. r.stage \notin Answered
  BY <1>1 DEF Answered
<1>9. QED
  BY <1>4, <1>7, <1>8, MoveKeepsIInv DEF BalanceAt, IInv, InFlightWereAdmitted

(* The asset is inserted beside its snapshot, under the same id.           *)
LEMMA AssetKeepsIInv ==
  ASSUME IInv, NEW p \in Requests, InsertAsset(p)
  PROVE  IInv'
<1> DEFINE r == req[p]
           state == With(r, "commit", r.row, r.id)
<1>1. r \in ReqState /\ r.stage = "asset"
  BY DEF InsertAsset, IInv, TypeOK
<1>2. r.user \in Users /\ r.row \in Row /\ r.id \in 0..MaxIds
  BY <1>1, RequestShapes
<1>3. /\ state \in ReqState /\ state.stage = "commit" /\ state.user = r.user
      /\ state.row = r.row /\ state.id = r.id
  BY <1>2 DEF ReqState, With
<1>4. RequestKnows(state)
  BY <1>1, <1>3 DEF RequestKnows, IInv
<1>5. r.stage \notin Answered
  BY <1>1 DEF Answered
<1>6. QED
  BY <1>1, <1>3, <1>4, <1>5, MoveKeepsIInv DEF InsertAsset, IInv, InFlightWereAdmitted

LEMMA FailKeepsIInv ==
  ASSUME IInv, NEW p \in Requests, FailRequest(p)
  PROVE  IInv'
BY IdleIsQuiet, MoveKeepsIInv DEF FailRequest, Answered

(* What a history left out is no newer than what it shows; a save that     *)
(* came after one it shows is no older, and so of the same instant.        *)
LEMMA HistoryKeepsIInv ==
  ASSUME IInv, NEW p \in Requests, GetHistory(p)
  PROVE  IInv'
<1>1. PICK list \in SUBSET (Committed \cap assets) :
        IsPrefix(list) /\ GoTo(p, Listed(list, Committed \ list))
  BY DEF GetHistory
<1> DEFINE state == Listed(list, Committed \ list)
<1>2. /\ state \in ReqState /\ state.stage = "listed"
      /\ state.list = list /\ state.missed = Committed \ list
  BY DEF Listed, ReqState, Committed
<1>3. RequestKnows(state)
  BY <1>2 DEF RequestKnows
<1>4. ASSUME NEW i \in list, NEW j \in Committed \ list, i \in snapshots[j].after
      PROVE  snapshots[j].time = snapshots[i].time
  <2>1. i \in Committed /\ j \in Committed \cap assets
    BY DEF IInv, SavesAreDurable, SnapshotsAreWhole
  <2>2. snapshots[j].time <= snapshots[i].time
    BY <1>1, <2>1 DEF IsPrefix
  <2>3. snapshots[i].time <= snapshots[j].time
    BY <1>4, <2>1 DEF IInv, SequentialSavesAreInOrder
  <2>4. snapshots[i] \in Row /\ snapshots[j] \in Row
    BY <2>1 DEF Committed, IInv, TypeOK
  <2>5. snapshots[i].time \in Nat /\ snapshots[j].time \in Nat
    BY <2>4, ServerAssumption DEF Row
  <2>6. QED
    BY <2>2, <2>3, <2>5
<1>5. QED
  BY <1>1, <1>2, <1>3, <1>4, MoveKeepsIInv DEF GetHistory, Answered

(* The id is taken for good, and by nobody else.                           *)
LEMMA InsertKeepsIInv ==
  ASSUME IInv, NEW p \in Requests, InsertSnapshot(p)
  PROVE  IInv'
<1> DEFINE r == req[p]
           state == With(r, "asset", r.row, nextId)
<1>1. /\ r \in ReqState /\ r.stage = "snapshot"
      /\ nextId \in Ids /\ nextId' = nextId + 1 /\ MaxIds \in Nat
      /\ req' = [req EXCEPT ![p] = state] /\ req \in [Requests -> ReqState]
      /\ UNCHANGED <<env, proc, starting, ended, tokens, now, snapshots, assets, head, saved>>
  BY SnapshotsAssumption DEF InsertSnapshot, GoTo, IInv, TypeOK, server, tables
<1>2. r.user \in Users /\ r.row \in Row
  BY <1>1, RequestShapes
<1>3. nextId \in 0..MaxIds /\ nextId < nextId' /\ nextId' \in 1..(MaxIds + 1)
  BY <1>1 DEF Ids
<1>4. /\ state \in ReqState /\ state.stage = "asset" /\ state.user = r.user
      /\ state.row = r.row /\ state.id = nextId
  BY <1>2, <1>3 DEF ReqState, With
<1>5. req'[p] = state /\ \A q \in Requests \ {p} : req'[q] = req[q]
  BY <1>1
<1>6. \A i \in Committed : i < nextId /\ i < nextId' /\ After(i, now, head)
  <2>1. ASSUME NEW i \in Committed PROVE i < nextId'
    <3>1. i < nextId /\ i \in Nat /\ nextId \in Nat
      BY <1>1 DEF IInv, RowsArePast, Committed, Ids
    <3>2. QED
      BY <1>1, <3>1
  <2>2. QED
    BY <2>1 DEF IInv, RowsArePast
<1>7. TypeOK'
  <2>1. req' \in [Requests -> ReqState]
    BY <1>1, <1>4
  <2>2. QED
    BY <1>1, <1>3, <2>1 DEF IInv, TypeOK, ServerTypeOK
<1>8. TokensAreDated' /\ SavesAreDurable' /\ SequentialSavesAreInOrder' /\ RowsArePast'
  BY <1>1, <1>6 DEF IInv, TokensAreDated, SavesAreDurable, SnapshotsAreWhole,
       Committed, SequentialSavesAreInOrder, RowsArePast, After
<1>9. HistoriesKeepNewest'
  BY <1>1, <1>4, <1>5 DEF IInv, HistoriesKeepNewest
<1>10. InFlightWereAdmitted'
  <2>1. r.stage \notin Answered
    BY <1>1 DEF Answered
  <2>2. QED
    BY <1>1, <1>4, <1>5, <2>1 DEF IInv, InFlightWereAdmitted
<1>11. \A q \in Requests : RequestKnows(req[q])'
  <2>1. nextId \in Ids \ Committed
    BY <1>1, <1>6 DEF Ids
  <2>2. \A i \in r.row.after : After(i, r.row.time, r.row.block) /\ i < nextId
    BY <1>1, <1>6 DEF IInv, RequestKnows, After
  <2>3. RequestKnows(req[p])'
    <3> HIDE DEF state
    <3>1. req'[p].stage = "asset" /\ req'[p].row = r.row /\ req'[p].id = nextId
      BY <1>4, <1>5
    <3>2. r.row.time <= now /\ r.row.block <= head
      BY <1>1 DEF IInv, RequestKnows
    <3>3. Committed' = Committed
      BY <1>1 DEF Committed
    <3>4. QED
      BY <1>1, <1>3, <2>1, <2>2, <3>1, <3>2, <3>3 DEF RequestKnows, After
  <2>4. ASSUME NEW q \in Requests \ {p} PROVE RequestKnows(req[q])'
    <3>1. req[q].stage \in {"asset", "commit"} => req[q].id < nextId'
      <4>1. req[q].stage \in {"asset", "commit"} => req[q].id < nextId /\ req[q].id \in Ids
        BY DEF IInv, RequestKnows
      <4>2. QED
        BY <1>1, <4>1 DEF Ids
    <3>2. QED
      BY <1>1, <1>5, <3>1 DEF IInv, RequestKnows, After, Committed
  <2>5. QED
    BY <2>3, <2>4
<1>12. IdsAreApart'
  <2>1. \A q \in Requests : req[q].stage \in {"asset", "commit"} => req[q].id # nextId
    BY <1>1 DEF IInv, RequestKnows, Ids
  <2>2. QED
    BY <1>4, <1>5, <2>1 DEF IInv, IdsAreApart
<1>13. QED
  BY <1>7, <1>8, <1>9, <1>10, <1>11, <1>12 DEF IInv

(* The commit, whether or not its answer arrives: the row appears, all     *)
(* rows there were stay, and the one id that p had in use is used up.      *)
LEMMA CommitKeepsIInv ==
  ASSUME IInv, NEW p \in Requests, Commit(p) \/ CommitUnanswered(p)
  PROVE  IInv'
<1> DEFINE r == req[p]
           id == r.id
<1>1. /\ r \in ReqState /\ r.stage = "commit"
      /\ snapshots' = [snapshots EXCEPT ![id] = r.row] /\ assets' = assets \cup {id}
      /\ saved' \in {saved, saved \cup {id}}
      /\ req' = [req EXCEPT ![p] = Idle] /\ req \in [Requests -> ReqState]
      /\ snapshots \in [Ids -> Row \cup {NoRow}]
      /\ UNCHANGED <<env, proc, starting, ended, tokens, now, nextId, head>>
  BY DEF Commit, CommitUnanswered, Apply, GoTo, IInv, TypeOK, server
<1>2. r.user \in Users /\ r.row \in Row /\ r.row # NoRow
  BY <1>1, RequestShapes, SnapshotsAssumption
<1>3. /\ id \in Ids \ Committed /\ id < nextId
      /\ r.row.time <= now /\ r.row.block <= head
      /\ \A i \in r.row.after : After(i, r.row.time, r.row.block) /\ i < id
  BY <1>1 DEF IInv, RequestKnows
<1>4. snapshots'[id] = r.row /\ \A i \in Committed : snapshots'[i] = snapshots[i]
  BY <1>1, <1>3 DEF Committed
<1>5. Committed' = Committed \cup {id}
  BY <1>1, <1>2, <1>3 DEF Committed
<1>6. req'[p] = Idle /\ \A q \in Requests \ {p} : req'[q] = req[q]
  BY <1>1
<1>7. TypeOK'
  <2>1. req' \in [Requests -> ReqState]
    BY <1>1, IdleIsQuiet
  <2>2. snapshots' \in [Ids -> Row \cup {NoRow}]
    BY <1>1, <1>2
  <2>3. QED
    BY <1>1, <1>3, <2>1, <2>2 DEF IInv, TypeOK, ServerTypeOK
<1>8. SavesAreDurable'
  BY <1>1, <1>5 DEF IInv, SavesAreDurable, SnapshotsAreWhole
<1>9. SequentialSavesAreInOrder'
  <2>1. ASSUME NEW i \in Committed', NEW j \in snapshots'[i].after PROVE
          /\ j < i /\ j \in Committed'
          /\ snapshots'[j].time <= snapshots'[i].time
          /\ snapshots'[j].block <= snapshots'[i].block
    <3>1. CASE i \in Committed
      <4>1. j < i /\ j \in Committed /\ snapshots[j].time <= snapshots[i].time
            /\ snapshots[j].block <= snapshots[i].block
        BY <1>4, <2>1, <3>1 DEF IInv, SequentialSavesAreInOrder
      <4>2. QED
        BY <1>4, <1>5, <3>1, <4>1
    <3>2. CASE i = id
      <4>1. After(j, r.row.time, r.row.block) /\ j < id
        BY <1>3, <1>4, <2>1, <3>2
      <4>2. QED
        BY <1>4, <1>5, <3>2, <4>1 DEF After
    <3>3. QED
      BY <1>5, <3>1, <3>2
  <2>2. QED
    BY <2>1 DEF SequentialSavesAreInOrder
<1>10. HistoriesKeepNewest'
  <2>1. ASSUME NEW q \in Requests, req'[q].stage = "listed",
               NEW i \in req'[q].list, NEW j \in req'[q].missed, i \in snapshots'[j].after
        PROVE  snapshots'[j].time = snapshots'[i].time
    <3>1. req'[q] = req[q]
      BY <1>6, <2>1, IdleIsQuiet
    <3>2. i \in Committed /\ j \in Committed
      BY <2>1, <3>1 DEF IInv, RequestKnows
    <3>3. QED
      BY <1>4, <2>1, <3>1, <3>2 DEF IInv, HistoriesKeepNewest
  <2>2. QED
    BY <2>1 DEF HistoriesKeepNewest
<1>11. InFlightWereAdmitted'
  BY <1>1, <1>6, IdleIsQuiet DEF IInv, InFlightWereAdmitted, Answered
<1>12. \A q \in Requests : RequestKnows(req[q])'
  <2>1. ASSUME NEW i, NEW time, NEW block, After(i, time, block) PROVE After(i, time, block)'
    BY <1>4, <1>5, <2>1 DEF After
  <2>2. RequestKnows(req[p])'
    BY <1>6, IdleIsQuiet DEF RequestKnows
  <2>3. ASSUME NEW q \in Requests \ {p} PROVE RequestKnows(req[q])'
    <3>1. RequestKnows(req[q]) /\ req'[q] = req[q]
      BY <1>6 DEF IInv
    <3>2. req[q].stage \in {"asset", "commit"} => req[q].id # id
      BY <1>1 DEF IInv, IdsAreApart
    <3>3. req[q].stage \in {"snapshot", "asset", "commit"} =>
            \A i \in req[q].row.after : After(i, req[q].row.time, req[q].row.block)'
      BY <1>4, <1>5, <3>1 DEF RequestKnows, After
    <3>4. req[q].stage = "balance" => \A i \in req[q].after : snapshots'[i].block <= req[q].block
      BY <1>4, <3>1 DEF RequestKnows
    <3>5. QED
      BY <1>1, <1>5, <3>1, <3>2, <3>3, <3>4 DEF RequestKnows, After
  <2>4. QED
    BY <2>2, <2>3
<1>13. IdsAreApart'
  BY <1>6, IdleIsQuiet DEF IInv, IdsAreApart
<1>14. RowsArePast'
  BY <1>1, <1>3, <1>4, <1>5 DEF IInv, RowsArePast, After
<1>15. TokensAreDated'
  BY <1>1 DEF IInv, TokensAreDated
<1>16. QED
  BY <1>7, <1>8, <1>9, <1>10, <1>11, <1>12, <1>13, <1>14, <1>15 DEF IInv

(* A step of the process leaves the tables, and the requests unless it     *)
(* ends; then it leaves none.                                              *)
LEMMA ServerKeepsIInv ==
  ASSUME IInv, ServerStep
  PROVE  IInv'
<1>1. /\ ServerTypeOK' /\ TokensAreDated'
      /\ now <= now' /\ tokens \subseteq tokens'
      /\ proc' = "down" \/ (env' = env /\ (proc = "serve" => proc' = "serve"))
  BY ServerNextFacts DEF ServerStep, IInv, TypeOK
<1>2. /\ req' = IF proc' = "down" THEN [p \in Requests |-> Idle] ELSE req
      /\ UNCHANGED <<snapshots, assets, nextId, head, saved>>
      /\ req \in [Requests -> ReqState]
  BY DEF ServerStep, Effect, tables, IInv, TypeOK
<1>3. \A p \in Requests : req'[p] = Idle \/ (req'[p] = req[p] /\ proc' # "down")
  BY <1>2
<1>4. TypeOK'
  BY <1>1, <1>2, IdleIsQuiet DEF IInv, TypeOK
<1>5. SavesAreDurable' /\ SequentialSavesAreInOrder'
  BY <1>2 DEF IInv, SavesAreDurable, SnapshotsAreWhole, Committed, SequentialSavesAreInOrder
<1>6. HistoriesKeepNewest'
  BY <1>2, <1>3, IdleIsQuiet DEF IInv, HistoriesKeepNewest
<1>7. InFlightWereAdmitted'
  BY <1>1, <1>3, IdleIsQuiet DEF IInv, InFlightWereAdmitted, Answered
<1>8. now \in Nat /\ now' \in Nat
  BY <1>1, ServerAssumption DEF ServerTypeOK, IInv, TypeOK
<1>9. \A p \in Requests : RequestKnows(req[p])'
  <2>1. ASSUME NEW p \in Requests PROVE RequestKnows(req[p])'
    <3>1. CASE req'[p] = Idle
      BY <3>1, IdleIsQuiet DEF RequestKnows
    <3>2. CASE req'[p] = req[p]
      <4>1. req[p].stage \in {"snapshot", "asset", "commit"} =>
              req[p].row.time <= now /\ req[p].row.time \in Nat
        BY RequestShapes, ServerAssumption DEF IInv, TypeOK, RequestKnows, Row
      <4>2. req[p].stage \in {"snapshot", "asset", "commit"} => req[p].row.time <= now'
        BY <1>1, <1>8, <4>1
      <4>3. QED
        BY <1>2, <3>2, <4>2 DEF IInv, RequestKnows, After, Committed
    <3>3. QED
      BY <1>3, <3>1, <3>2
  <2>2. QED
    BY <2>1
<1>10. IdsAreApart'
  BY <1>3, IdleIsQuiet DEF IInv, IdsAreApart
<1>11. RowsArePast'
  <2>1. ASSUME NEW i \in Committed PROVE snapshots[i].time <= now'
    <3>1. snapshots[i] \in Row /\ snapshots[i].time <= now
      BY DEF IInv, TypeOK, RowsArePast, After, Committed
    <3>2. snapshots[i].time \in Nat
      BY <3>1, ServerAssumption DEF Row
    <3>3. QED
      BY <1>1, <1>8, <3>1, <3>2
  <2>2. QED
    BY <1>2, <2>1 DEF IInv, RowsArePast, After, Committed
<1>12. QED
  BY <1>1, <1>4, <1>5, <1>6, <1>7, <1>9, <1>10, <1>11 DEF IInv

LEMMA NewBlockKeepsIInv ==
  ASSUME IInv, NewBlock
  PROVE  IInv'
<1>1. /\ head' = head + 1 /\ head \in Nat /\ head' \in Blocks
      /\ UNCHANGED <<env, proc, starting, ended, tokens, now, snapshots, assets, nextId, req, saved>>
  BY SnapshotsAssumption DEF NewBlock, Blocks, IInv, TypeOK, server, tables
<1>2. ASSUME NEW b \in Blocks, b <= head PROVE b <= head'
  BY <1>1, <1>2, SnapshotsAssumption DEF Blocks
<1>3. TypeOK' /\ TokensAreDated' /\ SavesAreDurable' /\ SequentialSavesAreInOrder'
      /\ HistoriesKeepNewest' /\ InFlightWereAdmitted' /\ IdsAreApart'
  BY <1>1 DEF IInv, TypeOK, ServerTypeOK, TokensAreDated, SavesAreDurable, SnapshotsAreWhole,
       Committed, SequentialSavesAreInOrder, HistoriesKeepNewest, InFlightWereAdmitted, IdsAreApart
<1>4. ASSUME NEW p \in Requests PROVE RequestKnows(req[p])'
  <2>1. req[p].stage = "balance" => req[p].block <= head'
    BY <1>2, RequestShapes DEF IInv, TypeOK, RequestKnows
  <2>2. req[p].stage \in {"snapshot", "asset", "commit"} => req[p].row.block <= head'
    BY <1>2, RequestShapes DEF IInv, TypeOK, RequestKnows, Row
  <2>3. QED
    BY <1>1, <2>1, <2>2 DEF IInv, RequestKnows, After, Committed
<1>5. RowsArePast'
  <2>1. ASSUME NEW i \in Committed PROVE snapshots[i].block <= head'
    <3>1. snapshots[i] \in Row /\ snapshots[i].block <= head
      BY DEF IInv, TypeOK, RowsArePast, After, Committed
    <3>2. QED
      BY <1>2, <3>1 DEF Row
  <2>2. QED
    BY <1>1, <2>1 DEF IInv, RowsArePast, After, Committed
<1>6. QED
  BY <1>3, <1>4, <1>5 DEF IInv

LEMMA InitIInv == Init => IInv
<1> SUFFICES ASSUME Init PROVE IInv
  OBVIOUS
<1>1. req \in [Requests -> ReqState] /\ \A p \in Requests : req[p] = Idle
  BY IdleIsQuiet DEF Init
<1>2. snapshots \in [Ids -> Row \cup {NoRow}] /\ Committed = {}
  BY DEF Init, Committed
<1>3. ServerTypeOK /\ TokensAreDated
  BY ServerAssumption DEF Init, InitServer, ServerTypeOK, TokensAreDated, Stages, Ends
<1>4. TypeOK
  BY <1>1, <1>2, <1>3, SnapshotsAssumption DEF Init, TypeOK, Blocks
<1>5. SavesAreDurable /\ SequentialSavesAreInOrder /\ RowsArePast
  BY <1>2 DEF Init, SavesAreDurable, SnapshotsAreWhole, SequentialSavesAreInOrder, RowsArePast
<1>6. /\ HistoriesKeepNewest /\ InFlightWereAdmitted /\ IdsAreApart
      /\ \A p \in Requests : RequestKnows(req[p])
  BY <1>1, IdleIsQuiet DEF HistoriesKeepNewest, InFlightWereAdmitted, IdsAreApart, Answered
<1>7. QED
  BY <1>3, <1>4, <1>5, <1>6 DEF IInv

LEMMA NextKeepsIInv == IInv /\ [Next]_vars => IInv'
<1> SUFFICES ASSUME IInv, [Next]_vars PROVE IInv'
  OBVIOUS
<1>1. ASSUME NEW p \in Requests, Progress(p) PROVE IInv'
  BY <1>1, HeaderKeepsIInv, BalanceKeepsIInv, InsertKeepsIInv, AssetKeepsIInv, CommitKeepsIInv,
     FailKeepsIInv, HistoryKeepsIInv DEF Progress
<1>2. CASE UNCHANGED vars
  BY <1>2 DEF vars, IInv, TypeOK, ServerTypeOK, TokensAreDated, SavesAreDurable,
       SnapshotsAreWhole, Committed, SequentialSavesAreInOrder, HistoriesKeepNewest,
       InFlightWereAdmitted, RequestKnows, After, IdsAreApart, RowsArePast
<1>3. QED
  BY <1>1, <1>2, ServerKeepsIInv, NewBlockKeepsIInv, BeginKeepsIInv DEF Next

-----------------------------------------------------------------------------
(* The inductive invariant, for every value of the constants.              *)
THEOREM IInvHolds == Spec => []IInv
BY InitIInv, NextKeepsIInv, PTL DEF Spec

(* Type correctness of the process and its snapshots (main.go, the         *)
(* blockchain data fetcher, portfolio_store.go).                           *)
THEOREM TypeCorrect == Spec => []TypeOK
<1>1. IInv => TypeOK
  BY DEF IInv
<1>2. QED
  BY <1>1, IInvHolds, PTL

(* AddSnapshot is whole, and a save answered 200 is there from then on.    *)
THEOREM SavesStayDurable == Spec => []SavesAreDurable
<1>1. IInv => SavesAreDurable
  BY DEF IInv
<1>2. QED
  BY <1>1, IInvHolds, PTL

(* A save that began when another was answered has the greater id, no      *)
(* earlier time and no earlier block (FetchAndSaveETHBalance, the SERIAL). *)
THEOREM SavesStayInOrder == Spec => []SequentialSavesAreInOrder
<1>1. IInv => SequentialSavesAreInOrder
  BY DEF IInv
<1>2. QED
  BY <1>1, IInvHolds, PTL

(* What GetHistory leaves out when its rows break off is never newer than  *)
(* what it shows.                                                          *)
THEOREM HistoriesStayNewest == Spec => []HistoriesKeepNewest
<1>1. IInv => HistoriesKeepNewest
  BY DEF IInv
<1>2. QED
  BY <1>1, IInvHolds, PTL

(* Whoever is served showed a token of this process's secret (Auth).       *)
THEOREM ServedWereAdmitted == Spec => []InFlightWereAdmitted
<1>1. IInv => InFlightWereAdmitted
  BY DEF IInv
<1>2. QED
  BY <1>1, IInvHolds, PTL

(* A token is good for the hours configured when it was issued, for any    *)
(* width of the clock's numbers (GenerateToken, ValidateToken).            *)
THEOREM TokensStayAsConfigured == Spec => []TokensLiveAsConfigured
<1>1. ASSUME IInv PROVE TokensLiveAsConfigured
  <2>1. SUFFICES ASSUME NEW t \in tokens, Fits(t.hours, Hour) PROVE
          t.hours >= 1 /\ (Accepts(t) <=> t.secret = env.secret /\ now < t.born + t.hours)
    BY DEF TokensLiveAsConfigured
  <2>2. /\ t.born \in Nat /\ t.hours \in Nat /\ t.hours >= 1 /\ now \in Nat /\ Hour \in Nat
        /\ Hour >= 1 /\ t.exp = t.born * Hour + Wrap(t.hours * Hour)
    BY <1>1, ServerAssumption, ConstantsArePositive
       DEF IInv, TypeOK, ServerTypeOK, TokensAreDated, Token
  <2>3. t.hours * Hour \in Nat /\ t.born * Hour \in Nat
    BY <2>2, ProductIsNat
  <2>4. Wrap(t.hours * Hour) = t.hours * Hour
    BY <2>1, <2>3, WrapOfFitting DEF Fits
  <2>5. t.exp = (t.born + t.hours) * Hour
    BY <2>2, <2>3, <2>4
  <2>6. now * Hour < t.exp <=> now < t.born + t.hours
    <3> DEFINE until == t.born + t.hours
    <3>1. until \in Nat /\ t.exp = until * Hour
      BY <2>2, <2>5
    <3> HIDE DEF until
    <3>2. now * Hour < until * Hour <=> now < until
      BY <2>2, <3>1, ProductsAreOrdered
    <3>3. QED
      BY <3>1, <3>2 DEF until
  <2>7. QED
    BY <2>2, <2>6 DEF Accepts
<1>2. QED
  BY <1>1, IInvHolds, PTL

(* NewTicker panics only on an interval that time.Duration cannot hold.    *)
THEOREM PanicsOnlyByOverflow == Spec => PanicsOnlyOnOverflow
<1>1. ASSUME IInv, [Next]_vars PROVE
        [proc # "down" /\ proc' = "down" /\ ended' = "panic" => ~IntervalsFit]_server
  <2>1. CASE ServerStep
    <3>1. SUFFICES ASSUME ServerNext, proc # "down", proc' = "down", ended' = "panic"
                   PROVE  ~IntervalsFit
      BY <2>1 DEF ServerStep
    <3>2. PICK loop \in Loops : NewTicker(loop)
      BY <3>1 DEF ServerNext, Redeploy, Load, Connect, Dial, Run, Fatal, Kill, End,
           GenerateToken, Clock
    <3>3. ~(Interval(loop) > 0)
      BY <3>1, <3>2 DEF NewTicker
    <3>4. QED
      BY <1>1, <3>3, TickerPanicsOnOverflow DEF IInv, TypeOK
  <2>2. CASE ~ServerStep
    BY <1>1, <2>2 DEF Next, NewBlock, BeginSave, BeginHistory, Progress, HeaderByNumber, BalanceAt,
         InsertSnapshot, InsertAsset, Commit, CommitUnanswered, FailRequest, GetHistory, vars, server
  <2>3. QED
    BY <2>1, <2>2
<1>2. QED
  BY <1>1, IInvHolds, PTL DEF Spec, PanicsOnlyOnOverflow
=============================================================================
