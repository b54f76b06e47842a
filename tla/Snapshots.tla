------------------------------ MODULE Snapshots ------------------------------
(***************************************************************************)
(* Portfolio snapshots, served by the process of Server:                   *)
(*   internal/service/blockchain_data_fetcher_service.go,                  *)
(*   internal/service/portfolio_service.go, internal/store/                *)
(*   portfolio_store.go, internal/api/handler.go (FetchETHBalanceAndSave,  *)
(*   GetPortfolioHistory), migration 0002.                                 *)
(*                                                                         *)
(* A save asks the node for its latest header, then for the balance at     *)
(* that block, takes the time, and inserts a snapshot and its one asset in *)
(* a transaction.  A history is one query.  Requests need a token, and die *)
(* with the process.                                                       *)
(*                                                                         *)
(* Data.  A balance is the block it was read at.                           *)
(***************************************************************************)
EXTENDS Server

CONSTANTS
  Requests,
  MaxIds,   \* bound: how many ids portfolio_snapshots' SERIAL gives
  MaxBlock, \* bound: how many blocks the node sees
  NoRow     \* no row in portfolio_snapshots

Ids    == 1..MaxIds
Blocks == 0..MaxBlock
Row    == [time : 0..MaxNow, block : Blocks, after : SUBSET Ids]

ASSUME SnapshotsAssumption ==
  MaxIds \in Nat /\ MaxBlock \in Nat /\ NoRow \notin Row

VARIABLES
  snapshots, \* portfolio_snapshots: id -> row or NoRow
  assets,    \* portfolio_assets: the ids of the snapshots with an asset
  nextId,    \* the SERIAL
  head,      \* the node's latest block
  req,       \* where each request stands
  saved      \* history: the ids whose save was answered 200

tables == <<snapshots, assets>>
vars   == <<env, proc, starting, ended, tokens, now,
            snapshots, assets, nextId, head, req, saved>>

-----------------------------------------------------------------------------
(* user is whom the token names.  after is history: saved as it was when   *)
(* the request came.  An answered history keeps what it lists and what it  *)
(* left out of the snapshots there were; saved tells a 200 from a 500.     *)
Idle                    == [stage |-> "idle"]
Listed(list, missed)    == [stage |-> "listed", list |-> list, missed |-> missed]
AtHeader(u)             == [stage |-> "header", user |-> u, after |-> saved]
AtHistory(u)            == [stage |-> "history", user |-> u]
With(r, stage, row, id) == [stage |-> stage, user |-> r.user, row |-> row, id |-> id]

ReqState ==
  [stage : {"idle"}]
    \cup [stage : {"listed"}, list : SUBSET Ids, missed : SUBSET Ids]
    \cup [stage : {"header"}, user : Users, after : SUBSET Ids]
    \cup [stage : {"history"}, user : Users]
    \cup [stage : {"balance"}, user : Users, after : SUBSET Ids, block : Blocks]
    \cup [stage : {"snapshot", "asset", "commit"}, user : Users, row : Row, id : 0..MaxIds]

Answered == {"idle", "listed"}

Init ==
  /\ InitServer
  /\ snapshots = [i \in Ids |-> NoRow]
  /\ assets = {}
  /\ nextId = 1
  /\ head = 0
  /\ req = [p \in Requests |-> Idle]
  /\ saved = {}

GoTo(p, state) == req' = [req EXCEPT ![p] = state]

(* One process serves; PostgreSQL rolls back what a dead one had open.     *)
Effect ==
  /\ req' = IF proc' = "down" THEN [p \in Requests |-> Idle] ELSE req
  /\ UNCHANGED <<tables, nextId, head, saved>>

ServerStep == ServerNext /\ Effect

NewBlock ==
  /\ head < MaxBlock
  /\ head' = head + 1
  /\ UNCHANGED <<server, tables, nextId, req, saved>>

-----------------------------------------------------------------------------
(* A request with a token that the middleware accepts.                     *)
Admit(p, t) ==
  /\ proc = "serve"
  /\ Accepts(t)
  /\ req[p].stage \in Answered

(* POST /blockchain/fetch-eth-balance/:address, with a hex address.        *)
(* Bound: an id is left for every save under way.                          *)
BeginSave(p, t) ==
  /\ Admit(p, t)
  /\ nextId + Cardinality({q \in Requests : req[q].stage \in {"header", "balance", "snapshot"}})
       <= MaxIds
  /\ GoTo(p, AtHeader(t.user))
  /\ UNCHANGED <<server, tables, nextId, head, saved>>

HeaderByNumber(p) ==
  /\ req[p].stage = "header"
  /\ GoTo(p, [stage |-> "balance", user |-> req[p].user, after |-> req[p].after, block |-> head])
  /\ UNCHANGED <<server, tables, nextId, head, saved>>

(* Mutant: the snapshot is dated when the balance's block was made.        *)
BalanceAt_Dated(p) ==
  /\ req[p].stage = "balance"
  /\ \E time \in 0..now :
       GoTo(p, With(req[p], "snapshot",
                    [time |-> time, block |-> req[p].block, after |-> req[p].after], 0))
  /\ UNCHANGED <<server, tables, nextId, head, saved>>

(* The balance at that block; Timestamp: time.Now().                       *)
BalanceAt(p) ==
  /\ req[p].stage = "balance"
  /\ GoTo(p, With(req[p], "snapshot",
                  [time |-> now, block |-> req[p].block, after |-> req[p].after], 0))
  /\ UNCHANGED <<server, tables, nextId, head, saved>>

(* AddSnapshot: the id is taken for good, the rows are seen at the commit. *)
InsertSnapshot(p) ==
  /\ req[p].stage = "snapshot"
  /\ nextId \in Ids
  /\ nextId' = nextId + 1
  /\ GoTo(p, With(req[p], "asset", req[p].row, nextId))
  /\ UNCHANGED <<server, tables, head, saved>>

InsertAsset(p) ==
  /\ req[p].stage = "asset"
  /\ GoTo(p, With(req[p], "commit", req[p].row, req[p].id))
  /\ UNCHANGED <<server, tables, nextId, head, saved>>

Apply(p) ==
  /\ snapshots' = [snapshots EXCEPT ![req[p].id] = req[p].row]
  /\ assets' = assets \cup {req[p].id}

Commit(p) ==
  /\ req[p].stage = "commit"
  /\ Apply(p)
  /\ GoTo(p, Idle)
  /\ saved' = saved \cup {req[p].id}
  /\ UNCHANGED <<server, nextId, head>>

CommitUnanswered(p) ==
  /\ req[p].stage = "commit"
  /\ Apply(p)
  /\ GoTo(p, Idle)
  /\ UNCHANGED <<server, nextId, head, saved>>

(* Mutant: what was inserted before the failure is committed.              *)
FailRequest_Commits(p) ==
  /\ req[p].stage \notin Answered
  /\ IF req[p].stage = "asset"
       THEN snapshots' = [snapshots EXCEPT ![req[p].id] = req[p].row]
       ELSE UNCHANGED snapshots
  /\ GoTo(p, Idle)
  /\ UNCHANGED <<server, assets, nextId, head, saved>>

(* Any call fails, or the client hangs up: rolled back, and 500.           *)
FailRequest(p) ==
  /\ req[p].stage \notin Answered
  /\ GoTo(p, Idle)
  /\ UNCHANGED <<server, tables, nextId, head, saved>>

-----------------------------------------------------------------------------
(* GET /portfolio/history, of all snapshots there are, whoever asks.       *)
BeginHistory(p, t) ==
  /\ Admit(p, t)
  /\ GoTo(p, AtHistory(t.user))
  /\ UNCHANGED <<server, tables, nextId, head, saved>>

Committed == {i \in Ids : snapshots[i] # NoRow}

(* The first rows of the JOIN by ORDER BY timestamp DESC.                  *)
IsPrefix(list) ==
  \A i \in list, j \in (Committed \cap assets) \ list : snapshots[j].time <= snapshots[i].time

(* Mutant: the rows come in no order.                                      *)
GetHistory_Unordered(p) ==
  /\ req[p].stage = "history"
  /\ \E list \in SUBSET (Committed \cap assets) : GoTo(p, Listed(list, Committed \ list))
  /\ UNCHANGED <<server, tables, nextId, head, saved>>

(* rows.Err() is not asked: what came before the connection broke is the   *)
(* answer.                                                                 *)
GetHistory(p) ==
  /\ req[p].stage = "history"
  /\ \E list \in SUBSET (Committed \cap assets) :
       IsPrefix(list) /\ GoTo(p, Listed(list, Committed \ list))
  /\ UNCHANGED <<server, tables, nextId, head, saved>>

Progress(p) ==
  \/ HeaderByNumber(p) \/ BalanceAt(p)
  \/ InsertSnapshot(p) \/ InsertAsset(p)
  \/ Commit(p) \/ CommitUnanswered(p)
  \/ FailRequest(p) \/ GetHistory(p)

Next ==
  \/ ServerStep
  \/ NewBlock
  \/ \E p \in Requests, t \in tokens : BeginSave(p, t) \/ BeginHistory(p, t)
  \/ \E p \in Requests : Progress(p)

Spec == Init /\ [][Next]_vars

(* main goes on, and its goroutines with it.                               *)
FairSpec ==
  /\ Spec
  /\ WF_vars(Load /\ Effect)
  /\ WF_vars(Connect /\ Effect)
  /\ WF_vars(Dial /\ Effect)
  /\ WF_vars(Run /\ Effect)

-----------------------------------------------------------------------------
TypeOK ==
  /\ ServerTypeOK
  /\ snapshots \in [Ids -> Row \cup {NoRow}]
  /\ assets \subseteq Ids
  /\ nextId \in 1..(MaxIds + 1)
  /\ head \in Blocks
  /\ req \in [Requests -> ReqState]
  /\ saved \subseteq Ids

(* A snapshot is seen with its asset or not at all (the history joins the  *)
(* two tables and would never show one without), and a save that was       *)
(* answered 200 is seen from then on, whatever fails and whoever dies.     *)
SnapshotsAreWhole == Committed = assets

SavesAreDurable == SnapshotsAreWhole /\ saved \subseteq Committed

(* Of two saves the second of which began when the first was answered, the *)
(* second has the greater id, no earlier time and no earlier block: the    *)
(* history, which is ordered by id, shows it above.                        *)
SequentialSavesAreInOrder ==
  \A i \in Committed : \A j \in snapshots[i].after :
    /\ j < i
    /\ j \in Committed
    /\ snapshots[j].time <= snapshots[i].time
    /\ snapshots[j].block <= snapshots[i].block

(* A history that broke off, which is answered like a complete one, lacks  *)
(* no save that came after one it shows, but for one of the same instant.  *)
HistoriesKeepNewest ==
  \A p \in Requests : req[p].stage = "listed" =>
    \A i \in req[p].list, j \in req[p].missed :
      i \in snapshots[j].after => snapshots[j].time = snapshots[i].time

(* Every request under way belongs to a user whom a process with the       *)
(* present secret gave a token: a new secret, which needs a new process,   *)
(* leaves none of those that were let in by the old one.                   *)
InFlightWereAdmitted ==
  \A p \in Requests : req[p].stage \notin Answered =>
    /\ proc = "serve"
    /\ \E t \in tokens : t.user = req[p].user /\ t.secret = env.secret

(* The inductive invariant behind these four.  What a save under way has   *)
(* read is no older than the saves answered before it came, its id is its  *)
(* own, and no row is ahead of the clock or the chain.                     *)
After(i, time, block) ==
  i \in Committed /\ snapshots[i].time <= time /\ snapshots[i].block <= block

RequestKnows(r) ==
  /\ r.stage \in {"header", "balance"} => r.after \subseteq Committed
  /\ r.stage = "balance" =>
       r.block <= head /\ \A i \in r.after : snapshots[i].block <= r.block
  /\ r.stage \in {"snapshot", "asset", "commit"} =>
       /\ r.row.time <= now /\ r.row.block <= head
       /\ \A i \in r.row.after : After(i, r.row.time, r.row.block)
  /\ r.stage \in {"asset", "commit"} =>
       /\ r.id \in Ids \ Committed /\ r.id < nextId
       /\ \A i \in r.row.after : i < r.id
  /\ r.stage = "listed" => r.list \cup r.missed \subseteq Committed

IdsAreApart ==
  \A p, q \in Requests :
    /\ req[p].stage \in {"asset", "commit"} /\ req[q].stage \in {"asset", "commit"}
    /\ req[p].id = req[q].id
    => p = q

RowsArePast ==
  \A i \in Committed : i < nextId /\ After(i, now, head)

TokensAreDated ==
  \A t \in tokens :
    /\ t.born <= now /\ t.hours \in 1..(Half - 1)
    /\ t.exp = t.born * Hour + Wrap(t.hours * Hour)

IInv ==
  /\ TypeOK
  /\ TokensAreDated
  /\ SavesAreDurable
  /\ SequentialSavesAreInOrder
  /\ HistoriesKeepNewest
  /\ InFlightWereAdmitted
  /\ \A p \in Requests : RequestKnows(req[p])
  /\ IdsAreApart
  /\ RowsArePast
=============================================================================
