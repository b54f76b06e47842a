---------------------------- MODULE ExchangeSync ----------------------------
(***************************************************************************)
(* Exchange credentials, their balances, and the syncs that copy the       *)
(* balances an exchange reports into Postgres:                             *)
(*   internal/service/exchange_service.go, internal/store/exchange_store.go*)
(*   internal/api/exchange_handler.go, the two tables of migration 0005.   *)
(*                                                                         *)
(* A sync is three remote calls and then one autocommitted statement per   *)
(* balance; nothing is locked between them.  Any number of HTTP requests   *)
(* (Requests: the request slots served at the same time) and the background*)
(* goroutine of StartSync (Loop) run it concurrently, while users add and  *)
(* delete credentials and the exchange accounts change.                    *)
(*                                                                         *)
(* Data.  What an exchange reports is abstracted to a revision number of   *)
(* the account: Held[c][r] is the set of assets whose free or locked       *)
(* amount is not zero at revision r of credential c's account, and every   *)
(* revision changes every amount.  A stored balance row keeps the revision *)
(* it came from in place of its amounts and updated_at.                    *)
(***************************************************************************)
EXTENDS Naturals

CONSTANTS
  Users,      \* user ids
  Names,      \* exchange names as a client may spell them
  Lower,      \* strings.ToLower on Names
  Supported,  \* lower-case names ExchangeClientFactory knows ("binance")
  MaxCreds,   \* bound: how many credentials are ever registered
  Assets,     \* asset codes as the exchange spells them
  Symbols,    \* upper-case symbols, the key of a balance row
  Upper,      \* strings.ToUpper on Assets
  MaxRev,     \* bound: how many times an account changes
  Held,       \* assets with a non-zero amount, per credential and revision
  Requests,   \* slots for concurrent POST /exchange/credentials/:id/sync
  Loop,       \* the goroutine StartSync launches
  NoCred,     \* no row in exchange_credentials
  NoRow       \* no row in exchange_balances

CredIds == 1..MaxCreds
Revs    == 0..MaxRev
Procs   == Requests \cup {Loop}

ASSUME BoundsAssumption == MaxCreds \in Nat /\ MaxRev \in Nat
ASSUME SpellingAssumption ==
  /\ Lower \in [Names -> Names]
  /\ \A n \in Names : Lower[Lower[n]] = Lower[n]
  /\ Upper \in [Assets -> Symbols]
ASSUME HeldAssumption == Held \in [CredIds -> [Revs -> SUBSET Assets]]
ASSUME LoopAssumption == Loop \notin Requests

Credential == [user : Users, exchange : Names]
Balance    == [user : Users, rev : Revs]

ASSUME SentinelAssumption == NoCred \notin Credential /\ NoRow \notin Balance

VARIABLES
  creds,     \* exchange_credentials: id -> row or NoCred
  nextId,    \* the BIGSERIAL of exchange_credentials
  balances,  \* exchange_balances: credential id, symbol -> row or NoRow
  account,   \* the exchange's side: current revision of each account
  sync,      \* where each process stands in SyncBalances
  loop,      \* where the goroutine stands in StartSync and runSync
  tick,      \* ticker.C, a channel with room for one tick
  stopped    \* syncCtx has been cancelled

tables  == <<creds, nextId, balances>>
process == <<sync, loop, tick, stopped>>
vars    == <<creds, nextId, balances, account, sync, loop, tick, stopped>>

-----------------------------------------------------------------------------
(* The progress of one SyncBalances call.  "idle" keeps the result of the  *)
(* last call: nil, the wrapped pgx.ErrNoRows, any other wrapped error, or  *)
(* none if this server process has made no call yet.                       *)

Errors == {"none", "nil", "no_rows", "other"}

Idle(err)          == [stage |-> "idle", err |-> err]
Loading(c)         == [stage |-> "load", cred |-> c]
Fetching(c, u)     == [stage |-> "fetch", cred |-> c, user |-> u]
Saving(c, u, r, A) == [stage |-> "save", cred |-> c, user |-> u, rev |-> r,
                       pending |-> A]

SyncState ==
  [stage : {"idle"}, err : Errors]
    \cup [stage : {"load"}, cred : CredIds]
    \cup [stage : {"fetch"}, cred : CredIds, user : Users]
    \cup [stage : {"save"}, cred : CredIds, user : Users, rev : Revs,
          pending : SUBSET Assets]

(* "list": about to load the active credentials; "each": in the for loop   *)
(* of runSync; "select": blocked in StartSync's select; "returned": gone.  *)
(* ticked says which context the run got: the cancellable one for the run  *)
(* StartSync makes first, context.Background() for those a tick starts.    *)
LoopState == [pc : {"list", "each", "select", "returned"},
              queue : SUBSET CredIds, ticked : BOOLEAN]

Live == {c \in CredIds : creds[c] # NoCred}

(* ctx.Err() == nil in the run the goroutine is making.                    *)
LoopCtxAlive == ~stopped \/ loop.ticked

(* The context of p's calls is alive.  A request's context is cancelled    *)
(* when its client goes away, after which its next call fails: FailSync.   *)
CtxAlive(p) == p = Loop => LoopCtxAlive

NewLoop  == [pc |-> "list", queue |-> {}, ticked |-> FALSE]
AtSelect == [pc |-> "select", queue |-> {}, ticked |-> FALSE]

Init ==
  /\ creds = [c \in CredIds |-> NoCred]
  /\ nextId = 1
  /\ balances = [c \in CredIds |-> [s \in Symbols |-> NoRow]]
  /\ account = [c \in CredIds |-> 0]
  /\ sync = [p \in Procs |-> Idle("none")]
  /\ loop = NewLoop
  /\ tick = FALSE
  /\ stopped = FALSE

-----------------------------------------------------------------------------
(* Credentials.                                                            *)

(* Mutant: the name is stored as the client spelled it.                    *)
AddCredential_KeepsSpelling(u, name) ==
  /\ nextId \in CredIds
  /\ \A c \in Live : creds[c] # [user |-> u, exchange |-> name]
  /\ creds' = [creds EXCEPT ![nextId] = [user |-> u, exchange |-> name]]
  /\ nextId' = nextId + 1
  /\ UNCHANGED <<balances, account, process>>

(* Mutant: the id of a deleted credential is given out again.              *)
AddCredential_ReusesId(u, name) ==
  /\ \A c \in Live : creds[c] # [user |-> u, exchange |-> Lower[name]]
  /\ \E id \in CredIds \ Live :
       /\ creds' = [creds EXCEPT ![id] = [user |-> u, exchange |-> Lower[name]]]
       /\ nextId' = IF id < nextId THEN nextId ELSE id + 1
  /\ UNCHANGED <<balances, account, process>>

(* The INSERT of CreateCredential, under UNIQUE(user_id, exchange).  Ids   *)
(* come from a sequence and are never given twice (the gaps that rejected  *)
(* inserts leave in it are left out).                                      *)
InsertCredential(cred) ==
  /\ nextId \in CredIds
  /\ \A c \in Live : creds[c] # cred
  /\ creds' = [creds EXCEPT ![nextId] = cred]
  /\ nextId' = nextId + 1

(* POST /exchange/credentials: the name is stored lower-cased.             *)
AddCredential(u, name) ==
  /\ InsertCredential([user |-> u, exchange |-> Lower[name]])
  /\ UNCHANGED <<balances, account, process>>

(* Mutant: the foreign key does not cascade.                               *)
DeleteCredential_NoCascade(u, c) ==
  /\ c \in Live
  /\ creds[c].user = u
  /\ creds' = [creds EXCEPT ![c] = NoCred]
  /\ UNCHANGED <<nextId, balances, account, process>>

(* DELETE /exchange/credentials/:id by its owner; the foreign key of       *)
(* exchange_balances cascades.  No row matches for any other user: 404.    *)
DeleteCredential(u, c) ==
  /\ c \in Live
  /\ creds[c].user = u
  /\ creds' = [creds EXCEPT ![c] = NoCred]
  /\ balances' = [balances EXCEPT ![c] = [s \in Symbols |-> NoRow]]
  /\ UNCHANGED <<nextId, account, process>>

(* The user trades at the exchange.                                        *)
Trade(c) ==
  /\ account[c] < MaxRev
  /\ account' = [account EXCEPT ![c] = @ + 1]
  /\ UNCHANGED <<tables, process>>

-----------------------------------------------------------------------------
(* SyncBalances, run by a request or by the loop.                          *)

(* The part of SyncBalances that follows GetBalances: the upserts run      *)
(* while rows are pending, and the call returns nil after the last one.    *)
SaveOrReturn(p, c, u, r, A) ==
  sync' = [sync EXCEPT ![p] = IF A = {} THEN Idle("nil") ELSE Saving(c, u, r, A)]

(* GetCredentialByID, Decrypt and the client factory.                      *)
LoadCredential(p, c) ==
  /\ sync[p] = Loading(c)
  /\ CtxAlive(p)
  /\ sync' = [sync EXCEPT ![p] =
                IF c \notin Live THEN Idle("no_rows")
                ELSE IF Lower[creds[c].exchange] \in Supported
                       THEN Fetching(c, creds[c].user)
                       ELSE Idle("other")]
  /\ UNCHANGED <<tables, account, loop, tick, stopped>>

(* Mutant: zero entries are kept.                                          *)
FetchBalances_KeepsZeros(p, c) ==
  /\ sync[p].stage = "fetch"
  /\ sync[p].cred = c
  /\ CtxAlive(p)
  /\ SaveOrReturn(p, c, sync[p].user, account[c], Assets)
  /\ UNCHANGED <<tables, account, loop, tick, stopped>>

(* Mutant: the client may answer from a cache of an earlier report.        *)
FetchBalances_Cached(p, c) ==
  /\ sync[p].stage = "fetch"
  /\ sync[p].cred = c
  /\ CtxAlive(p)
  /\ \E r \in 0..account[c] : SaveOrReturn(p, c, sync[p].user, r, Held[c][r])
  /\ UNCHANGED <<tables, account, loop, tick, stopped>>

(* client.GetBalances: the account as it is now, zero entries dropped.     *)
FetchBalances(p, c) ==
  /\ sync[p].stage = "fetch"
  /\ sync[p].cred = c
  /\ CtxAlive(p)
  /\ SaveOrReturn(p, c, sync[p].user, account[c], Held[c][account[c]])
  /\ UNCHANGED <<tables, account, loop, tick, stopped>>

(* One INSERT ... ON CONFLICT (credential_id, symbol) DO UPDATE that       *)
(* commits: the foreign key holds, and a row already there keeps its user. *)
CommitRow(p, c, a) ==
  /\ sync[p].stage = "save"
  /\ sync[p].cred = c
  /\ a \in sync[p].pending
  /\ CtxAlive(p)
  /\ c \in Live
  /\ balances' = [balances EXCEPT ![c][Upper[a]] =
                    IF @ = NoRow THEN [user |-> sync[p].user, rev |-> sync[p].rev]
                    ELSE [@ EXCEPT !.rev = sync[p].rev]]
  /\ UNCHANGED <<creds, nextId, account, loop, tick, stopped>>

(* One iteration of the loop of UpsertBalances.                            *)
UpsertRow(p, c, a) ==
  /\ CommitRow(p, c, a)
  /\ SaveOrReturn(p, c, sync[p].user, sync[p].rev, sync[p].pending \ {a})

(* The statement commits but its answer is lost: Exec returns an error and *)
(* UpsertBalances stops there.                                             *)
UpsertRowUnanswered(p, c, a) ==
  /\ CommitRow(p, c, a)
  /\ sync' = [sync EXCEPT ![p] = Idle("other")]

(* Mutant: an error is logged and nil returned.                            *)
FailSync_Swallowed(p) ==
  /\ sync[p].stage # "idle"
  /\ sync' = [sync EXCEPT ![p] = Idle("nil")]
  /\ UNCHANGED <<tables, account, loop, tick, stopped>>

(* A call of p fails, for whatever reason (the database, the exchange, a   *)
(* cancelled context, the foreign key of a credential deleted meanwhile):  *)
(* SyncBalances returns at once; rows already upserted stay.               *)
FailSync(p) ==
  /\ sync[p].stage # "idle"
  /\ sync' = [sync EXCEPT ![p] = Idle("other")]
  /\ UNCHANGED <<tables, account, loop, tick, stopped>>

(* POST /exchange/credentials/:id/sync, for whatever id the path names.    *)
BeginRequest(p, c) ==
  /\ sync[p].stage = "idle"
  /\ sync' = [sync EXCEPT ![p] = Loading(c)]
  /\ UNCHANGED <<tables, account, loop, tick, stopped>>

(* The status SyncExchangeBalances answers: its 404 is for an error equal  *)
(* to store.ErrNotFound itself.                                            *)
Status(err) == IF err = "nil" THEN 200
               ELSE IF err = "ErrNotFound" THEN 404 ELSE 500

-----------------------------------------------------------------------------
(* The background goroutine.                                               *)

(* runSync: GetAllActiveCredentials (is_active is TRUE in every row).      *)
ListCredentials ==
  /\ loop.pc = "list"
  /\ LoopCtxAlive
  /\ loop' = [loop EXCEPT !.pc = "each", !.queue = Live]
  /\ UNCHANGED <<tables, account, sync, tick, stopped>>

(* ... or its error: this run is over.                                     *)
ListFails ==
  /\ loop.pc = "list"
  /\ loop' = AtSelect
  /\ UNCHANGED <<tables, account, sync, tick, stopped>>

(* Mutant: the run is given up once a credential has failed.               *)
NextCredential_GivesUp(c) ==
  /\ loop.pc = "each"
  /\ sync[Loop].stage = "idle"
  /\ LoopCtxAlive
  /\ c \in loop.queue
  /\ IF sync[Loop].err = "other"
       THEN loop' = AtSelect /\ UNCHANGED sync
       ELSE /\ loop' = [loop EXCEPT !.queue = @ \ {c}]
            /\ sync' = [sync EXCEPT ![Loop] = Loading(c)]
  /\ UNCHANGED <<tables, account, tick, stopped>>

(* The next credential of the run, in no particular order; whatever the    *)
(* previous one returned was only logged.                                  *)
NextCredential(c) ==
  /\ loop.pc = "each"
  /\ sync[Loop].stage = "idle"
  /\ LoopCtxAlive
  /\ c \in loop.queue
  /\ loop' = [loop EXCEPT !.queue = @ \ {c}]
  /\ sync' = [sync EXCEPT ![Loop] = Loading(c)]
  /\ UNCHANGED <<tables, account, tick, stopped>>

(* runSync returns: no credential is left, or its context is cancelled.    *)
EndRun ==
  /\ loop.pc = "each"
  /\ sync[Loop].stage = "idle"
  /\ loop.queue = {} \/ ~LoopCtxAlive
  /\ loop' = AtSelect
  /\ UNCHANGED <<tables, account, sync, tick, stopped>>

(* case <-ticker.C: a run under context.Background().                      *)
TakeTick ==
  /\ loop.pc = "select"
  /\ tick
  /\ tick' = FALSE
  /\ loop' = [NewLoop EXCEPT !.ticked = TRUE]
  /\ UNCHANGED <<tables, account, sync, stopped>>

(* Mutant: a waiting tick is always served first.                          *)
TakeDone_TickFirst ==
  /\ loop.pc = "select"
  /\ stopped
  /\ ~tick
  /\ loop' = [loop EXCEPT !.pc = "returned"]
  /\ UNCHANGED <<tables, account, sync, tick, stopped>>

(* case <-ctx.Done(): return, and the deferred ticker.Stop().              *)
TakeDone ==
  /\ loop.pc = "select"
  /\ stopped
  /\ loop' = [loop EXCEPT !.pc = "returned"]
  /\ tick' = FALSE
  /\ UNCHANGED <<tables, account, sync, stopped>>

(* A tick comes due; it is dropped when one is waiting already.            *)
TickerFires ==
  /\ loop.pc # "returned"
  /\ ~tick
  /\ tick' = TRUE
  /\ UNCHANGED <<tables, account, sync, loop, stopped>>

(* stopSync().                                                             *)
Stop ==
  /\ ~stopped
  /\ stopped' = TRUE
  /\ UNCHANGED <<tables, account, sync, loop, tick>>

(* The process dies anywhere and starts again: the tables survive, every   *)
(* request and the loop are gone, and main calls StartSync anew.           *)
Restart ==
  /\ sync' = [p \in Procs |-> Idle("none")]
  /\ loop' = NewLoop
  /\ tick' = FALSE
  /\ stopped' = FALSE
  /\ UNCHANGED <<tables, account>>

-----------------------------------------------------------------------------
SyncStep(p) ==
  \/ \E c \in CredIds : LoadCredential(p, c)
  \/ \E c \in CredIds : FetchBalances(p, c)
  \/ \E c \in CredIds, a \in Assets : UpsertRow(p, c, a)
  \/ \E c \in CredIds, a \in Assets : UpsertRowUnanswered(p, c, a)
  \/ FailSync(p)

LoopStep ==
  \/ ListCredentials
  \/ ListFails
  \/ \E c \in CredIds : NextCredential(c)
  \/ EndRun
  \/ TakeTick
  \/ TakeDone

Next ==
  \/ \E u \in Users, name \in Names : AddCredential(u, name)
  \/ \E u \in Users, c \in CredIds : DeleteCredential(u, c)
  \/ \E c \in CredIds : Trade(c)
  \/ \E p \in Requests, c \in CredIds : BeginRequest(p, c)
  \/ \E p \in Procs : SyncStep(p)
  \/ LoopStep
  \/ TickerFires
  \/ Stop
  \/ Restart

Spec == Init /\ [][Next]_vars

(* Fairness, for the liveness properties.  Every call of the loop returns  *)
(* (a result or an error) and ticks keep coming: WF.  No call fails, and   *)
(* the process does not die in front of the same call, each time it is     *)
(* tried, and Go's select picks among ready cases at random, so no ready   *)
(* case is passed over for ever: SF.                                       *)
LoopFairness ==
  /\ WF_vars(TickerFires)
  /\ WF_vars(LoopStep)
  /\ WF_vars(SyncStep(Loop))
  /\ SF_vars(ListCredentials)
  /\ SF_vars(TakeDone)
  /\ \A c \in CredIds :
       /\ SF_vars(NextCredential(c))
       /\ SF_vars(LoadCredential(Loop, c))
       /\ SF_vars(FetchBalances(Loop, c))
       /\ \A a \in Assets : SF_vars(UpsertRow(Loop, c, a))

(* Requests end: their HTTP and database calls return.                     *)
RequestFairness == \A p \in Requests : WF_vars(SyncStep(p))

FairSpec == Spec /\ LoopFairness /\ RequestFairness

-----------------------------------------------------------------------------
(* Properties.                                                             *)

TypeOK ==
  /\ creds \in [CredIds -> Credential \cup {NoCred}]
  /\ nextId \in 1..(MaxCreds + 1)
  /\ balances \in [CredIds -> [Symbols -> Balance \cup {NoRow}]]
  /\ account \in [CredIds -> Revs]
  /\ sync \in [Procs -> SyncState]
  /\ loop \in LoopState
  /\ tick \in BOOLEAN
  /\ stopped \in BOOLEAN

(* A sync reads the owner of a credential before two remote calls and      *)
(* writes it into every row after them.  Whatever is deleted and added     *)
(* meanwhile, no balance row outlives its credential, and none carries the *)
(* id of a user who does not own the credential.                           *)
RowsBelongToOwner ==
  \A c \in CredIds, s \in Symbols :
    balances[c][s] # NoRow => c \in Live /\ balances[c][s].user = creds[c].user

(* Every stored amount is one the exchange reported for that very          *)
(* credential and asset: rows of two accounts, two symbols or two reports  *)
(* are never mixed up by interleaved syncs, and a zero amount is never     *)
(* stored.                                                                 *)
RowsWereReported ==
  \A c \in CredIds, s \in Symbols :
    balances[c][s] # NoRow =>
      /\ balances[c][s].rev <= account[c]
      /\ \E a \in Held[c][balances[c][s].rev] : Upper[a] = s

(* However the clients spell the name, no user has two credentials the     *)
(* client factory takes to the same exchange, whose balances the portfolio *)
(* would count twice.                                                      *)
OneCredentialPerExchange ==
  \A c, d \in Live :
    /\ creds[c].user = creds[d].user
    /\ Lower[creds[c].exchange] = Lower[creds[d].exchange]
    => c = d

(* What every sync under way knows is still true, or its credential is     *)
(* gone for good: ids are never given out again, the user it read owns the *)
(* credential, its report lies in the account's past, and each asset of    *)
(* the report it no longer has pending has a row.                          *)
IdsNeverReused ==
  \A c \in CredIds : c >= nextId => creds[c] = NoCred

Truthful(s) ==
  /\ s.stage \in {"fetch", "save"} =>
       /\ s.cred < nextId
       /\ s.cred \in Live => s.user = creds[s.cred].user
  /\ s.stage = "save" =>
       /\ s.rev <= account[s.cred]
       /\ s.pending \subseteq Held[s.cred][s.rev]
       /\ s.cred \in Live =>
            \A a \in Held[s.cred][s.rev] \ s.pending :
              balances[s.cred][Upper[a]] # NoRow

SyncsAreTruthful == \A p \in Procs : Truthful(sync[p])

(* The names stored are lower-case, and no user has one of them twice.     *)
StoredNamesAreUnique ==
  \A c \in Live :
    /\ Lower[creds[c].exchange] = creds[c].exchange
    /\ \A d \in Live : creds[c] = creds[d] => c = d

(* The inductive invariant: the rows of the tables agree with the          *)
(* credentials because every sync under way does.                          *)
IInv ==
  /\ TypeOK
  /\ IdsNeverReused
  /\ StoredNamesAreUnique
  /\ RowsBelongToOwner
  /\ RowsWereReported
  /\ SyncsAreTruthful

(* A sync that returns nil (the handler answers 200 with the list it       *)
(* fetched) has left a row for every asset of that list, unless the        *)
(* credential is gone: one failed statement, or the foreign key of a       *)
(* credential deleted half way, is never taken for success.                *)
NilMeansStored ==
  \A p \in Procs :
    (sync[p].stage = "save" /\ sync'[p].stage = "idle" /\ Status(sync'[p].err) = 200) =>
      \A a \in Held[sync[p].cred][sync[p].rev] :
        \/ balances'[sync[p].cred][Upper[a]] # NoRow
        \/ creds'[sync[p].cred] = NoCred

SyncAnswersHonestly == [][NilMeansStored]_vars

(* The tables as their readers see them behave as a BalanceBook.           *)
Book == INSTANCE BalanceBook WITH
          book <- balances, issued <- 1..(nextId - 1)

ImplementsBook == Book!Spec

(* With the loop running, what an account holds is eventually stored and   *)
(* stays stored, whatever fails in between and however often the other     *)
(* credentials of the run fail.                                            *)
HoldingsStored(c) ==
  c \in Live /\ Lower[creds[c].exchange] \in Supported =>
    \A a \in Held[c][account[c]] :
      balances[c][Upper[a]] # NoRow /\ balances[c][Upper[a]].rev = account[c]

HoldingsGetStored ==
  <>[](~stopped) => \A c \in CredIds : <>[]HoldingsStored(c)

(* ... and what it no longer holds eventually disappears from the balances *)
(* (the balances are to be at most one interval old).                      *)
SoldAssetsForgotten(c) ==
  c \in Live /\ Lower[creds[c].exchange] \in Supported =>
    \A s \in Symbols :
      balances[c][s] # NoRow => \E a \in Held[c][account[c]] : Upper[a] = s

SoldAssetsGetForgotten ==
  <>[](~stopped) => \A c \in CredIds : <>[]SoldAssetsForgotten(c)

(* Cancelling the context ends the goroutine, although ticks that come due *)
(* while it works keep competing with ctx.Done() in the select.            *)
StopEndsLoop == stopped ~> (loop.pc = "returned" \/ ~stopped)
=============================================================================
