------------------------------ MODULE PriceFeed ------------------------------
(***************************************************************************)
(* How prices get from the provider into asset_prices and are published:   *)
(* internal/service/price_service.go, SavePrice and GetLatestPrice of      *)
(* internal/store/price_store.go, PublishPriceEvent of                     *)
(* internal/event/kafka.go and TriggerPriceSync of                         *)
(* internal/api/price_handler.go.  The topic itself is in PriceEvents.     *)
(*                                                                         *)
(* FetchAndSave is one request to the provider and then, symbol by symbol  *)
(* in Go's random map order, an INSERT and a Kafka message.  The goroutine *)
(* of StartSync (Loop) and the goroutines that POST /prices/sync leaves    *)
(* behind (Triggers: slots for those alive at the same time) run it        *)
(* concurrently.  Waiting and retrying inside FetchPrices are the subject  *)
(* of CoinGecko; here it is one step that answers or fails.                *)
(*                                                                         *)
(* Data.  A price is the revision of the market it was quoted at; usd is   *)
(* FALSE for the 0 that FetchPrices makes of an answer without a "usd"     *)
(* field.                                                                  *)
(***************************************************************************)
EXTENDS Naturals, Functions

CONSTANTS
  Symbols,   \* the configured symbols that CoinGecko knows
  MaxQuote,  \* bound: how many times the market moves
  Triggers,  \* slots for manual syncs
  Loop,      \* the goroutine of StartSync
  HasKafka,  \* s.kafka != nil
  NoPrice    \* no row in asset_prices

Procs  == Triggers \cup {Loop}
Quotes == 0..MaxQuote
Price  == [rev : Quotes, usd : BOOLEAN]

ASSUME QuotesAssumption == MaxQuote \in Nat
ASSUME FeedAssumption ==
  /\ Loop \notin Triggers
  /\ HasKafka \in BOOLEAN
  /\ NoPrice \notin Price

VARIABLES
  quote,      \* the market: current revision
  latest,     \* per symbol, the newest row of asset_prices or NoPrice
  stored,     \* asset_prices: the set of <<symbol, price>> with a row
  run,        \* where each goroutine stands in FetchAndSave
  cancelled,  \* triggers whose request context is cancelled
  loop,       \* where the goroutine stands in StartSync
  tick,       \* ticker.C holds a tick
  stopped     \* syncCtx has been cancelled

tables == <<latest, stored>>
timer  == <<loop, tick, stopped>>
vars   == <<quote, latest, stored, run, cancelled, loop, tick, stopped>>

-----------------------------------------------------------------------------
(* "fetch": about to call FetchPrices; "save": at the head of the for loop *)
(* with prices still to save; "publish": symbol is saved, its event is due.*)
(* "idle" keeps how the last FetchAndSave ended: ok, error, or refused when*)
(* a call of it was refused because its context was cancelled.             *)
Results == {"ok", "error", "refused"}

Idle(result)            == [stage |-> "idle", result |-> result]
Fetching                == [stage |-> "fetch"]
Saving(prices)          == [stage |-> "save", prices |-> prices]
Publishing(s, prices)   == [stage |-> "publish", symbol |-> s, prices |-> prices]

Answers == UNION {[S -> Price] : S \in SUBSET Symbols}

RunState ==
  [stage : {"idle"}, result : Results]
    \cup [stage : {"fetch"}]
    \cup [stage : {"save"}, prices : Answers]
    \cup [stage : {"publish"}, symbol : Symbols, prices : Answers]

(* "first": in the FetchAndSave before the ticker exists; "select": waiting*)
(* for ctx.Done() or a tick; "run": in a ticked FetchAndSave, which gets   *)
(* context.Background(); "returned".                                       *)
LoopStates == {"first", "select", "run", "returned"}

CtxAlive(p) ==
  IF p = Loop THEN loop = "run" \/ ~stopped ELSE p \notin cancelled

Init ==
  /\ quote = 0
  /\ latest = [s \in Symbols |-> NoPrice]
  /\ stored = {}
  /\ run = [p \in Procs |-> IF p = Loop THEN Fetching ELSE Idle("ok")]
  /\ cancelled = {}
  /\ loop = "first"
  /\ tick = FALSE
  /\ stopped = FALSE

MarketMoves ==
  /\ quote < MaxQuote
  /\ quote' = quote + 1
  /\ UNCHANGED <<tables, run, cancelled, timer>>

-----------------------------------------------------------------------------
(* FetchAndSave.                                                           *)

GoTo(p, state) == run' = [run EXCEPT ![p] = state]

(* The for loop: FetchAndSave returns nil when no price is left.           *)
Continue(p, prices) ==
  GoTo(p, IF DOMAIN prices = {} THEN Idle("ok") ELSE Saving(prices))

Without(prices, s) == Restrict(prices, DOMAIN prices \ {s})

(* Mutant: the provider's answer may come from a cache.                    *)
FetchPrices_Cached(p, answered, blank) ==
  /\ run[p] = Fetching
  /\ CtxAlive(p)
  /\ blank \subseteq answered
  /\ \E rev \in 0..quote :
       Continue(p, [s \in answered |-> [rev |-> rev, usd |-> s \notin blank]])
  /\ UNCHANGED <<quote, tables, cancelled, timer>>

(* FetchPrices: the provider answers for some symbols; those it knows no   *)
(* dollar price of get the float64 zero value.                             *)
FetchPrices(p, answered, blank) ==
  /\ run[p] = Fetching
  /\ CtxAlive(p)
  /\ blank \subseteq answered
  /\ Continue(p, [s \in answered |-> [rev |-> quote, usd |-> s \notin blank]])
  /\ UNCHANGED <<quote, tables, cancelled, timer>>

(* FetchPrices fails: FetchAndSave returns the error.                      *)
FetchFails(p) ==
  /\ run[p] = Fetching
  /\ GoTo(p, Idle(IF CtxAlive(p) THEN "error" ELSE "refused"))
  /\ UNCHANGED <<quote, tables, cancelled, timer>>

(* The INSERT of SavePrice: fetched_at is NOW(), so that the row is the one*)
(* ORDER BY fetched_at DESC LIMIT 1 finds.                                 *)
InsertPrice(s, price) ==
  /\ latest' = [latest EXCEPT ![s] = price]
  /\ stored' = stored \cup {<<s, price>>}

SavePrice(p, s) ==
  /\ run[p].stage = "save"
  /\ s \in DOMAIN run[p].prices
  /\ CtxAlive(p)
  /\ InsertPrice(s, run[p].prices[s])
  /\ IF HasKafka THEN GoTo(p, Publishing(s, run[p].prices))
                 ELSE Continue(p, Without(run[p].prices, s))
  /\ UNCHANGED <<quote, cancelled, timer>>

(* Mutant: the error is logged, but the symbol is not skipped.             *)
SavePriceFails_NoContinue(p, s) ==
  /\ run[p].stage = "save"
  /\ s \in DOMAIN run[p].prices
  /\ \/ UNCHANGED <<latest, stored>>
     \/ CtxAlive(p) /\ InsertPrice(s, run[p].prices[s])
  /\ IF HasKafka THEN GoTo(p, Publishing(s, run[p].prices))
                 ELSE Continue(p, Without(run[p].prices, s))
  /\ UNCHANGED <<quote, cancelled, timer>>

(* SavePrice returns an error, whether or not its row got in: the symbol is*)
(* skipped, without an event.                                              *)
SavePriceFails(p, s) ==
  /\ run[p].stage = "save"
  /\ s \in DOMAIN run[p].prices
  /\ \/ UNCHANGED <<latest, stored>>
     \/ CtxAlive(p) /\ InsertPrice(s, run[p].prices[s])
  /\ Continue(p, Without(run[p].prices, s))
  /\ UNCHANGED <<quote, cancelled, timer>>

(* PublishPriceEvent is called and returns: whether the message is on the  *)
(* topic (see PriceEvents) or not, an error is logged and the loop goes on.*)
PublishPriceEvent(p) ==
  /\ run[p].stage = "publish"
  /\ Continue(p, Without(run[p].prices, run[p].symbol))
  /\ UNCHANGED <<quote, tables, cancelled, timer>>

(* What fairness is about: a symbol answered with a price, and its row.    *)
QuoteSymbol(p, s) ==
  \E answered, blank \in SUBSET Symbols :
    s \in answered \ blank /\ FetchPrices(p, answered, blank)

SaveQuoted(p, s) == SavePrice(p, s) /\ run[p].prices[s].usd

RunStep(p) ==
  \/ \E answered, blank \in SUBSET Symbols : FetchPrices(p, answered, blank)
  \/ FetchFails(p)
  \/ \E s \in Symbols : SavePrice(p, s)
  \/ \E s \in Symbols : SavePriceFails(p, s)
  \/ PublishPriceEvent(p)

-----------------------------------------------------------------------------
(* POST /prices/sync: a goroutine is started with the context of the       *)
(* request and 202 is answered ...                                         *)
TriggerPriceSync(p) ==
  /\ run[p].stage = "idle"
  /\ GoTo(p, Fetching)
  /\ cancelled' = cancelled \ {p}
  /\ UNCHANGED <<quote, tables, timer>>

(* ... and net/http cancels that context once the handler has returned.    *)
HandlerReturns(p) ==
  /\ p \notin cancelled
  /\ run[p].stage # "idle"
  /\ cancelled' = cancelled \cup {p}
  /\ UNCHANGED <<quote, tables, run, timer>>

-----------------------------------------------------------------------------
(* The goroutine of StartSync.  Whatever FetchAndSave returned was logged. *)

(* Mutant: the goroutine returns when FetchAndSave has failed.             *)
EnterSelect_GivesUp ==
  /\ loop \in {"first", "run"}
  /\ run[Loop].stage = "idle"
  /\ loop' = IF run[Loop].result = "ok" THEN "select" ELSE "returned"
  /\ UNCHANGED <<quote, tables, run, cancelled, tick, stopped>>

EnterSelect ==
  /\ loop \in {"first", "run"}
  /\ run[Loop].stage = "idle"
  /\ loop' = "select"
  /\ UNCHANGED <<quote, tables, run, cancelled, tick, stopped>>

TakeTick ==
  /\ loop = "select"
  /\ tick
  /\ tick' = FALSE
  /\ loop' = "run"
  /\ GoTo(Loop, Fetching)
  /\ UNCHANGED <<quote, tables, cancelled, stopped>>

(* Mutant: a waiting tick is always served first.                          *)
TakeDone_TickFirst ==
  /\ loop = "select"
  /\ stopped
  /\ ~tick
  /\ loop' = "returned"
  /\ UNCHANGED <<quote, tables, run, cancelled, tick, stopped>>

TakeDone ==
  /\ loop = "select"
  /\ stopped
  /\ loop' = "returned"
  /\ tick' = FALSE
  /\ UNCHANGED <<quote, tables, run, cancelled, stopped>>

TickerFires ==
  /\ loop \in {"select", "run"}
  /\ ~tick
  /\ tick' = TRUE
  /\ UNCHANGED <<quote, tables, run, cancelled, loop, stopped>>

Stop ==
  /\ ~stopped
  /\ stopped' = TRUE
  /\ UNCHANGED <<quote, tables, run, cancelled, loop, tick>>

(* The process dies anywhere and starts again.                             *)
Restart ==
  /\ run' = [p \in Procs |-> IF p = Loop THEN Fetching ELSE Idle("ok")]
  /\ cancelled' = {}
  /\ loop' = "first"
  /\ tick' = FALSE
  /\ stopped' = FALSE
  /\ UNCHANGED <<quote, tables>>

LoopStep == EnterSelect \/ TakeTick \/ TakeDone

Next ==
  \/ MarketMoves
  \/ \E p \in Procs : RunStep(p)
  \/ \E p \in Triggers : TriggerPriceSync(p)
  \/ \E p \in Triggers : HandlerReturns(p)
  \/ LoopStep
  \/ TickerFires
  \/ Stop
  \/ Restart

Spec == Init /\ [][Next]_vars

(* Calls return, ticks keep coming (WF); select chooses at random among    *)
(* ready cases, no symbol goes unquoted by the provider for ever, and no   *)
(* INSERT of a quoted price fails each time it is tried (SF).              *)
LoopFairness ==
  /\ WF_vars(TickerFires)
  /\ WF_vars(RunStep(Loop))
  /\ WF_vars(LoopStep)
  /\ SF_vars(TakeDone)
  /\ \A s \in Symbols :
       /\ SF_vars(QuoteSymbol(Loop, s))
       /\ SF_vars(SaveQuoted(Loop, s))

FairSpec == Spec /\ LoopFairness

-----------------------------------------------------------------------------
TypeOK ==
  /\ quote \in Quotes
  /\ latest \in [Symbols -> Price \cup {NoPrice}]
  /\ stored \subseteq Symbols \X Price
  /\ run \in [Procs -> RunState]
  /\ cancelled \subseteq Triggers
  /\ loop \in LoopStates
  /\ tick \in BOOLEAN
  /\ stopped \in BOOLEAN

(* While the goroutine is not stopped, the newest row of every configured  *)
(* symbol keeps catching up with the market, whatever fails in between.    *)
PricesCatchUp ==
  <>[](~stopped) =>
    \A s \in Symbols : []<>(latest[s] = [rev |-> quote, usd |-> TRUE])

(* Cancelling the context ends the goroutine, ticks notwithstanding.       *)
StopEndsLoop == stopped ~> (loop = "returned" \/ ~stopped)

(* A price sync that was accepted with 202 is carried out: none of its     *)
(* calls is refused because the handler has returned meanwhile.            *)
AcceptedSyncsAreCarriedOut ==
  \A p \in Triggers : run[p].stage = "idle" => run[p].result # "refused"
=============================================================================
