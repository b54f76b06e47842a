-------------------------- MODULE PriceEventsProofs --------------------------
(***************************************************************************)
(* For any symbols, goroutines, partitions, consumers and bounds: a price  *)
(* on the topic is in asset_prices, the newest row steps back only when    *)
(* FetchAndSave calls overlap, and a message is handled twice only after a *)
(* rebalance between a fetch and its commit.                               *)
(*                                                                         *)
(* EventsAreStored is not inductive: a goroutine about to publish must     *)
(* have stored what it publishes (PublishesStored), and no row disappears  *)
(* (RowsStay).  TwiceOnlyIfOvertaken rests on what GroupInv says of an     *)
(* entry that was not overtaken: once fetched it is the last one its owner *)
(* went past, and once committed neither the commits nor the reading of    *)
(* the group fall behind it.                                               *)
(***************************************************************************)
EXTENDS PriceEvents, PriceOverlaps, TLAPS

PublishesStored ==
  \A p \in Procs : run[p].stage = "publish" =>
    /\ run[p].symbol \in DOMAIN run[p].prices
    /\ <<run[p].symbol, run[p].prices[run[p].symbol]>> \in stored

FeedInv == TypeOK /\ PublishesStored

-----------------------------------------------------------------------------
(* The shapes of a run.                                                    *)
LEMMA IdleIsRun ==
  ASSUME NEW result \in Results
  PROVE  Idle(result) \in RunState
BY DEF Idle, RunState

LEMMA FetchingIsRun == Fetching \in RunState
BY DEF Fetching, RunState

LEMMA SavingIsRun ==
  ASSUME NEW prices \in Answers
  PROVE  Saving(prices) \in RunState
BY DEF Saving, RunState

LEMMA PublishingIsRun ==
  ASSUME NEW s \in Symbols, NEW prices \in Answers
  PROVE  Publishing(s, prices) \in RunState
BY DEF Publishing, RunState

(* An answer is a function from some symbols to prices.                    *)
LEMMA AnswerShape ==
  ASSUME NEW prices \in Answers
  PROVE  /\ DOMAIN prices \subseteq Symbols
         /\ prices = [s \in DOMAIN prices |-> prices[s]]
         /\ \A s \in DOMAIN prices : prices[s] \in Price
<1>1. PICK S \in SUBSET Symbols : prices \in [S -> Price]
  BY DEF Answers
<1>2. QED
  BY <1>1

LEMMA ShapeIsAnswer ==
  ASSUME NEW S \in SUBSET Symbols, NEW f \in [S -> Price]
  PROVE  f \in Answers
BY DEF Answers

(* Leaving the loop with prices still to save or without keeps the type.   *)
LEMMA ContinueKeepsRun ==
  ASSUME TypeOK, NEW p \in Procs, NEW S \in SUBSET Symbols,
         NEW f \in [S -> Price], Continue(p, f)
  PROVE  /\ run' \in [Procs -> RunState]
         /\ run'[p].stage # "publish"
         /\ \A q \in Procs \ {p} : run'[q] = run[q]
<1> DEFINE state == IF DOMAIN f = {} THEN Idle("ok") ELSE Saving(f)
<1>1. state \in RunState
  <2>1. CASE S = {}
    BY <2>1, IdleIsRun DEF Results
  <2>2. CASE S # {}
    BY <2>2, ShapeIsAnswer, SavingIsRun
  <2>3. QED
    BY <2>1, <2>2
<1>2. state.stage # "publish"
  BY DEF Idle, Saving
<1>3. run' = [run EXCEPT ![p] = state] /\ run \in [Procs -> RunState]
  BY DEF Continue, GoTo, TypeOK
<1>4. QED
  BY <1>1, <1>2, <1>3

LEMMA WithoutIsFunction ==
  ASSUME NEW prices \in Answers, NEW s
  PROVE  \E S \in SUBSET Symbols : Without(prices, s) \in [S -> Price]
<1> DEFINE S == DOMAIN prices \ {s}
<1>1. S \in SUBSET Symbols
  BY AnswerShape
<1>2. [x \in S |-> prices[x]] \in [S -> Price]
  BY AnswerShape
<1>3. QED
  BY <1>1, <1>2 DEF Without, Restrict

(* A step of p that leaves it anywhere but before a message keeps          *)
(* PublishesStored, since no row ever disappears.                          *)
LEMMA OthersKeepPublishing ==
  ASSUME FeedInv, NEW p \in Procs,
         run'[p].stage # "publish" \/ run'[p] = run[p],
         \A q \in Procs \ {p} : run'[q] = run[q],
         stored \subseteq stored'
  PROVE  PublishesStored'
BY DEF FeedInv, PublishesStored

(* The INSERT keeps the tables' types and every row there was.             *)
LEMMA InsertKeepsRows ==
  ASSUME FeedInv, NEW s \in Symbols, NEW price \in Price, InsertPrice(s, price)
  PROVE  /\ latest' \in [Symbols -> Price \cup {NoPrice}]
         /\ stored' \subseteq Symbols \X Price
         /\ stored \subseteq stored'
         /\ <<s, price>> \in stored'
BY DEF FeedInv, TypeOK, InsertPrice

-----------------------------------------------------------------------------
LEMMA FetchPricesStep ==
  ASSUME FeedInv, NEW p \in Procs, NEW answered \in SUBSET Symbols,
         NEW blank \in SUBSET Symbols, FetchPrices(p, answered, blank)
  PROVE  FeedInv'
<1> DEFINE f == [s \in answered |-> [rev |-> quote, usd |-> s \notin blank]]
<1>1. f \in [answered -> Price]
  BY DEF FeedInv, TypeOK, Price
<1>2. Continue(p, f) /\ UNCHANGED <<quote, tables, cancelled, timer>>
  BY DEF FetchPrices
<1>3. TypeOK' /\ PublishesStored'
  BY <1>1, <1>2, ContinueKeepsRun, OthersKeepPublishing DEF FeedInv, TypeOK, tables, timer
<1>4. QED
  BY <1>3 DEF FeedInv

LEMMA FetchFailsStep ==
  ASSUME FeedInv, NEW p \in Procs, FetchFails(p)
  PROVE  FeedInv'
<1> DEFINE state == Idle(IF CtxAlive(p) THEN "error" ELSE "refused")
<1>1. state \in RunState /\ state.stage = "idle"
  BY IdleIsRun DEF Results, Idle
<1>2. run' = [run EXCEPT ![p] = state] /\ UNCHANGED <<quote, tables, cancelled, timer>>
  BY DEF FetchFails, GoTo
<1>3. run \in [Procs -> RunState]
  BY DEF FeedInv, TypeOK
<1>4. TypeOK' /\ PublishesStored'
  BY <1>1, <1>2, <1>3, OthersKeepPublishing DEF FeedInv, TypeOK, tables, timer
<1>5. QED
  BY <1>4 DEF FeedInv

(* A run in its loop has an answer, and the symbol's price in it.          *)
LEMMA SavingHasAnswer ==
  ASSUME FeedInv, NEW p \in Procs, run[p].stage = "save", NEW s \in DOMAIN run[p].prices
  PROVE  run[p].prices \in Answers /\ s \in Symbols /\ run[p].prices[s] \in Price
<1>1. run[p] \in RunState
  BY DEF FeedInv, TypeOK
<1>2. run[p].prices \in Answers
  BY <1>1 DEF RunState
<1>3. QED
  BY <1>2, AnswerShape

LEMMA SavePriceStep ==
  ASSUME FeedInv, NEW p \in Procs, NEW s \in Symbols, SavePrice(p, s)
  PROVE  FeedInv'
<1> DEFINE prices == run[p].prices
<1>1. /\ prices \in Answers /\ s \in DOMAIN prices /\ prices[s] \in Price
      /\ UNCHANGED <<quote, cancelled, timer>>
  BY SavingHasAnswer DEF SavePrice
<1>2. /\ latest' \in [Symbols -> Price \cup {NoPrice}]
      /\ stored' \subseteq Symbols \X Price
      /\ stored \subseteq stored'
      /\ <<s, prices[s]>> \in stored'
  BY <1>1, InsertKeepsRows DEF SavePrice
<1>3. run' \in [Procs -> RunState] /\ PublishesStored'
  <2>1. CASE HasKafka
    <3>1. run' = [run EXCEPT ![p] = Publishing(s, prices)] /\ run \in [Procs -> RunState]
      BY <2>1 DEF SavePrice, GoTo, FeedInv, TypeOK
    <3>2. Publishing(s, prices) \in RunState
      BY <1>1, PublishingIsRun
    <3>3. ASSUME NEW q \in Procs, run'[q].stage = "publish" PROVE
            /\ run'[q].symbol \in DOMAIN run'[q].prices
            /\ <<run'[q].symbol, run'[q].prices[run'[q].symbol]>> \in stored'
      <4>1. CASE q = p
        BY <1>1, <1>2, <3>1, <4>1 DEF Publishing
      <4>2. CASE q # p
        BY <1>2, <3>1, <3>3, <4>2 DEF FeedInv, PublishesStored
      <4>3. QED
        BY <4>1, <4>2
    <3>4. QED
      BY <3>1, <3>2, <3>3 DEF PublishesStored
  <2>2. CASE ~HasKafka
    <3>1. Continue(p, Without(prices, s))
      BY <2>2 DEF SavePrice
    <3>2. PICK S \in SUBSET Symbols : Without(prices, s) \in [S -> Price]
      BY <1>1, WithoutIsFunction
    <3>3. QED
      BY <1>2, <3>1, <3>2, ContinueKeepsRun, OthersKeepPublishing DEF FeedInv
  <2>3. QED
    BY <2>1, <2>2
<1>4. QED
  BY <1>1, <1>2, <1>3 DEF FeedInv, TypeOK, timer

LEMMA SavePriceFailsStep ==
  ASSUME FeedInv, NEW p \in Procs, NEW s \in Symbols, SavePriceFails(p, s)
  PROVE  FeedInv'
<1> DEFINE prices == run[p].prices
<1>1. /\ prices \in Answers /\ s \in DOMAIN prices /\ prices[s] \in Price
      /\ UNCHANGED <<quote, cancelled, timer>>
  BY SavingHasAnswer DEF SavePriceFails
<1>2. /\ latest' \in [Symbols -> Price \cup {NoPrice}]
      /\ stored' \subseteq Symbols \X Price
      /\ stored \subseteq stored'
  <2>1. CASE InsertPrice(s, prices[s])
    BY <1>1, <2>1, InsertKeepsRows
  <2>2. CASE UNCHANGED <<latest, stored>>
    BY <2>2 DEF FeedInv, TypeOK
  <2>3. QED
    BY <2>1, <2>2 DEF SavePriceFails
<1>3. PICK S \in SUBSET Symbols : Without(prices, s) \in [S -> Price]
  BY <1>1, WithoutIsFunction
<1>4. run' \in [Procs -> RunState] /\ PublishesStored'
  BY <1>2, <1>3, ContinueKeepsRun, OthersKeepPublishing DEF FeedInv, SavePriceFails
<1>5. QED
  BY <1>1, <1>2, <1>4 DEF FeedInv, TypeOK, timer

(* Publishing is the end of a symbol.                                      *)
LEMMA PublishStep ==
  ASSUME FeedInv, NEW p \in Procs, PublishPriceEvent(p)
  PROVE  FeedInv'
<1>1. /\ run[p].stage = "publish"
      /\ Continue(p, Without(run[p].prices, run[p].symbol))
      /\ UNCHANGED <<quote, tables, cancelled, timer>>
  BY DEF PublishPriceEvent
<1>2. run[p] \in RunState
  BY DEF FeedInv, TypeOK
<1>3. run[p].prices \in Answers
  BY <1>1, <1>2 DEF RunState
<1>4. PICK S \in SUBSET Symbols : Without(run[p].prices, run[p].symbol) \in [S -> Price]
  BY <1>3, WithoutIsFunction
<1>5. run' \in [Procs -> RunState] /\ PublishesStored'
  BY <1>1, <1>4, ContinueKeepsRun, OthersKeepPublishing DEF FeedInv, tables
<1>6. QED
  BY <1>1, <1>5 DEF FeedInv, TypeOK, tables, timer

(* The handlers of manual syncs and the goroutine of StartSync move runs   *)
(* between being idle and being about to fetch.                            *)
LEMMA StarterStep ==
  ASSUME FeedInv,
         \/ MarketMoves
         \/ \E p \in Triggers : TriggerPriceSync(p) \/ HandlerReturns(p)
         \/ LoopStep \/ TickerFires \/ Stop \/ Restart
  PROVE  FeedInv'
<1>1. Fetching \in RunState /\ Idle("ok") \in RunState
  BY FetchingIsRun, IdleIsRun DEF Results
<1>2. Fetching.stage = "fetch" /\ Idle("ok").stage = "idle"
  BY DEF Fetching, Idle
<1>3. CASE MarketMoves
  BY <1>3, QuotesAssumption DEF MarketMoves, FeedInv, TypeOK, PublishesStored,
       Quotes, tables, timer
<1>4. ASSUME NEW p \in Triggers, TriggerPriceSync(p) \/ HandlerReturns(p) PROVE FeedInv'
  <2>1. CASE TriggerPriceSync(p)
    BY <1>1, <1>2, <2>1 DEF TriggerPriceSync, GoTo, Procs, FeedInv, TypeOK,
         PublishesStored, tables, timer
  <2>2. CASE HandlerReturns(p)
    BY <2>2 DEF HandlerReturns, FeedInv, TypeOK, PublishesStored, tables, timer
  <2>3. QED
    BY <1>4, <2>1, <2>2
<1>5. CASE EnterSelect
  BY <1>5 DEF EnterSelect, LoopStates, FeedInv, TypeOK, PublishesStored, tables
<1>6. CASE TakeTick
  BY <1>1, <1>2, <1>6 DEF TakeTick, GoTo, Procs, LoopStates, FeedInv, TypeOK,
       PublishesStored, tables
<1>7. CASE TakeDone \/ TickerFires \/ Stop
  BY <1>7 DEF TakeDone, TickerFires, Stop, LoopStates, FeedInv, TypeOK,
       PublishesStored, tables
<1>8. CASE Restart
  BY <1>1, <1>2, <1>8 DEF Restart, LoopStates, FeedInv, TypeOK,
       PublishesStored, tables
<1>9. QED
  BY <1>3, <1>4, <1>5, <1>6, <1>7, <1>8 DEF LoopStep

LEMMA FeedInvInit == Init => FeedInv
<1> SUFFICES ASSUME Init PROVE FeedInv
  OBVIOUS
<1>1. Fetching \in RunState /\ Idle("ok") \in RunState
  BY FetchingIsRun, IdleIsRun DEF Results
<1>2. Fetching.stage = "fetch" /\ Idle("ok").stage = "idle"
  BY DEF Fetching, Idle
<1>3. run = [p \in Procs |-> IF p = Loop THEN Fetching ELSE Idle("ok")]
  BY DEF Init
<1>4. run \in [Procs -> RunState] /\ \A p \in Procs : run[p].stage # "publish"
  BY <1>1, <1>2, <1>3
<1>5. TypeOK
  <2>1. quote \in Quotes /\ loop \in LoopStates
    BY QuotesAssumption DEF Init, Quotes, LoopStates
  <2>2. latest \in [Symbols -> Price \cup {NoPrice}]
    BY DEF Init
  <2>3. QED
    BY <1>4, <2>1, <2>2 DEF Init, TypeOK
<1>6. QED
  BY <1>4, <1>5 DEF Init, FeedInv, PublishesStored

LEMMA FeedInvStep == FeedInv /\ [Next]_vars => FeedInv'
<1> SUFFICES ASSUME FeedInv, [Next]_vars PROVE FeedInv'
  OBVIOUS
<1>1. ASSUME NEW p \in Procs, RunStep(p) PROVE FeedInv'
  BY <1>1, FetchPricesStep, FetchFailsStep, SavePriceStep, SavePriceFailsStep, PublishStep
     DEF RunStep
<1>2. CASE UNCHANGED vars
  BY <1>2 DEF vars, FeedInv, TypeOK, PublishesStored
<1>3. QED
  BY <1>1, <1>2, StarterStep DEF Next

(* Type correctness of the feed (price_service.go), whatever the symbols,  *)
(* the number of manual syncs and the bounds.                              *)
THEOREM FeedTypeCorrect == Spec => []TypeOK
<1>1. Spec => []FeedInv
  BY FeedInvInit, FeedInvStep, PTL DEF Spec
<1>2. FeedInv => TypeOK
  BY DEF FeedInv
<1>3. QED
  BY <1>1, <1>2, PTL

-----------------------------------------------------------------------------
(* The newest row of a symbol steps back only when calls overlap.          *)

(* No row and no answer is ahead of the market, and the answer of a call   *)
(* that has met no other one is the only one being stored and not behind   *)
(* any row of its symbols.                                                 *)
RowsFromMarket ==
  \A s \in Symbols : latest[s] # NoPrice => latest[s].rev <= quote

AnswersFromMarket ==
  \A p \in Procs : HoldsAnswer(p) =>
    \A s \in DOMAIN run[p].prices : run[p].prices[s].rev <= quote

LoneAnswersAreNewest ==
  \A p \in Procs : HoldsAnswer(p) /\ p \notin overlapped =>
    /\ \A q \in Procs \ {p} : ~HoldsAnswer(q)
    /\ \A s \in DOMAIN run[p].prices :
         latest[s] # NoPrice => latest[s].rev <= run[p].prices[s].rev

OverlapInv ==
  FeedInv /\ RowsFromMarket /\ AnswersFromMarket /\ LoneAnswersAreNewest

(* A price is at a natural revision, and answers are about the symbols.    *)
LEMMA RevsAreNaturals ==
  ASSUME FeedInv
  PROVE  /\ quote \in Nat
         /\ \A s \in Symbols : latest[s] # NoPrice => latest[s].rev \in Nat
         /\ \A p \in Procs : HoldsAnswer(p) =>
              /\ DOMAIN run[p].prices \subseteq Symbols
              /\ \A s \in DOMAIN run[p].prices :
                   run[p].prices[s].rev \in Nat /\ run[p].prices[s] # NoPrice
<1>1. \A price \in Price : price.rev \in Nat /\ price # NoPrice
  BY QuotesAssumption, FeedAssumption DEF Quotes, Price
<1>2. \A p \in Procs : HoldsAnswer(p) => run[p].prices \in Answers
  BY DEF FeedInv, TypeOK, RunState, HoldsAnswer
<1>3. QED
  BY <1>1, <1>2, AnswerShape, QuotesAssumption DEF FeedInv, TypeOK, Quotes

(* Leaving a symbol behind: what is still to save was to be saved before.  *)
LEMMA ContinueDrops ==
  ASSUME FeedInv, NEW p \in Procs, NEW s, HoldsAnswer(p),
         Continue(p, Without(run[p].prices, s))
  PROVE  \/ ~HoldsAnswer(p)'
         \/ /\ run'[p].stage = "save"
            /\ DOMAIN run'[p].prices \subseteq DOMAIN run[p].prices
            /\ s \notin DOMAIN run'[p].prices
            /\ \A t \in DOMAIN run'[p].prices : run'[p].prices[t] = run[p].prices[t]
<1> DEFINE rest == Without(run[p].prices, s)
<1>1. run \in [Procs -> RunState]
  BY DEF FeedInv, TypeOK
<1>2. rest = [t \in DOMAIN run[p].prices \ {s} |-> run[p].prices[t]]
  BY DEF Without, Restrict
<1>3. run'[p] = IF DOMAIN rest = {} THEN Idle("ok") ELSE Saving(rest)
  BY <1>1 DEF Continue, GoTo
<1>4. CASE DOMAIN rest = {}
  BY <1>3, <1>4 DEF Idle, HoldsAnswer
<1>5. CASE DOMAIN rest # {}
  <2>1. run'[p].prices = rest /\ run'[p].stage = "save"
    BY <1>3, <1>5 DEF Saving
  <2>2. QED
    BY <1>2, <2>1
<1>6. QED
  BY <1>4, <1>5

(* An answer being stored is what is left of the one held before, or it has*)
(* just been fetched, and then it is the market as it is.                  *)
LEMMA AnswerOrigins ==
  ASSUME FeedInv, [Next]_vars, NEW p \in Procs, HoldsAnswer(p)'
  PROVE  \/ /\ HoldsAnswer(p)
            /\ DOMAIN run'[p].prices \subseteq DOMAIN run[p].prices
            /\ \A t \in DOMAIN run'[p].prices : run'[p].prices[t] = run[p].prices[t]
         \/ /\ UNCHANGED <<quote, latest>>
            /\ \A t \in DOMAIN run'[p].prices :
                 t \in Symbols /\ run'[p].prices[t].rev = quote
<1> DEFINE Kept == /\ HoldsAnswer(p)
                   /\ DOMAIN run'[p].prices \subseteq DOMAIN run[p].prices
                   /\ \A t \in DOMAIN run'[p].prices : run'[p].prices[t] = run[p].prices[t]
           Fetched == /\ UNCHANGED <<quote, latest>>
                      /\ \A t \in DOMAIN run'[p].prices :
                           t \in Symbols /\ run'[p].prices[t].rev = quote
<1>1. run \in [Procs -> RunState]
  BY DEF FeedInv, TypeOK
<1>2. CASE run'[p] = run[p]
  BY <1>2 DEF HoldsAnswer
<1>3. ASSUME NEW answered \in SUBSET Symbols, NEW blank \in SUBSET Symbols,
             FetchPrices(p, answered, blank)
      PROVE  Fetched
  <2> DEFINE f == [s \in answered |-> [rev |-> quote, usd |-> s \notin blank]]
  <2>1. run'[p] = IF DOMAIN f = {} THEN Idle("ok") ELSE Saving(f)
    BY <1>1, <1>3 DEF FetchPrices, Continue, GoTo
  <2>2. run'[p] = Saving(f)
    BY <2>1 DEF HoldsAnswer, Idle
  <2>3. run'[p].prices = f
    BY <2>2 DEF Saving
  <2>4. QED
    BY <1>3, <2>3 DEF FetchPrices, tables
<1>4. ASSUME NEW s \in Symbols, SavePrice(p, s) PROVE Kept
  <2>1. HoldsAnswer(p)
    BY <1>4 DEF SavePrice, HoldsAnswer
  <2>2. CASE HasKafka
    <3>1. run'[p].prices = run[p].prices
      BY <1>1, <1>4, <2>2 DEF SavePrice, GoTo, Publishing
    <3>2. QED
      BY <2>1, <3>1
  <2>3. CASE ~HasKafka
    BY <1>4, <2>1, <2>3, ContinueDrops DEF SavePrice
  <2>4. QED
    BY <2>2, <2>3
<1>5. ASSUME NEW s \in Symbols, SavePriceFails(p, s) PROVE Kept
  <2>1. HoldsAnswer(p) /\ Continue(p, Without(run[p].prices, s))
    BY <1>5 DEF SavePriceFails, HoldsAnswer
  <2>2. QED
    BY <2>1, ContinueDrops
<1>6. CASE PublishPriceEvent(p)
  <2>1. HoldsAnswer(p) /\ Continue(p, Without(run[p].prices, run[p].symbol))
    BY <1>6 DEF PublishPriceEvent, HoldsAnswer
  <2>2. Kept
    BY <2>1, ContinueDrops
  <2>3. QED
    BY <2>2
<1>7. ~FetchFails(p)
  BY <1>1 DEF FetchFails, GoTo, Idle, HoldsAnswer
<1>8. ASSUME NEW q \in Procs, RunStep(q), q # p PROVE run'[p] = run[p]
  BY <1>1, <1>8 DEF RunStep, FetchPrices, FetchFails, SavePrice, SavePriceFails,
     PublishPriceEvent, Continue, GoTo
<1>9. ASSUME NEW q \in Triggers, TriggerPriceSync(q) PROVE run'[p] = run[p]
  BY <1>1, <1>9 DEF TriggerPriceSync, GoTo, Fetching, HoldsAnswer
<1>10. TakeTick => run'[p] = run[p]
  BY <1>1 DEF TakeTick, GoTo, Fetching, HoldsAnswer
<1>11. ~Restart
  BY DEF Restart, Fetching, Idle, HoldsAnswer
<1>12. \/ UNCHANGED run
       \/ \E q \in Procs : RunStep(q)
       \/ \E q \in Triggers : TriggerPriceSync(q)
       \/ TakeTick
  BY <1>11 DEF Next, vars, MarketMoves, HandlerReturns, LoopStep, EnterSelect, TakeDone,
     TickerFires, Stop
<1>13. QED
  BY <1>2, <1>3, <1>4, <1>5, <1>6, <1>7, <1>8, <1>9, <1>10, <1>12 DEF RunStep

(* A row changes by an INSERT from the answer of a call, which then leaves *)
(* the symbol.                                                             *)
InsertStep(p, s) ==
  /\ HoldsAnswer(p) /\ s \in DOMAIN run[p].prices
  /\ InsertPrice(s, run[p].prices[s])
  /\ run'[p] # run[p] /\ UNCHANGED quote

LEMMA RowOrigins ==
  ASSUME FeedInv, [Next]_vars
  PROVE  /\ quote' \in Nat /\ quote <= quote'
         /\ UNCHANGED latest \/ \E p \in Procs, s \in Symbols : InsertStep(p, s)
<1>1. run \in [Procs -> RunState] /\ quote \in Nat
  BY RevsAreNaturals DEF FeedInv, TypeOK
<1>2. ASSUME NEW p \in Procs, NEW s \in Symbols, SavePrice(p, s)
      PROVE  InsertStep(p, s)
  <2>1. /\ HoldsAnswer(p) /\ run[p].stage = "save" /\ s \in DOMAIN run[p].prices
        /\ InsertPrice(s, run[p].prices[s]) /\ UNCHANGED quote
    BY <1>2 DEF SavePrice, HoldsAnswer
  <2>2. CASE HasKafka
    <3>1. run'[p].stage = "publish"
      BY <1>1, <1>2, <2>2 DEF SavePrice, GoTo, Publishing
    <3>2. QED
      BY <2>1, <3>1 DEF InsertStep
  <2>3. CASE ~HasKafka
    <3>1. Continue(p, Without(run[p].prices, s))
      BY <1>2, <2>3 DEF SavePrice
    <3>2. run'[p] # run[p]
      BY <2>1, <3>1, ContinueDrops DEF HoldsAnswer
    <3>3. QED
      BY <2>1, <3>2 DEF InsertStep
  <2>4. QED
    BY <2>2, <2>3
<1>3. ASSUME NEW p \in Procs, NEW s \in Symbols, SavePriceFails(p, s)
      PROVE  UNCHANGED latest \/ InsertStep(p, s)
  <2>1. /\ HoldsAnswer(p) /\ s \in DOMAIN run[p].prices /\ UNCHANGED quote
        /\ Continue(p, Without(run[p].prices, s))
    BY <1>3 DEF SavePriceFails, HoldsAnswer
  <2>2. run'[p] # run[p]
    BY <2>1, ContinueDrops DEF HoldsAnswer
  <2>3. QED
    BY <1>3, <2>1, <2>2 DEF SavePriceFails, InsertStep
<1>4. UNCHANGED latest \/ \E p \in Procs, s \in Symbols : InsertStep(p, s)
  BY <1>2, <1>3 DEF Next, vars, RunStep, MarketMoves, FetchPrices, FetchFails,
     PublishPriceEvent, TriggerPriceSync, HandlerReturns, LoopStep, EnterSelect, TakeTick,
     TakeDone, TickerFires, Stop, Restart, tables
<1>5. UNCHANGED quote \/ quote' = quote + 1
  BY DEF Next, vars, RunStep, MarketMoves, FetchPrices, FetchFails, SavePrice,
     SavePriceFails, PublishPriceEvent, TriggerPriceSync, HandlerReturns, LoopStep,
     EnterSelect, TakeTick, TakeDone, TickerFires, Stop, Restart
<1>6. QED
  BY <1>1, <1>4, <1>5

(* What an INSERT does to the newest rows.                                 *)
LEMMA InsertedRow ==
  ASSUME FeedInv, NEW p \in Procs, NEW s \in Symbols, InsertStep(p, s)
  PROVE  \A t \in Symbols : latest'[t] = IF t = s THEN run[p].prices[s] ELSE latest[t]
BY DEF InsertStep, InsertPrice, FeedInv, TypeOK

LEMMA MarketLeads ==
  ASSUME OverlapInv, [Next]_vars
  PROVE  RowsFromMarket' /\ AnswersFromMarket'
<1> USE DEF OverlapInv
<1>1. quote' \in Nat /\ quote <= quote' /\ quote \in Nat
  BY RowOrigins, RevsAreNaturals
<1>2. RowsFromMarket'
  <2>1. CASE UNCHANGED latest
    BY <1>1, <2>1, RevsAreNaturals DEF RowsFromMarket
  <2>2. ASSUME NEW p \in Procs, NEW s \in Symbols, InsertStep(p, s)
        PROVE  RowsFromMarket'
    <3>1. run[p].prices[s].rev \in Nat /\ run[p].prices[s].rev <= quote
      BY <2>2, RevsAreNaturals DEF InsertStep, AnswersFromMarket
    <3>2. QED
      BY <1>1, <2>2, <3>1, InsertedRow, RevsAreNaturals DEF RowsFromMarket
  <2>3. QED
    BY <2>1, <2>2, RowOrigins
<1>3. ASSUME NEW p \in Procs, HoldsAnswer(p)', NEW s \in DOMAIN run'[p].prices
      PROVE  run'[p].prices[s].rev <= quote'
  <2>1. CASE /\ HoldsAnswer(p) /\ s \in DOMAIN run[p].prices
             /\ run'[p].prices[s] = run[p].prices[s]
    <3>1. run[p].prices[s].rev \in Nat /\ run[p].prices[s].rev <= quote
      BY <2>1, RevsAreNaturals DEF AnswersFromMarket
    <3>2. QED
      BY <1>1, <2>1, <3>1
  <2>2. CASE UNCHANGED quote /\ run'[p].prices[s].rev = quote
    BY <1>1, <2>2
  <2>3. QED
    BY <1>3, <2>1, <2>2, AnswerOrigins
<1>4. QED
  BY <1>2, <1>3 DEF AnswersFromMarket

LEMMA LoneAnswersStayNewest ==
  ASSUME OverlapInv, [OverlapNext]_overlapVars
  PROVE  LoneAnswersAreNewest'
<1>1. CASE UNCHANGED overlapVars
  BY <1>1 DEF overlapVars, OverlapInv, LoneAnswersAreNewest, HoldsAnswer
<1>2. CASE OverlapNext
  <2> SUFFICES ASSUME NEW p \in Procs, HoldsAnswer(p)', p \notin overlapped'
               PROVE  /\ \A q \in Procs \ {p} : ~HoldsAnswer(q)'
                      /\ \A s \in DOMAIN run'[p].prices :
                           latest'[s] # NoPrice => latest'[s].rev <= run'[p].prices[s].rev
    BY DEF LoneAnswersAreNewest, HoldsAnswer
  <2>1. /\ p \notin overlapped /\ [Next]_vars
        /\ \A q \in Procs \ {p} : ~HoldsAnswer(q)'
    BY <1>2 DEF OverlapNext, NoteOverlaps, HoldsAnswer
  <2>2. ASSUME NEW s \in DOMAIN run'[p].prices, latest'[s] # NoPrice
        PROVE  latest'[s].rev <= run'[p].prices[s].rev
    <3>1. CASE UNCHANGED <<quote, latest>> /\ s \in Symbols /\ run'[p].prices[s].rev = quote
      BY <2>2, <3>1 DEF OverlapInv, RowsFromMarket
    <3>2. CASE /\ HoldsAnswer(p) /\ s \in DOMAIN run[p].prices
               /\ run'[p].prices[s] = run[p].prices[s]
      <4>1. /\ \A q \in Procs \ {p} : ~HoldsAnswer(q)
            /\ latest[s] # NoPrice => latest[s].rev <= run[p].prices[s].rev
        BY <2>1, <3>2 DEF OverlapInv, LoneAnswersAreNewest
      <4>2. s \in Symbols /\ run[p].prices[s].rev \in Nat
        BY <3>2, RevsAreNaturals DEF OverlapInv
      <4>3. ASSUME NEW q \in Procs, NEW t \in Symbols, InsertStep(q, t)
            PROVE  latest'[s].rev <= run'[p].prices[s].rev
        <5>1. q = p
          BY <4>1, <4>3 DEF InsertStep
        <5>2. latest'[s] = IF s = t THEN run[p].prices[s] ELSE latest[s]
          BY <4>2, <4>3, <5>1, InsertedRow DEF OverlapInv
        <5>3. QED
          BY <2>2, <3>2, <4>1, <4>2, <5>2
      <4>4. CASE UNCHANGED latest
        BY <2>2, <3>2, <4>1, <4>4
      <4>5. QED
        BY <2>1, <4>3, <4>4, RowOrigins DEF OverlapInv
    <3>3. QED
      BY <2>1, <2>2, <3>1, <3>2, AnswerOrigins DEF OverlapInv
  <2>3. QED
    BY <2>1, <2>2
<1>3. QED
  BY <1>1, <1>2

LEMMA NextRegressesByOverlap ==
  ASSUME OverlapInv, [Next]_vars
  PROVE  LatestMovesOn \/ \E p \in overlapped : run'[p] # run[p]
<1> USE DEF OverlapInv
<1>1. CASE UNCHANGED latest
  BY <1>1, RevsAreNaturals DEF LatestMovesOn
<1>2. ASSUME NEW p \in Procs, NEW s \in Symbols, InsertStep(p, s)
      PROVE  LatestMovesOn \/ \E q \in overlapped : run'[q] # run[q]
  <2>1. CASE p \in overlapped
    BY <1>2, <2>1 DEF InsertStep
  <2>2. CASE p \notin overlapped
    <3>1. /\ run[p].prices[s] # NoPrice /\ run[p].prices[s].rev \in Nat
          /\ latest[s] # NoPrice => latest[s].rev <= run[p].prices[s].rev
      BY <1>2, <2>2, RevsAreNaturals DEF InsertStep, LoneAnswersAreNewest
    <3>2. QED
      BY <1>2, <3>1, InsertedRow, RevsAreNaturals DEF LatestMovesOn
  <2>3. QED
    BY <2>1, <2>2
<1>3. QED
  BY <1>1, <1>2, RowOrigins

(* For any number of manual syncs beside the goroutine: the newest row of a*)
(* symbol goes back to an older quote only by a FetchAndSave that met      *)
(* another one with an answer to store (price_service.go locks nothing).   *)
THEOREM LatestStepsBackOnlyByOverlap == OverlapSpec => LatestRegressesOnlyByOverlap
<1>1. OverlapInit => OverlapInv
  <2>1. OverlapInit => RowsFromMarket /\ AnswersFromMarket /\ LoneAnswersAreNewest
    BY DEF OverlapInit, Init, RowsFromMarket, AnswersFromMarket, LoneAnswersAreNewest,
       HoldsAnswer, Fetching, Idle
  <2>2. QED
    BY <2>1, FeedInvInit DEF OverlapInit, OverlapInv
<1>2. [OverlapNext]_overlapVars => [Next]_vars
  BY DEF OverlapNext, overlapVars, vars
<1>3. OverlapInv /\ [OverlapNext]_overlapVars => OverlapInv'
  BY <1>2, FeedInvStep, MarketLeads, LoneAnswersStayNewest DEF OverlapInv
<1>4. OverlapInv /\ [OverlapNext]_overlapVars =>
        [LatestMovesOn \/ \E p \in overlapped : run'[p] # run[p]]_overlapVars
  BY <1>2, NextRegressesByOverlap
<1>5. QED
  BY <1>1, <1>3, <1>4, PTL DEF OverlapSpec, LatestRegressesOnlyByOverlap

-----------------------------------------------------------------------------
(* The topic and the consumers change nothing for the feed.                *)
LEMMA EventsStepIsFeedStep == [EventsNext]_allVars => [Next]_vars
<1>1. FeedStep => Next
  BY DEF FeedStep, Deliver, RunStep, Next
<1>2. ConsumerStep => UNCHANGED vars
  BY DEF ConsumerStep, FetchMessage, CommitMessages, CommitFails, Handle, Rebalance
<1>3. UNCHANGED allVars => UNCHANGED vars
  BY DEF allVars, vars
<1>4. QED
  BY <1>1, <1>2, <1>3 DEF EventsNext

-----------------------------------------------------------------------------
GroupTypeOK ==
  /\ log \in [Partitions -> Seq(Symbols \X Price)]
  /\ \A i \in Partitions : Len(log[i]) <= MaxEntries
  /\ committed \in [Partitions -> 0..MaxEntries]
  /\ owner \in [Partitions -> Members]
  /\ position \in [Partitions -> 0..MaxEntries]
  /\ fetched \in [Members -> Entry \cup {NoEntry}]
  /\ hand \in [Members -> Entry \cup {NoEntry}]
  /\ handled \subseteq Entry
  /\ overtaken \subseteq Entry

(* The group has committed e and reads on after it.                        *)
Behind(e) == e[2] <= committed[e[1]] /\ e[2] <= position[e[1]]

(* e was fetched by c, which owns its partition and went no further, and   *)
(* nobody has had it yet.                                                  *)
FirstFetched(c, e) ==
  /\ position[e[1]] = e[2] /\ owner[e[1]] = c
  /\ e \notin handled /\ \A d \in Members : hand[d] # e

(* e was committed, and c is the only one that has it or had it.           *)
FirstInHand(c, e) ==
  /\ Behind(e)
  /\ e \notin handled /\ \A d \in Members \ {c} : hand[d] # e

GroupInv ==
  \A e \in Entry :
    /\ e \in handled => Overtaken(e) \/ Behind(e)
    /\ \A c \in Members : fetched[c] = e => Overtaken(e) \/ FirstFetched(c, e)
    /\ \A c \in Members : hand[c] = e => Overtaken(e) \/ FirstInHand(c, e)

TopicInv == FeedInv /\ GroupTypeOK /\ EventsAreStored /\ GroupInv

LEMMA EntriesArePairs ==
  /\ \A e \in Entry : e[1] \in Partitions /\ e[2] \in 1..MaxEntries
  /\ \A i \in Partitions, n \in 1..MaxEntries :
       <<i, n>> \in Entry /\ <<i, n>>[1] = i /\ <<i, n>>[2] = n
  /\ \A n \in 0..MaxEntries : n \in Int
  /\ \A n \in 1..MaxEntries : n \in 0..MaxEntries
  /\ NoEntry \notin Entry
BY EventsAssumption DEF Entry

LEMMA TopicInvInit == EventsInit => TopicInv
<1> SUFFICES ASSUME EventsInit PROVE TopicInv
  OBVIOUS
<1>1. FeedInv
  BY FeedInvInit DEF EventsInit
<1>2. GroupTypeOK /\ EventsAreStored /\ GroupInv
  BY EventsAssumption DEF EventsInit, GroupTypeOK, EventsAreStored, GroupInv
<1>3. QED
  BY <1>1, <1>2 DEF TopicInv

(* No step of the feed removes a row of asset_prices.                      *)
LEMMA RowsStay == [Next]_vars => stored \subseteq stored'
<1>1. ASSUME NEW p \in Procs, RunStep(p) PROVE stored \subseteq stored'
  BY <1>1 DEF RunStep, FetchPrices, FetchFails, SavePrice, SavePriceFails, InsertPrice,
     PublishPriceEvent, tables
<1>2. Next => stored \subseteq stored'
  BY <1>1 DEF Next, MarketMoves, TriggerPriceSync, HandlerReturns, LoopStep, EnterSelect,
     TakeTick, TakeDone, TickerFires, Stop, Restart, tables
<1>3. QED
  BY <1>2 DEF vars

LEMMA DeliverStep ==
  ASSUME TopicInv, NEW p \in Procs, NEW i \in Partitions, Deliver(p, i)
  PROVE  GroupTypeOK' /\ EventsAreStored'
<1> DEFINE message == <<run[p].symbol, run[p].prices[run[p].symbol]>>
<1>1. message \in stored /\ stored \subseteq Symbols \X Price /\ stored' = stored
  BY DEF Deliver, PublishPriceEvent, TopicInv, FeedInv, TypeOK, PublishesStored, tables
<1>2. log' = [log EXCEPT ![i] = Append(log[i], message)] /\ Len(log[i]) < MaxEntries
  BY DEF Deliver
<1>3. log[i] \in Seq(Symbols \X Price) /\ MaxEntries \in Nat
  BY EventsAssumption DEF TopicInv, GroupTypeOK
<1>4. /\ Append(log[i], message) \in Seq(Symbols \X Price)
      /\ Len(Append(log[i], message)) <= MaxEntries
      /\ \A j \in DOMAIN Append(log[i], message) :
           Append(log[i], message)[j] \in {message} \cup {log[i][k] : k \in DOMAIN log[i]}
  BY <1>1, <1>2, <1>3
<1>5. GroupTypeOK'
  BY <1>2, <1>4 DEF Deliver, consumer, TopicInv, GroupTypeOK
<1>6. EventsAreStored'
  BY <1>1, <1>2, <1>4 DEF TopicInv, GroupTypeOK, EventsAreStored
<1>7. QED
  BY <1>5, <1>6

(* What is fetched is the entry after all that the group has gone past.    *)
LEMMA FetchStep ==
  ASSUME TopicInv, NEW c \in Members, NEW i \in Partitions, FetchMessage(c, i)
  PROVE  GroupTypeOK' /\ GroupInv'
<1> USE DEF TopicInv, GroupTypeOK
<1>1. /\ fetched[c] = NoEntry /\ hand[c] = NoEntry /\ owner[i] = c
      /\ position[i] < Len(log[i])
      /\ position' = [position EXCEPT ![i] = position[i] + 1]
      /\ fetched' = [fetched EXCEPT ![c] = <<i, position[i] + 1>>]
      /\ UNCHANGED <<log, committed, owner, hand, handled, overtaken>>
  BY DEF FetchMessage, broker
<1>2. position[i] + 1 \in 1..MaxEntries /\ position[i] \in Nat
  BY <1>1, EventsAssumption
<1>3. PICK new \in Entry : new = <<i, position[i] + 1>>
  BY <1>2, EntriesArePairs
<1>4. new[1] = i /\ new[2] = position[i] + 1 /\ new[2] = position'[i]
  BY <1>1, <1>3
<1>5. GroupTypeOK'
  <2>1. position' \in [Partitions -> 0..MaxEntries]
    BY <1>1, <1>2, EntriesArePairs
  <2>2. fetched' \in [Members -> Entry \cup {NoEntry}]
    BY <1>1, <1>3
  <2>3. QED
    BY <1>1, <2>1, <2>2
<1> SUFFICES ASSUME NEW e \in Entry
             PROVE  /\ e \in handled' => Overtaken(e)' \/ Behind(e)'
                    /\ \A d \in Members : fetched'[d] = e => Overtaken(e)' \/ FirstFetched(d, e)'
                    /\ \A d \in Members : hand'[d] = e => Overtaken(e)' \/ FirstInHand(d, e)'
  BY <1>5 DEF GroupInv
<1>6. Overtaken(e)' <=> Overtaken(e)
  BY <1>1 DEF Overtaken
<1>7. Behind(e) => Behind(e)' /\ e # new
  BY <1>1, <1>2, <1>4, EntriesArePairs DEF Behind
<1>8. e \in handled' => Overtaken(e)' \/ Behind(e)'
  BY <1>1, <1>6, <1>7 DEF GroupInv
<1>9. ASSUME NEW d \in Members, hand'[d] = e PROVE Overtaken(e)' \/ FirstInHand(d, e)'
  BY <1>1, <1>6, <1>7, <1>9 DEF GroupInv, FirstInHand
<1>10. ASSUME NEW d \in Members, fetched'[d] = e, ~Overtaken(e)
       PROVE  FirstFetched(d, e)'
  <2>1. CASE d = c
    <3>1. e = new
      BY <1>1, <1>3, <1>10, <2>1
    <3>2. e \notin handled /\ \A m \in Members : hand[m] # e
      BY <1>7, <1>10, <3>1 DEF GroupInv, FirstInHand
    <3>3. QED
      BY <1>1, <1>4, <2>1, <3>1, <3>2 DEF FirstFetched
  <2>2. CASE d # c
    <3>1. FirstFetched(d, e)
      BY <1>1, <1>10, <2>2 DEF GroupInv
    <3>2. e[1] # i
      BY <1>1, <2>2, <3>1 DEF FirstFetched
    <3>3. QED
      BY <1>1, <3>1, <3>2, EntriesArePairs DEF FirstFetched
  <2>3. QED
    BY <2>1, <2>2
<1>11. QED
  BY <1>6, <1>8, <1>9, <1>10

(* A commit, even of an entry others have gone past, takes the group no    *)
(* further back than the first entry that was overtaken.                   *)
LEMMA CommitKeepsBehind ==
  ASSUME TopicInv, NEW c \in Members, NEW f \in Entry, fetched[c] = f, CommitOffset(f),
         UNCHANGED position
  PROVE  /\ committed' \in [Partitions -> 0..MaxEntries]
         /\ \A e \in Entry : Behind(e) => Overtaken(e) \/ Behind(e)'
         /\ Overtaken(f) \/ Behind(f)'
<1> USE DEF TopicInv, GroupTypeOK
<1>1. f[1] \in Partitions /\ f[2] \in 1..MaxEntries /\ f[2] \in 0..MaxEntries
  BY EntriesArePairs
<1>2. committed' = [committed EXCEPT ![f[1]] = f[2]]
  BY DEF CommitOffset
<1>3. committed'[f[1]] = f[2] /\ \A i \in Partitions : i # f[1] => committed'[i] = committed[i]
  BY <1>1, <1>2
<1>4. Overtaken(f) \/ position[f[1]] = f[2]
  BY DEF GroupInv, FirstFetched
<1>5. ASSUME NEW e \in Entry, Behind(e) PROVE Overtaken(e) \/ Behind(e)'
  <2>1. CASE e[1] # f[1]
    BY <1>3, <1>5, <2>1, EntriesArePairs DEF Behind
  <2>2. CASE e[1] = f[1] /\ position[f[1]] = f[2]
    BY <1>3, <1>5, <2>2 DEF Behind
  <2>3. CASE e[1] = f[1] /\ Overtaken(f)
    <3>1. PICK o \in overtaken : o[1] = f[1] /\ o[2] <= f[2]
      BY <2>3 DEF Overtaken
    <3>2. o[2] \in Int /\ e[2] \in Int /\ f[2] \in Int
      BY <1>1, <3>1, EntriesArePairs
    <3>3. o[2] <= e[2] \/ e[2] <= f[2]
      BY <3>1, <3>2
    <3>4. QED
      BY <1>3, <1>5, <2>3, <3>1, <3>3 DEF Overtaken, Behind
  <2>4. QED
    BY <1>4, <2>1, <2>2, <2>3
<1>6. ASSUME position[f[1]] = f[2] PROVE Behind(f)'
  <2>1. f[2] <= f[2] /\ position'[f[1]] = f[2]
    BY <1>1, <1>6
  <2>2. QED
    BY <1>3, <2>1 DEF Behind
<1>7. QED
  BY <1>1, <1>2, <1>4, <1>5, <1>6

(* ReadMessage returns, with the message or with an error.                 *)
LEMMA CommitStep ==
  ASSUME TopicInv, NEW c \in Members, CommitMessages(c) \/ CommitFails(c)
  PROVE  GroupTypeOK' /\ GroupInv'
<1> USE DEF TopicInv, GroupTypeOK
<1>1. PICK f \in Entry : f = fetched[c]
  BY DEF CommitMessages, CommitFails
<1>2. /\ UNCHANGED committed \/ CommitOffset(f)
      /\ fetched' = [fetched EXCEPT ![c] = NoEntry]
      /\ UNCHANGED <<log, owner, position, handled, overtaken>>
  BY <1>1 DEF CommitMessages, CommitFails
<1>3. \/ hand' = hand
      \/ hand' = [hand EXCEPT ![c] = f] /\ CommitOffset(f)
  BY <1>1 DEF CommitMessages, CommitFails
<1>4. GroupTypeOK'
  <2>1. committed' \in [Partitions -> 0..MaxEntries]
    BY <1>1, <1>2, CommitKeepsBehind
  <2>2. QED
    BY <1>1, <1>2, <1>3, <2>1
<1> SUFFICES ASSUME NEW e \in Entry
             PROVE  /\ e \in handled' => Overtaken(e)' \/ Behind(e)'
                    /\ \A d \in Members : fetched'[d] = e => Overtaken(e)' \/ FirstFetched(d, e)'
                    /\ \A d \in Members : hand'[d] = e => Overtaken(e)' \/ FirstInHand(d, e)'
  BY <1>4 DEF GroupInv
<1>5. Overtaken(e)' <=> Overtaken(e)
  BY <1>2 DEF Overtaken
<1>6. Behind(e) => Overtaken(e) \/ Behind(e)'
  <2>1. CASE UNCHANGED committed
    BY <1>2, <2>1 DEF Behind
  <2>2. CASE CommitOffset(f)
    BY <1>1, <1>2, <2>2, CommitKeepsBehind
  <2>3. QED
    BY <1>2, <2>1, <2>2
<1>7. e \in handled' => Overtaken(e)' \/ Behind(e)'
  BY <1>2, <1>5, <1>6 DEF GroupInv
<1>8. \/ Overtaken(f)
      \/ f \notin handled /\ \A m \in Members : hand[m] # f
  BY <1>1 DEF GroupInv, FirstFetched
<1>9. ASSUME NEW d \in Members, fetched'[d] = e, ~Overtaken(e)
      PROVE  FirstFetched(d, e)'
  <2>1. d # c /\ fetched[d] = e
    BY <1>2, <1>9, EntriesArePairs
  <2>2. FirstFetched(d, e)
    BY <1>9, <2>1 DEF GroupInv
  <2>3. e # f
    BY <1>1, <1>9, <2>1, <2>2 DEF GroupInv, FirstFetched
  <2>4. \A m \in Members : hand'[m] # e
    BY <1>3, <2>2, <2>3 DEF FirstFetched
  <2>5. QED
    BY <1>2, <2>2, <2>4 DEF FirstFetched
<1>10. ASSUME NEW d \in Members, hand'[d] = e, ~Overtaken(e)
       PROVE  FirstInHand(d, e)'
  <2>1. CASE hand[d] = e
    <3>1. FirstInHand(d, e)
      BY <1>10, <2>1 DEF GroupInv
    <3>2. e # f
      BY <1>8, <1>10, <2>1
    <3>3. \A m \in Members \ {d} : hand'[m] # e
      BY <1>3, <3>1, <3>2 DEF FirstInHand
    <3>4. Behind(e)'
      BY <1>6, <1>10, <3>1 DEF FirstInHand
    <3>5. QED
      BY <1>2, <3>1, <3>3, <3>4 DEF FirstInHand
  <2>2. CASE hand[d] # e
    <3>1. d = c /\ e = f /\ hand' = [hand EXCEPT ![c] = f] /\ CommitOffset(f)
      BY <1>3, <1>10, <2>2
    <3>2. Behind(e)'
      BY <1>1, <1>2, <1>10, <3>1, CommitKeepsBehind
    <3>3. e \notin handled /\ \A m \in Members \ {d} : hand'[m] # e
      BY <1>8, <1>10, <3>1
    <3>4. QED
      BY <1>2, <3>2, <3>3 DEF FirstInHand
  <2>3. QED
    BY <2>1, <2>2
<1>11. QED
  BY <1>5, <1>7, <1>9, <1>10

LEMMA HandleStep ==
  ASSUME TopicInv, NEW c \in Members, Handle(c)
  PROVE  GroupTypeOK' /\ GroupInv'
<1> USE DEF TopicInv, GroupTypeOK
<1>1. PICK f \in Entry : f = hand[c]
  BY DEF Handle
<1>2. /\ handled' = handled \cup {f} /\ hand' = [hand EXCEPT ![c] = NoEntry]
      /\ UNCHANGED <<log, committed, owner, position, fetched, overtaken>>
  BY <1>1 DEF Handle, broker
<1>3. GroupTypeOK'
  BY <1>2
<1> SUFFICES ASSUME NEW e \in Entry
             PROVE  /\ e \in handled' => Overtaken(e)' \/ Behind(e)'
                    /\ \A d \in Members : fetched'[d] = e => Overtaken(e)' \/ FirstFetched(d, e)'
                    /\ \A d \in Members : hand'[d] = e => Overtaken(e)' \/ FirstInHand(d, e)'
  BY <1>3 DEF GroupInv
<1>4. (Overtaken(e)' <=> Overtaken(e)) /\ (Behind(e)' <=> Behind(e))
  BY <1>2 DEF Overtaken, Behind
<1>5. e \in handled' => Overtaken(e)' \/ Behind(e)'
  BY <1>1, <1>2, <1>4 DEF GroupInv, FirstInHand
<1>6. ASSUME NEW d \in Members, fetched'[d] = e, ~Overtaken(e)
      PROVE  FirstFetched(d, e)'
  <2>1. FirstFetched(d, e)
    BY <1>2, <1>6 DEF GroupInv
  <2>2. e # f /\ \A m \in Members : hand'[m] # e
    BY <1>1, <1>2, <2>1, EntriesArePairs DEF FirstFetched
  <2>3. QED
    BY <1>2, <2>1, <2>2 DEF FirstFetched
<1>7. ASSUME NEW d \in Members, hand'[d] = e, ~Overtaken(e)
      PROVE  FirstInHand(d, e)'
  <2>1. d # c /\ hand[d] = e
    BY <1>2, <1>7, EntriesArePairs
  <2>2. FirstInHand(d, e)
    BY <1>7, <2>1 DEF GroupInv
  <2>3. e # f /\ \A m \in Members \ {d} : hand'[m] # e
    BY <1>1, <1>2, <2>1, <2>2, EntriesArePairs DEF FirstInHand
  <2>4. QED
    BY <1>2, <1>4, <2>2, <2>3 DEF FirstInHand
<1>8. QED
  BY <1>4, <1>5, <1>6, <1>7

(* What is fetched at a rebalance is overtaken or lost; the group goes back*)
(* to what it has committed, which is before nothing that was handled.     *)
LEMMA RebalanceStep ==
  ASSUME TopicInv, NEW dead \in SUBSET Members,
         NEW assignment \in [Partitions -> Members], Rebalance(dead, assignment)
  PROVE  GroupTypeOK' /\ GroupInv'
<1> USE DEF TopicInv, GroupTypeOK
<1>1. /\ position' = committed /\ owner' = assignment
      /\ \A c \in Members : /\ fetched'[c] \in {NoEntry, fetched[c]}
                            /\ hand'[c] \in {NoEntry, hand[c]}
                            /\ fetched'[c] # NoEntry => fetched'[c] \in overtaken'
      /\ overtaken \subseteq overtaken'
      /\ UNCHANGED <<log, committed, handled>>
  BY DEF Rebalance
<1>2. GroupTypeOK'
  <2>1. fetched' \in [Members -> Entry \cup {NoEntry}] /\ hand' \in [Members -> Entry \cup {NoEntry}]
    BY DEF Rebalance
  <2>2. overtaken' \subseteq Entry
    BY <2>1 DEF Rebalance
  <2>3. QED
    BY <1>1, <2>1, <2>2
<1> SUFFICES ASSUME NEW e \in Entry
             PROVE  /\ e \in handled' => Overtaken(e)' \/ Behind(e)'
                    /\ \A d \in Members : fetched'[d] = e => Overtaken(e)' \/ FirstFetched(d, e)'
                    /\ \A d \in Members : hand'[d] = e => Overtaken(e)' \/ FirstInHand(d, e)'
  BY <1>2 DEF GroupInv
<1>3. (Overtaken(e) => Overtaken(e)') /\ (Behind(e) => Behind(e)')
  BY <1>1, EntriesArePairs DEF Overtaken, Behind
<1>4. e \in handled' => Overtaken(e)' \/ Behind(e)'
  BY <1>1, <1>3 DEF GroupInv
<1>5. ASSUME NEW d \in Members, fetched'[d] = e PROVE Overtaken(e)'
  <2>1. e \in overtaken' /\ e[2] <= e[2]
    BY <1>1, <1>5, EntriesArePairs
  <2>2. QED
    BY <2>1 DEF Overtaken
<1>6. ASSUME NEW d \in Members, hand'[d] = e, ~Overtaken(e)
      PROVE  FirstInHand(d, e)'
  <2>1. hand[d] = e
    BY <1>1, <1>6, EntriesArePairs
  <2>2. FirstInHand(d, e)
    BY <1>6, <2>1 DEF GroupInv
  <2>3. \A m \in Members \ {d} : hand'[m] # e
    BY <1>1, <2>2, EntriesArePairs DEF FirstInHand
  <2>4. QED
    BY <1>1, <1>3, <2>2, <2>3 DEF FirstInHand
<1>7. QED
  BY <1>3, <1>4, <1>5, <1>6

LEMMA TopicInvStep == TopicInv /\ [EventsNext]_allVars => TopicInv'
<1> SUFFICES ASSUME TopicInv, [EventsNext]_allVars PROVE TopicInv'
  OBVIOUS
<1>1. FeedInv'
  BY FeedInvStep, EventsStepIsFeedStep DEF TopicInv
<1>2. log' = log => EventsAreStored'
  BY RowsStay, EventsStepIsFeedStep DEF TopicInv, EventsAreStored
<1>3. UNCHANGED <<committed, owner, consumer>> => GroupInv'
  BY DEF consumer, TopicInv, GroupInv, Overtaken, Behind, FirstFetched, FirstInHand
<1>4. CASE ConsumerStep
  <2>1. log' = log
    BY <1>4 DEF ConsumerStep, FetchMessage, CommitMessages, CommitFails, Handle, Rebalance,
       broker
  <2>2. GroupTypeOK' /\ GroupInv'
    BY <1>4, FetchStep, CommitStep, HandleStep, RebalanceStep DEF ConsumerStep
  <2>3. QED
    BY <1>1, <1>2, <2>1, <2>2 DEF TopicInv
<1>5. ASSUME NEW p \in Procs, NEW i \in Partitions, Deliver(p, i)
      PROVE  TopicInv'
  BY <1>1, <1>3, <1>5, DeliverStep DEF Deliver, TopicInv
<1>6. CASE UNCHANGED <<broker, consumer>>
  <2>1. GroupTypeOK'
    BY <1>6 DEF broker, consumer, TopicInv, GroupTypeOK
  <2>2. QED
    BY <1>1, <1>2, <1>3, <1>6, <2>1 DEF broker, TopicInv
<1>7. UNCHANGED allVars => UNCHANGED <<broker, consumer>>
  BY DEF allVars, broker, consumer
<1>8. QED
  BY <1>4, <1>5, <1>6, <1>7 DEF EventsNext, FeedStep

(* Type correctness of the topic and its consumers (kafka.go).             *)
THEOREM TypeCorrect == EventsSpec => []EventsTypeOK
<1>1. EventsSpec => []TopicInv
  BY TopicInvInit, TopicInvStep, PTL DEF EventsSpec
<1>2. TopicInv => EventsTypeOK
  BY DEF TopicInv, FeedInv, GroupTypeOK, EventsTypeOK
<1>3. QED
  BY <1>1, <1>2, PTL

(* Whoever hears of a price on the topic finds it in asset_prices          *)
(* (FetchAndSave stores before it publishes).                              *)
THEOREM EventsAlwaysStored == EventsSpec => []EventsAreStored
<1>1. EventsSpec => []TopicInv
  BY TopicInvInit, TopicInvStep, PTL DEF EventsSpec
<1>2. TopicInv => EventsAreStored
  BY DEF TopicInv
<1>3. QED
  BY <1>1, <1>2, PTL

(* For any number of consumers and partitions of any length, whichever     *)
(* commits fail and however often the group is rebalanced: only messages   *)
(* from one on that a rebalance met between its fetch and its commit are   *)
(* ever handled twice (Start of kafka.go: ReadMessage fetches, commits and *)
(* only then returns to the handler).                                      *)
THEOREM TwiceOnlyAfterOvertaking == EventsSpec => []TwiceOnlyIfOvertaken
<1>1. EventsSpec => []TopicInv
  BY TopicInvInit, TopicInvStep, PTL DEF EventsSpec
<1>2. TopicInv => TwiceOnlyIfOvertaken
  BY EntriesArePairs DEF TopicInv, GroupTypeOK, GroupInv, FirstInHand, TwiceOnlyIfOvertaken
<1>3. QED
  BY <1>1, <1>2, PTL
=============================================================================
