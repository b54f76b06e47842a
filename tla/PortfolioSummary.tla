--------------------------- MODULE PortfolioSummary ---------------------------
(***************************************************************************)
(* One GET /portfolio/summary (or /allocation) while the syncs go on:      *)
(*   internal/service/portfolio_aggregation_service.go,                    *)
(*   internal/api/portfolio_summary_handler.go, and the queries it makes   *)
(*   in internal/store/exchange_store.go and price_store.go.               *)
(*                                                                         *)
(* GetSummary makes one query after another, each of them autocommitted:   *)
(* balances, credentials, a price per balance, positions, and once more a  *)
(* price per symbol.  Between any two of them the tables change.           *)
(*                                                                         *)
(* Data.  Amounts are whole numbers and free and locked are one amount;    *)
(* the rounding of big.Float and of the eight decimals is left out.  Wal-  *)
(* lets have no assets (nothing writes user_assets) and DeFi positions are *)
(* listed without a value, so that the total is what exchanges hold.       *)
(***************************************************************************)
EXTENDS Naturals, FiniteSets, Functions

CONSTANTS
  Credentials, \* the ids of the user's exchange credentials
  MaxSymbol,   \* symbols are numbered in the order of ORDER BY symbol
  MaxQty,      \* bound on amounts
  MaxPrice     \* bound on prices

Symbols == 1..MaxSymbol
Rows    == Credentials \X Symbols

ASSUME SummaryAssumption ==
  /\ Credentials \subseteq Nat /\ IsFiniteSet(Credentials)
  /\ {MaxSymbol, MaxQty, MaxPrice} \subseteq Nat

VARIABLES
  status,   \* exchange_credentials: each id is "fresh", "live" or "gone"
  qty,      \* exchange_balances: <<credential, symbol>> -> amount, 0 for no row
  price,    \* asset_prices: symbol -> newest price, 0 for none
  stage,    \* which query GetSummary makes next
  held,     \* exBalances: as qty
  todo,     \* the rows of held not yet valued
  named,    \* the keys of credExchangeMap
  value,    \* credential -> credValue
  total,    \* exchangeUSD
  amount,   \* symbolQty
  unpriced, \* the symbols not yet in symbolPositions
  worth,    \* symbol -> its ValueUSD
  changes   \* history: what changed, or failed to be read, since the start

database == <<status, qty, price>>
summary  == <<stage, held, todo, named, value, total, amount, unpriced, worth>>
vars     == <<database, summary, changes>>

Stages == {"idle", "balances", "credentials", "value", "symbols", "done", "failed"}
Changes == {"price", "rows", "names"}
None   == [r \in Rows |-> 0]

Init ==
  /\ status = [c \in Credentials |-> "fresh"]
  /\ qty = None
  /\ price = [s \in Symbols |-> 0]
  /\ stage = "idle"
  /\ held = None
  /\ todo = {}
  /\ named = {}
  /\ value = [c \in Credentials |-> 0]
  /\ total = 0
  /\ amount = [s \in Symbols |-> 0]
  /\ unpriced = {}
  /\ worth = [s \in Symbols |-> 0]
  /\ changes = {}

-----------------------------------------------------------------------------
(* What goes on in the tables meanwhile.                                   *)
AddCredential(c) ==
  /\ status[c] = "fresh"
  /\ status' = [status EXCEPT ![c] = "live"]
  /\ changes' = changes \cup {"rows"}
  /\ UNCHANGED <<qty, price, summary>>

(* The balances go with their credential.                                  *)
DeleteCredential(c) ==
  /\ status[c] = "live"
  /\ status' = [status EXCEPT ![c] = "gone"]
  /\ qty' = [r \in Rows |-> IF r[1] = c THEN 0 ELSE qty[r]]
  /\ changes' = changes \cup {"rows"}
  /\ UNCHANGED <<price, summary>>

UpsertBalance(r, q) ==
  /\ status[r[1]] = "live"
  /\ qty' = [qty EXCEPT ![r] = q]
  /\ changes' = changes \cup {"rows"}
  /\ UNCHANGED <<status, price, summary>>

SavePrice(s, x) ==
  /\ price[s] # x
  /\ price' = [price EXCEPT ![s] = x]
  /\ changes' = changes \cup {"price"}
  /\ UNCHANGED <<status, qty, summary>>

-----------------------------------------------------------------------------
(* GetSummary.                                                             *)
BeginSummary ==
  /\ stage = "idle"
  /\ stage' = "balances"
  /\ changes' = {}
  /\ UNCHANGED <<database, held, todo, named, value, total, amount, unpriced, worth>>

(* The user's wallets have been listed; GetBalancesByUserID.               *)
ReadBalances ==
  /\ stage = "balances"
  /\ stage' = "credentials"
  /\ held' = qty
  /\ todo' = {r \in Rows : qty[r] > 0}
  /\ UNCHANGED <<database, named, value, total, amount, unpriced, worth, changes>>

(* Mutant: only the newest credential is listed.                           *)
ReadCredentials_NewestOnly ==
  /\ stage = "credentials"
  /\ stage' = "value"
  /\ named' = {c \in Credentials : status[c] = "live" /\
                 \A d \in Credentials : status[d] = "live" => d <= c}
  /\ UNCHANGED <<database, held, todo, value, total, amount, unpriced, worth, changes>>

(* GetCredentialsByUserID.                                                 *)
ReadCredentials ==
  /\ stage = "credentials"
  /\ stage' = "value"
  /\ named' = {c \in Credentials : status[c] = "live"}
  /\ UNCHANGED <<database, held, todo, value, total, amount, unpriced, worth, changes>>

(* ... whose error is ignored.  Rows read before it are returned with it;  *)
(* the names of the others are "unknown" then.                             *)
CredentialsFail(read) ==
  /\ stage = "credentials"
  /\ stage' = "value"
  /\ read \subseteq {c \in Credentials : status[c] = "live"}
  /\ named' = read
  /\ changes' = changes \cup {"names"}
  /\ UNCHANGED <<database, held, todo, value, total, amount, unpriced, worth>>

(* Credentials come in any order, but all rows of one before the next; the *)
(* rows of one in the order of their symbols.                              *)
Begun(c) == \E s \in Symbols : held[<<c, s>>] > 0 /\ <<c, s>> \notin todo

IsNext(r) ==
  /\ r \in todo
  /\ \A q \in todo : q[1] = r[1] => r[2] <= q[2]
  /\ \A q \in todo : Begun(q[1]) => q[1] = r[1]

(* getPrice: the newest price, or 0 if the query fails or finds none.      *)
GetPrice(s, x) ==
  \/ x = price[s] /\ UNCHANGED changes
  \/ x = 0 /\ changes' = changes \cup {"price"}

(* Mutant: a symbol's amount is set rather than accumulated.               *)
ValueRow_Overwrites(r, x) ==
  /\ stage = "value"
  /\ IsNext(r)
  /\ GetPrice(r[2], x)
  /\ amount' = [amount EXCEPT ![r[2]] = held[r]]
  /\ value' = [value EXCEPT ![r[1]] = @ + held[r] * x]
  /\ todo' = todo \ {r}
  /\ total' = IF \E q \in todo' : q[1] = r[1] THEN total ELSE total + value'[r[1]]
  /\ UNCHANGED <<database, stage, held, named, unpriced, worth>>

(* Mutant: the running value of the credential is added for every row.     *)
ValueRow_AddsEveryTime(r, x) ==
  /\ stage = "value"
  /\ IsNext(r)
  /\ GetPrice(r[2], x)
  /\ amount' = [amount EXCEPT ![r[2]] = @ + held[r]]
  /\ value' = [value EXCEPT ![r[1]] = @ + held[r] * x]
  /\ todo' = todo \ {r}
  /\ total' = total + value'[r[1]]
  /\ UNCHANGED <<database, stage, held, named, unpriced, worth>>

(* One balance; after the last one of a credential its value is added.     *)
ValueRow(r, x) ==
  /\ stage = "value"
  /\ IsNext(r)
  /\ GetPrice(r[2], x)
  /\ amount' = [amount EXCEPT ![r[2]] = @ + held[r]]
  /\ value' = [value EXCEPT ![r[1]] = @ + held[r] * x]
  /\ todo' = todo \ {r}
  /\ total' = IF \E q \in todo' : q[1] = r[1] THEN total ELSE total + value'[r[1]]
  /\ UNCHANGED <<database, stage, held, named, unpriced, worth>>

(* GetPositionsByUserID answers.                                           *)
ReadPositions ==
  /\ stage = "value"
  /\ todo = {}
  /\ stage' = "symbols"
  /\ unpriced' = {s \in Symbols : amount[s] > 0}
  /\ UNCHANGED <<database, held, todo, named, value, total, amount, worth, changes>>

(* One symbol of symbolQty, in any order, with a price of its own.         *)
ValueSymbol(s, x) ==
  /\ stage = "symbols"
  /\ s \in unpriced
  /\ GetPrice(s, x)
  /\ worth' = [worth EXCEPT ![s] = amount[s] * x]
  /\ unpriced' = unpriced \ {s}
  /\ UNCHANGED <<database, stage, held, todo, named, value, total, amount>>

EndSummary ==
  /\ stage = "symbols"
  /\ unpriced = {}
  /\ stage' = "done"
  /\ UNCHANGED <<database, held, todo, named, value, total, amount, unpriced, worth, changes>>

(* The queries for wallets, balances and positions end the request with an *)
(* error.                                                                  *)
FailSummary ==
  /\ stage = "balances" \/ (stage = "value" /\ todo = {})
  /\ stage' = "failed"
  /\ UNCHANGED <<database, held, todo, named, value, total, amount, unpriced, worth, changes>>

-----------------------------------------------------------------------------
Prices == 0..MaxPrice

Next ==
  \/ \E c \in Credentials : AddCredential(c) \/ DeleteCredential(c)
  \/ \E r \in Rows, q \in 1..MaxQty : UpsertBalance(r, q)
  \/ \E s \in Symbols, x \in 1..MaxPrice : SavePrice(s, x)
  \/ BeginSummary \/ ReadBalances \/ ReadCredentials
  \/ \E read \in SUBSET Credentials : CredentialsFail(read)
  \/ \E r \in Rows, x \in Prices : ValueRow(r, x)
  \/ ReadPositions
  \/ \E s \in Symbols, x \in Prices : ValueSymbol(s, x)
  \/ EndSummary \/ FailSummary

Spec == Init /\ [][Next]_vars

-----------------------------------------------------------------------------
(* Every variable holds values of its kind; what is still to be valued was *)
(* held.                                                                   *)
TypeOK ==
  /\ status \in [Credentials -> {"fresh", "live", "gone"}]
  /\ qty \in [Rows -> 0..MaxQty]
  /\ price \in [Symbols -> Prices]
  /\ stage \in Stages
  /\ held \in [Rows -> 0..MaxQty]
  /\ todo \subseteq {r \in Rows : held[r] > 0}
  /\ named \subseteq Credentials
  /\ value \in [Credentials -> Nat]
  /\ total \in Nat
  /\ amount \in [Symbols -> Nat]
  /\ unpriced \subseteq Symbols
  /\ worth \in [Symbols -> Nat]
  /\ changes \subseteq Changes

(* The answer's by_symbol is a breakdown of its total_usd, each valued by  *)
(* queries of their own: their values add up to it as long as no price     *)
(* changes or fails to be read meanwhile, whatever happens to balances and *)
(* credentials.                                                            *)
BreakdownAddsUpAtSteadyPrices ==
  stage = "done" /\ "price" \notin changes => SumFunction(worth) = total

(* A summary during which nothing moves and nothing fails is exact: every  *)
(* balance counts once in the total, in its symbol and in its source.      *)
QuietSummaryIsExact ==
  stage = "done" /\ changes = {} =>
    /\ total = SumFunction([r \in Rows |-> qty[r] * price[r[2]]])
    /\ \A s \in Symbols :
         worth[s] = SumFunction([c \in Credentials |-> qty[<<c, s>>]]) * price[s]
    /\ \A c \in Credentials :
         value[c] = SumFunction([s \in Symbols |-> qty[<<c, s>>] * price[s]])

(* A source is only called "unknown" if its credential has been deleted    *)
(* since the balances were read, or the credentials could not be read.     *)
UnknownIsGone ==
  stage = "done" /\ "names" \notin changes =>
    \A c \in Credentials : value[c] > 0 /\ c \notin named => status[c] = "gone"
===============================================================================
