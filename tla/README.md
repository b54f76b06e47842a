# A TLA+ model of crypto-tracker-trader

`crypto-tracker-trader` is a Go server (gin, pgx, Kafka) that collects what its
users own: balances on exchanges, positions in DeFi protocols, and the prices
to value them with. Nearly all of its state lies in PostgreSQL; HTTP requests
and three background goroutines read it, call a remote service, and write it
back in several autocommitted statements, without locks in between. That is
where its difficulties are, and what this project is about: TLA+ modules of
the components, TLC runs over small instances of them, and theorems about them
that TLAPS proves for every value of the constants.

`PROJECT.json` is the machine-readable index: components, runs, the source
lines every definition stands for, the hazards, the findings, the theorems, and
for each checked property a *mutant*, a plausible bug of the code under which
the same run refutes the property. Paths below are relative to `src/`; names of
files without a directory are those of `internal/`.

## 1. The system

| component | state | operations | module |
|---|---|---|---|
| Exchange sync: `service/exchange_service.go`, `store/exchange_store.go`, `api/exchange_handler.go` | tables `exchange_credentials`, `exchange_balances`; ticker and context of the goroutine | add and delete a credential, sync one by request, sync all in the background | `ExchangeSync`, `SyncOverlaps`, `BalanceBook` |
| Price feed: `service/price_service.go`, `store/price_store.go`, `PublishPriceEvent` of `event/kafka.go`, `api/price_handler.go` | table `asset_prices`, the price topic, ticker and context | fetch, save and publish, by the goroutine and by `POST /prices/sync` | `PriceFeed`, `PriceOverlaps` |
| CoinGecko client: `client/coingecko/client.go` | `lastRequest`, shared by every caller | `FetchPrices`: wait, request, back off, retry | `CoinGecko` |
| Wallets and DeFi sync: `service/wallet_service.go`, `service/defi_sync_service.go`, their stores and handlers | tables `user_wallets`, `user_defi_positions` | add and delete a wallet, sync its positions | `DefiSync`, `PositionBook` |
| Uniswap V3 client: `client/defi/uniswap/client.go` | none of its own; reads a chain that moves | `GetPositions` | `UniswapPositions` | 141 k | an answer is complete unless tokens both left and arrived, lists a position twice only if that one left and came back, and one that was never held open only if that one left; every call ends |
| Users: `service/user_service.go`, `store/user_store.go`, `api/handler.go` | tables `users`, `user_credentials`, `user_auth_providers` | register, log in | `Registration`, `UserDirectory` |
| Portfolio summary: `service/portfolio_aggregation_service.go` | none; reads four tables query by query | `GetSummary` | `PortfolioSummary` |
| Portfolio snapshots: `service/blockchain_data_fetcher_service.go`, `store/portfolio_store.go`, `service/portfolio_service.go` | tables `portfolio_snapshots`, `portfolio_assets` | fetch and save an ETH balance, list the history | `Snapshots` | 1.37 M | saves and histories under a process that is configured, killed and redeployed: a 200 is durable, sequential saves are in order, broken-off histories keep the newest; requests under way have a token of the present secret, tokens live as configured; only overflows panic, and sound configurations serve in the end |
| Kafka consumer: `event/kafka.go` | the broker's log, commits and assignment, the members' positions and messages | consume price events as members of a group | `PriceEvents` |
| Server: `cmd/server/main.go`, `config/config.go` | the environment, the stages of `main`, its goroutines | load, connect, start the goroutines, serve, die | `Server` |
| Authentication: `auth/jwt.go`, `api/middleware/auth.go` | the tokens that are out, the secret | issue and accept a token | `Server`, `Snapshots` |
| AES, telemetry, metrics, Redis, deployment | none that the rest depends on | | not modelled, section 7 |

How they interact:

- `cmd/server/main.go` opens the database, builds the stores, clients and
  services, and starts the goroutines of the price, exchange and DeFi services
  under one cancellable context `syncCtx`. The DeFi goroutine only logs.
- Handlers call services, services call clients and stores. What a component
  knows of another, it reads from a table: the summary reads balances,
  credentials, positions and prices, whoever wrote them last.
- The price goroutine and every manual price sync share one CoinGecko client.
- Each saved price is published to Kafka after it was saved.
- Every request but registering, logging in, `/health` and `/metrics` passes the
  middleware, which checks the token by the secret of the running process.
- A panic of any of the three goroutines ends the process, and with it every
  request and every other goroutine.
- `deployments/k8s/app.yaml` runs one replica, so there is one exchange loop
  and one price loop at a time; the models assume it.

What is hard, component by component, and what correctness means there:

- **Exchange sync.** A sync reads the credential (and so the user), calls the
  exchange, and upserts one row per asset. Meanwhile the credential may be
  deleted, its user may add another, the account changes, another sync of the
  same credential runs, a statement fails or its answer is lost, the process
  dies. Correct: a row always belongs to the credential's owner, was reported
  by that exchange account, survives no credential, and moves forward in time but
  for syncs that overlap;
  success means that everything fetched is stored; what an account holds gets
  stored in the end; cancelling ends the goroutine.
- **Price feed.** Fetching, saving and publishing are separate steps that fail
  separately and are cancelled separately. Correct: a published price is
  stored; the latest price does not step back but for fetches that overlap; prices
  catch up with the market.
- **CoinGecko client.** An unguarded time stamp shared by goroutines that sleep
  in between. Correct: requests keep their distance; fetches end.
- **Wallets and DeFi sync.** The ownership check reads a list before the
  protocols are asked and the rows written. Correct: a position is stored only
  under an existing wallet of the requester; was open when asked for; wallets
  are unique however the chain is spelled; what
  a sync has saved keeps a row.
- **Uniswap client.** `1 + 2n` calls at different blocks. Correct: the list has
  every position held throughout, none twice, and none never held.
- **Registration.** Two look-ups, then three inserts in a transaction, while
  others register. Correct: accounts are whole and unique; who was answered 201
  can log in; nobody waits for ever; a duplicate is answered as one.
- **Portfolio summary.** Six kinds of queries over moving tables. Correct: the
  numbers of one answer agree with each other, and with the tables where the
  tables stood still.

- **Kafka consumer.** A message is fetched, then its offset is committed, then it is
  handled: three steps, with rebalances and deaths between any two. Correct: a message
  is handled twice only if a rebalance came between a fetch and its commit.
- **Portfolio snapshots.** Three clocks (the chain's blocks, the process's time,
  the table's ids) are read one after the other, and a transaction may lose its
  answer. Correct: what was answered 200 is seen from then on and with its asset;
  one save after another is shown above it; a history that breaks off lacks only
  old ones.
- **Server and tokens.** Numbers of the environment are multiplied in 64 bits and
  become intervals and expiries; secrets change with processes. Correct: a sound
  configuration serves in the end, only an overflow panics, a token lives as long as
  configured, and requests under way belong to the tokens of the present secret.

## 2. Modules and their correspondence to the code

One action is one step the outside world can observe or interleave with: one
SQL statement or transaction, one remote call, one `select`. A handler's pure
code is part of the action before or after it. Every action's comment names its
function; `PROJECT.json` has the lines. Definitions named `X_Something` beside
an `X` are the mutants of `X`; nothing in the specifications uses them.

**`ExchangeSync`** `creds`, `balances` and `nextId` are the two tables and
the sequence of migration 0005, with its unique key, its foreign key and its
cascade. `sync[p]` is where process `p` stands in `SyncBalances`: `load`
(`GetCredentialByID`), `fetch` (decrypting, the factory and `GetBalances` of the
exchange), `save` (the loop of `UpsertBalances`). Processes are the request
slots and the goroutine. `loop`, `tick` and `stopped` are `StartSync`: its first
run under `syncCtx`, its `select` between `ctx.Done()` and the ticker's
channel of one, and the runs a tick starts, which get `context.Background()`.
`Restart` is the death of the process at any point, followed by a new one. A
statement may fail, or take effect without its answer (`UpsertRowUnanswered`).
An amount is abstracted to the revision of the account it was reported at.

**`BalanceBook`** is what readers of the tables may rely on: a book of rows per
credential in which rows appear only in issued credentials, one row changes at
a time, rows of a credential disappear only all together and then stay away.
`ExchangeSync` implements it (`Book == INSTANCE BalanceBook WITH ...`).

**`PriceFeed`** `latest` and `stored` are `asset_prices`. `run[p]` is where a goroutine stands in `FetchAndSave`: `fetch`, the
loop over the prices in Go's random map order (`save`), and the publication.
Processes are the loop and the goroutines that `POST /prices/sync` leaves
behind, whose context net/http cancels once the handler has returned. A price
is the revision of the market it was quoted at, and whether the answer had a
dollar price at all.

**`SyncOverlaps`** and **`PriceOverlaps`** add one history variable to `ExchangeSync`
and to `PriceFeed`: `overlapped` has the syncs (the `FetchAndSave` calls) that, since
they got the report (the answer) they are storing, met another one with a report of the
same credential (with an answer) to store. They restrict nothing, and serve to say when
a row may step back.

**`PriceEvents`** extends `PriceFeed` by the topic, so that a call of
`PublishPriceEvent` delivers its message or loses it, and by the group that reads it.
`log`, `committed` and `owner` (which member a partition is assigned to) are the
broker's; `position` is how far the owner of a partition has read, `fetched[c]` the
message member `c` has fetched and not committed, `hand[c]` the one between
`ReadMessage` and the handler. kafka-go's `ReadMessage` is two remote steps,
`FetchMessage` and `CommitMessages`, and either may fail; a commit goes out under the
generation the member is in by then, and sets the group's offset even if that moves
it back. `Rebalance` may come between any two steps, kills any members, and assigns
the partitions anew, from the committed offsets. The writer's balancer may choose any
partition. `handled` (history) has what was given to a handler, `overtaken` (history)
what was fetched and not yet committed at a rebalance.

**`CoinGecko`** `sinceOK` is the age of `lastRequest`; `call[p]` is where a
caller stands in `waitForRateLimit` and `doWithRetry`, with its attempt and
back-off; `Tick` is a second. Sleeps end
when their time is up or their context is cancelled; 429 backs off 1 s, 2 s;
only a 200 sets `lastRequest`. `overtaken` (history) has the calls that began
before the last 200.

**`DefiSync`** `wallets` and `rows` are `user_wallets` and
`user_defi_positions`, the key of the latter being wallet, protocol and
position type. `req[p]` is a sync: the ownership check of the handler, `ask`
for one protocol after another, `save` position by position. `AddWallet` and
`DeleteWallet` are the handlers, `Registrable` the service's normalisation and
validation, `InsertWallet` and `RemoveWallet` the statements under the unique key
and under the foreign key that the positions put on a wallet.

**`PositionBook`** is what readers of the two tables may rely on: an entry is a
position that was open at some address, under its own protocol and type and under the
owner of its wallet; it is only replaced by another such, and a wallet leaves only
without entries. `DefiSync` implements it, with `ever` as the chain's past.

**`UniswapPositions`** `owned` is the wallet's enumeration in the position
manager contract, `liquid` the open positions, `call` where `GetPositions`
stands. The contract is external: it is modelled as the ERC-721 enumeration the
client relies on, in which a leaving token's place is taken by the last one.
`kept`, `seen`, `came`, `left` and `returned` (histories) have the tokens that were held
open throughout, at some time, that arrived, that left, and that left and came back,
since `balanceOf` was answered, and `short` whether that answer was too short.

**`Registration`** `users`, `credentials` and `providers` are the tables,
`tx[p]` the rows an open transaction has inserted and nobody else sees,
`req[p]` where a registration stands: the look-ups by username and by email, the hashing,
`CreateUser`'s three inserts and its commit, the token. An insert that meets an
uncommitted equal username or email waits, as PostgreSQL makes it wait.
`taken` (history) has the requests whose name or email was taken at the start.

**`UserDirectory`** is registration in one step: an account appears whole under a free
name and email, stays as it is, and is there before its owner is welcomed.
`Registration` implements it: the three tables together are its accounts, a commit is
the enrolment, the 201 the welcome, and everything else cannot be seen from outside.

**`PortfolioSummary`** `status`, `qty` and `price` are the tables, and
`stage`, `held`, `todo`, `named`, `value`, `total`, `amount`, `unpriced` and
`worth` the local variables of `GetSummary`, query by query. `CredentialsFail` is the
query of the names whose error is dropped, with the rows read before the error.

**`Server`** `env` is what the process is or will be given, `proc` where `main`
stands (`connect` to the database, `dial` the node, `wire` the routes, `serve`),
`starting` the goroutines that have not made their ticker. `Number` is
`config.Load`'s reading of a number, `Wrap` and `Interval` what 64 bits and
`StartSync` make of it. `tokens` are those that were ever handed out, with the
secret they were signed with; `now` counts hours. `Kill`, `Fatal` and the panic in
`NewTicker` bring `proc` down, `Redeploy` changes the environment in between.

**`Snapshots`** extends `Server`: requests with an accepted token (`Admit`) make
saves and histories. `req[p]` is where one stands: `header` and `balance` (the
calls to the node), `snapshot`, `asset` and `commit` (`AddSnapshot`), `history`;
`snapshots` and `assets` are the committed rows, `nextId` the sequence. `Effect`
ties the two: when the process goes down, every request under way is gone. A
balance is the block it was read at. `saved`, and in every save `after`, are
histories: what was answered 200, and what of it when the save began.

**`MCExchangeSync`**, **`MCDefiSync`**, **`MCUniswapPositions`** and
**`MCSnapshots`** give their modules' constants values on small instances.
The modules named `...Proofs`, one for each of `ExchangeSync`, `PriceEvents` (with
`PriceFeed`), `CoinGecko`, `DefiSync`, `UniswapPositions`, `Registration`,
`PortfolioSummary` and `Snapshots` (with `Server`), hold the theorems.

### What the models abstract

- Amounts, prices and positions: revisions or small numbers, as said above. That
  a zero amount is skipped is kept; that the exchange spells zero
  `0.00000000` (what `client.go:107` compares with) is assumed.
- Ids come from sequences and are never reused; the gaps that rejected inserts
  leave are left out, as are different hexadecimal spellings of one address.
- The newest row of a table is the one of the last statement: `NOW()` does not
  go backwards.
- A statement in flight when its process dies or its context is cancelled
  commits before the next process's first statement, or never.
- The read of `lastRequest` is one step. A read torn by a concurrent write shows
  the old value, the new one, or for the first write a time long ago, which
  waits no less than the old value does.
- Symbols in `PriceFeed` are those CoinGecko knows. `HasKafka` is
  configurable, and on by default.
- A password stands for its hash. A failed registration's rollback precedes its
  answer.
- `user_assets` and `user_nfts` are read by the server, but written by nothing in it
  (`scripts/seed-postgres.sql` fills `user_assets` by hand, `store/user_store_test.go`
  drops both); the summary leaves them out, and so the sources that are wallets. The second protocol in the instances of `DefiSync`
  exercises the list `s.protocols`; the server registers only Uniswap V3.
- A token stands for its claims and the secret it was signed with; parsing
  headers, signing and comparing are the library's. The clock of the model ticks
  hours, which is the unit of `JWT_EXPIRY_HOURS`.
- A save's amounts (`big.Float` with its 10 digits of `String()`) are abstracted to
  the block; an address that is not hexadecimal is refused before anything happens.
- Redis, Kafka and telemetry only warn when they cannot be reached, and have no
  step in `Server`. Retries inside the Kafka writer are one message.
- The components other than `Snapshots` have their own `Restart` in place of
  `Server`'s stages, and take the authenticated user as given.
- `main` ends in `log.Fatalf`, so its deferred `stopSync` does not run when the
  server fails. `Stop` models the cancellation `StartSync` is written for, and
  `Restart` the death of the process.

## 3. Runs

A run marked *refutes* states what a doc, comment, assertion or test of the
repository says, and TLC shows the code doing otherwise (section 4).

| run | states | what it shows |
|---|---|---|
| `ExchangeSyncSafety` | 731 k | rows belong to the credential's owner, were reported, never outlive the credential; a row steps back to an older report only by a sync that met another of the same credential; no exchange twice; a nil answer means everything is stored; the tables implement `BalanceBook` |
| `ExchangeSyncLoop` | 11 k | the goroutine alone, across failures and restarts: what an account holds gets stored and stays, although another credential of the run fails every time; cancelling ends the goroutine |
| `ExchangeSyncSold` | | *refutes* that balances are at most an interval old |
| `PriceFeedSafety` | 777 k | the goroutine and two consumers of a group: a published price is stored; a message is handled twice only if a rebalance came between a fetch and its commit, and then from the entry fetched on |
| `PriceFeedLoop` | 44 k | the goroutine beside a manual sync: the latest price steps back only by a fetch that met another one, and keeps catching up with the market; cancelling ends the goroutine |
| `PriceFeedAccepted` | | *refutes* that an accepted sync is carried out |
| `CoinGecko` | 5 k | two callers keep the distance from successful requests; every fetch ends |
| `DefiSyncSafety` | 1.0 M | whose wallet a position is in, that wallets are unique, that what a running sync saved keeps a row; the tables implement `PositionBook` |
| `UniswapPositions` | 125 k | an answer is complete unless tokens both left and arrived, has nothing twice under the same condition, and lists only what was held open unless tokens left; every call ends |
| `Registration` | 86 k | unique accounts, which implement `UserDirectory` and so appear whole; accepted users can log in; a name that was taken before is told by the look-ups; every registration is answered |
| `PortfolioSummaryMoving` | 965 k | what one summary promises over moving tables |
| `Snapshots` | 423 k | saves and histories under a process that is configured, killed and redeployed: a 200 is durable, sequential saves are in order, broken-off histories keep the newest; requests under way have a token of the present secret, tokens live as configured; only overflows panic, and sound configurations serve in the end |

Each module has one type invariant; like the inductive invariants it is proved
(section 5), so that the runs spend their time on the properties.

### Bounds, and why they are enough

Every bound is a constant in a guard: `MaxCreds`, `MaxRev`, `MaxQuote`,
`MaxWallets`, `MaxMoves`, `MaxUsers`, `MaxQty`, `MaxPrice`, `MaxEntries`,
`MaxTokens`, `MaxNow`, `MaxIds`, `MaxBlock`.

- *Exchange sync*: two users, two ids and one exchange spelled two ways is what
  it takes to delete a credential under a running sync and to have another user,
  or the same one, add the next. Two assets make a report that can break off
  half way, two revisions an old and a new report. One request beside the loop is
  two syncs of one credential; the theorems lift the safety properties to any
  number. The users are interchangeable (`SYMMETRY`; the run has no liveness). The loop's run has one asset and two credentials, one of an exchange
  that no client exists for, so that a run always has a failing neighbour.
- *Price feed*: one symbol, in which `PricesCatchUp` and both safety properties are
  stated; one manual sync beside the loop, which is what it takes to overlap; two
  market states. The theorems cover any number of symbols and manual syncs.
- *CoinGecko*: two callers, one of which overtakes the other's sleep or
  back-off; the theorems cover any number. `MinInterval` and `MaxAttempts` are the
  code's 2 seconds and 3 attempts.
- *DeFi sync*: two users and two wallets for the deletion under a running sync,
  two syncs, three positions of which two share a key.
- *Uniswap*: three positions, a fourth that may arrive, three moves: enough for
  one to leave, one to arrive and the swap to reach an index already read.
- *Registration*: two concurrent requests over two names, emails and passwords,
  three ids so that a lost one is followed by another. The theorems cover any
  number of requests; that chains of more than two waits end is not shown.
- *Summary*: two credentials and two symbols, prices up to 2, so that a symbol
  can be worth two different things.

- *Price events*: one partition is where duplicates come from; two members let one
  hold what the other has been assigned, two entries let a late commit take the group
  back behind what another has handled. The feed is the goroutine alone, with one
  symbol of which there are two prices (with and without dollars); the theorems cover
  any number of partitions, members, symbols and manual syncs.
- *Snapshots and server*: integers of 21 bits with 10 units a second, so that 104857
  seconds and 29 hours fit and one more of each does not, exactly as 64 bits and
  nanoseconds behave at their own boundary. Of the five environments one needs the
  defaults (its price interval overflows and is replaced), one has 29 hours and three
  intervals of 104857 seconds and must work, in one only the exchange interval is too
  long, in one only the DeFi interval, with 30 hours, and one is
  without its secret. Two requests for two concurrent saves, two ids so that one
  save follows another. The theorems cover any width and any environments.

`CHECK_DEADLOCK FALSE` is set only in the summary's run: the model makes one
summary and stops.

### Fairness, and what justifies it

`Spec` has none; the liveness runs use `FairSpec` (`FairOverlapSpec`).

- A call of a goroutine or a request returns, with an answer or an error, since
  HTTP clients and pgx end their calls: weak fairness on each process's steps.
- Ticks keep coming: weak fairness on the ticker.
- Go's `select` chooses at random among ready cases: strong fairness on the case
  of `ctx.Done()`, which otherwise a waiting tick might beat every time. Nothing
  needs it of the ticks.
- No call fails *every* time it is tried, and the process does not die in front
  of the same call every time: strong fairness on each successful call of the
  loop. What should succeed "eventually" could not otherwise be said; a
  credential that fails always, of an unsupported exchange, is exempt.
- PostgreSQL serves the queue of a lock in order: strong fairness on the progress
  of a registration, which is enabled and disabled by the locks of others.
- `main` goes on from one stage to the next: weak fairness on the loading, the
  connections and the serving. `ServesInTheEnd` supposes that the killing, the refused
  connections and the redeployments end.
- Nothing is fair about users, accounts, markets, cancellations or restarts.

## 4. Findings

Statements of the docs and comments that the code does not keep;
`PROJECT.json` quotes them. The first two are refuted by a run each.

| run | what the code does |
|---|---|
| `ExchangeSyncSold` | the row of an asset that was sold is never touched again (`store/exchange_store.go:164`, `client/exchange/binance/client.go:107`) |
| `PriceFeedAccepted` | a manual sync runs under a context that is cancelled once 202 is sent (`api/price_handler.go:72`) |
| | positions of one protocol and type overwrite each other (`store/defi_store.go:48`); hence `SavedKeysAreKept` speaks of rows under a key |

The models have further behaviours that a reader of the comments may not
expect. No run is about them; the checked properties are stated so as to hold
beside them, and name the condition:

- Of two concurrent syncs of a credential, the one that fetched first may write
  last (`store/exchange_store.go:166`); and likewise of two price syncs; hence
  `RowsRegressOnlyByOverlap` and `LatestRegressesOnlyByOverlap`.
- A run that a tick starts gets `context.Background()` and does not see the
  cancellation (`service/exchange_service.go:180`); `StopEndsLoop` lets it finish.
- A missing credential is answered 500: the stores wrap `pgx.ErrNoRows`, so that
  `err == store.ErrNotFound` is never true (`api/exchange_handler.go:79`).
- A failed request does not delay the next one (`client/coingecko/client.go:109`);
  hence `SpacedFromSuccess`.
- An answer without a dollar price is stored as the price 0
  (`client/coingecko/client.go:128`); hence `usd` in `PricesCatchUp`.
- A wallet with positions cannot be deleted, and nothing deletes positions
  (`store/wallet_store.go:121`).
- Positions of any address given with the request are stored as the wallet's
  (`api/defi_handler.go:36`); hence `PositionBook` records the address asked for.
- A position held throughout is missed when another leaves and a third arrives
  (`client/defi/uniswap/client.go:79`); hence the conditions on `came` and `left`.
- The loser of a race for a name meets the constraint and is answered 500, not 409
  (`service/user_service.go:53`); hence `TakenIsToldByLookups` is about names
  taken beforehand.
- Total and breakdown of a summary are valued with separate reads of the prices
  (`service/portfolio_aggregation_service.go:149`); hence
  `BreakdownAddsUpAtSteadyPrices`.

- A history whose connection breaks is answered 200 with what had come: `rows.Err()`
  is not asked (`store/portfolio_store.go:114`); hence `HistoriesKeepNewest`. It is
  of all users' snapshots: no statement uses the `user_id` of migration 0007.
- A message's offset is committed before it is handled, so that a handler that fails
  or dies loses it, and the commit comes after the fetch, so that a rebalance between the
  two makes it be handled twice, perhaps with those after it (`event/kafka.go:84`), the writer asks for no acknowledgement
  (`event/kafka.go:29`), and the balancer ignores the key (`event/kafka.go:32`); hence
  `TwiceOnlyIfOvertaken`, and no property of order.
- An exchange or DeFi interval of more than 9223372036 seconds, which wraps, panics in
  the goroutine, and again in every process with that environment
  (`cmd/server/main.go:122`); hence `IntervalsFit` in `ServesInTheEnd`.
- An expiry of more than 2562047 hours may make tokens that have expired already
  (`auth/jwt.go:25`); hence `Fits` in `TokensLiveAsConfigured`.
- Listing the assets of a wallet that does not exist is answered 500, not 404
  (`service/wallet_service.go:87`). It changes nothing and is not modelled.

## 5. What is proved

For every value of the constants that meets the `ASSUME`s of the modules (bounds
are natural numbers, normalisation is idempotent, sentinels are not rows, the
credentials of a user are finitely many), and so for any number of users, requests,
assets, wallets and protocols:

- **`ExchangeSyncProofs`**: `TypeCorrect`, `IInvHolds`,
  `RowsAlwaysBelongToOwner`, `RowsAlwaysReported`, `ExchangesStayUnique`,
  `AnswersStayHonest`, `RowsStepBackOnlyByOverlap`, and
  `BookImplemented`: every behaviour of the tables is one of `BalanceBook`.
- **`DefiSyncProofs`**: `TypeCorrect`, `IInvHolds`, `WalletsStayUnique`,
  `PositionsAlwaysBelong`, `PositionsAlwaysWereOpen`, `SavedKeysStay`, and
  `BookImplemented`: the tables are a `PositionBook`.
- **`RegistrationProofs`**: `TypeCorrect`, `IInvHolds`, `AccountsStayWhole`,
  `UsersStayUnique`, `AcceptedAlwaysLogIn`, `TakenAlwaysTold`, and
  `DirectoryImplemented`: the tables are a `UserDirectory`.
- **`CoinGeckoProofs`**: `TypeCorrect`, `WaitsStayLongEnough`,
  `RequestsStaySpaced`.
- **`PriceEventsProofs`**: `FeedTypeCorrect`, `LatestStepsBackOnlyByOverlap`,
  `EventsAlwaysStored`, `TypeCorrect`, `TwiceOnlyAfterOvertaking`.
- **`UniswapPositionsProofs`**: `TypeCorrect`, `IInvHolds`, `AnswersStayComplete`,
  `ListedOnce`, `ListedStayHeld`.
- **`PortfolioSummaryProofs`**: `TypeCorrect`, `IInvHolds`, `UnknownAlwaysGone`,
  `BreakdownAlwaysAddsUp`, `QuietSummaryAlwaysExact`.
- **`SnapshotsProofs`**: `TypeCorrect`, `IInvHolds`, `SavesStayDurable`,
  `SavesStayInOrder`, `HistoriesStayNewest`, `ServedWereAdmitted`,
  `TokensStayAsConfigured`, `PanicsOnlyByOverflow`.

The argument is the same for `ExchangeSync` and `DefiSync`. `RowsBelongToOwner` is not inductive:
the row a sync is about to write carries a user it read two remote calls ago. It
holds because *what a sync under way knows is true, or its credential is gone
for good*, and that in turn because ids are never given out again
(`IdsNeverReused`): a deleted credential's foreign key then refuses the write
for ever. `SyncsAreTruthful` says this, with the asset-by-asset bookkeeping
that `SyncAnswersHonestly` needs; `StoredNamesAreUnique` carries the uniqueness
through the spelling. `DefiSync` has the same with wallets, and `OpenWasOpened`
for the positions that were handed over.

`RowsStepBackOnlyByOverlap` and `LatestStepsBackOnlyByOverlap` hold for any number of
requests and manual syncs. What they add to the invariant is that what a process is about
to store, if it met no other, is at least as new as every row it may replace
(`LoneReportsAreNewest`, `LoneAnswersAreNewest`). It is so when it is fetched, because no
row is ahead of the account or the market, and stays so, because whoever else stores a
row of the same credential (or any price) meets it; a restart loses it together with what
it was about.

In `Registration` the uniqueness of what is committed rests on what is not yet
committed: `TransactionsAreApart` says that no open transaction holds a name or
an email of another, or of a committed user, which is what the waiting inserts
enforce, and `TransactionMatches` that a transaction holds exactly what its
request's stage has inserted, so that its commit makes an account whole. With
these two a commit is an `Enrol` of `UserDirectory`.

In `CoinGecko` a call decides how long to sleep from a `lastRequest` that may be
old when it wakes. `WaitsAreLongEnough` is the invariant that carries the
decision over: unless a 200 came in between, the age of `lastRequest` and what is
left of the sleep make up the interval; a cancelled wait sends nothing.

In `PriceEvents` an entry that no rebalance overtook, itself or an earlier one of its
partition, is either fetched, and then the last its partition's owner went past, or it
was committed, and then neither the commits nor the reading of the group ever fall behind
it again (`GroupInv`); a handler's entry is committed, so that it is not fetched once
more. `EventsAreStored` is not inductive: a goroutine about to publish must have stored
what it publishes (`PublishesStored`), and no row disappears (`RowsStay`).

`UniswapPositions` has a loop invariant, which says what the list knows by what
happened since `balanceOf`. While nothing left, what was read is still held, and what is
kept is read or lies at an index ahead. Once something left and nothing came, the
wallet is shorter than the count the loop runs to: the last index will revert unless it
has been read, and then everything kept is read too. Only after both may a token
have moved to an index that was read, and `AnswersAreComplete` names this case. A
departure moves tokens only towards what was read, so that nothing read is ahead unless
it returned, and what is listed without having been held open is what left before its
`positions` was read; the other two properties exempt only the very token.

In `Snapshots`, `SequentialSavesAreInOrder` is about rows that are in the table; the
invariant says of every save under way, stage by stage, that what it has read is no
older than the saves that were answered before it came, and that no row is ahead of
clock, chain or sequence (`RowsArePast`). Tokens carry their expiry as issued
(`TokensAreDated`), from which `Fits` gives the arithmetic.

Each proof has the initial condition, one lemma per group of actions under `IInv`
and `[Next]_vars`, and a final temporal step; the properties follow from `IInv`
or, for the action properties and the refinement, from `IInv` and one step.

`PortfolioSummary` is about sums over all credentials and symbols, which the model takes
with the community modules' folds. What a fold computes needs induction over finite
sets. The library has it as an order on subsets without infinite descent, a fact about
sets and not about operators: `SubsetInduction` makes a principle of it, by which the
fold is shown to exist and to be unique (`SumExists`, `SumUnique`), not to depend on the
order in which the elements are picked (`SumTakeOut`), and to change as one summand
does (`SumChange`). On these rests the loop's invariant `Accounts`, which says of the
half-done loops what is in the books so far: the total is the sum of the values of the
credentials that have no row left, a symbol's amount the sum of its rows that were
counted, and at steady prices the credentials' values add up both to the rows valued so
far and to what the symbols' amounts are worth. `StillCurrent` adds that at steady prices
a symbol is priced at the price there is, and that as long as nothing moved the balances
read are those in the table.

Model-checked only: all liveness, since fairness and `ENABLED` are beyond the prover.

## 6. Plan

What could come next, in this order:

1. `UniswapCodec`: the decoding of ABI words (signed ticks, padding, lengths) against
   its definition over the integers.
2. The step from `Snapshots` to an abstract ledger of saves, as the three books are.
3. A stronger `PositionBook`, in which closed positions disappear, once the code removes
   them.

## 7. Not modelled, and why

- `crypto/aes.go`: a pure function around a library; its failure is a failed step
  of a sync.
- `cache/redis.go`: connected by `main`, used by nobody.
- `telemetry`, `metrics`: observe only.
- Read-only handlers (`GetTradeHistory`, listings, price queries, the assets of a
  wallet) change no state.
- The encoding and decoding of single ABI words in the Uniswap client, and the decimal
  formatting of amounts: pure functions of one value.
- `deployments`, `scripts`: infrastructure and test scripts; the constraints of the
  migrations are in the modules of their tables.
