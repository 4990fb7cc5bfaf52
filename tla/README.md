# PolyStrikeEngine in TLA+

TLA+ modules, TLC configurations and TLAPS proofs for PolyStrikeEngine, a bot
that trades 5-minute binary BTC markets on Polymarket against the Binance
price. Paths are relative to the repository (`engine.rs` is `src/src/engine.rs`).

    tlc -workers 2 -config EngineCalm.cfg MCSniperEngine     # one run
    tlapm SniperEngineProofs.tla                             # one proof module

## 1. The system

One process holds a registry of *engines*, one for each market that is traded.
All engines share the risk state, the ledger, the exchange client and the
price of Bitcoin.

| Component | Source | State | Operations |
|---|---|---|---|
| Engine loop | `engine.rs` 157-464 | position state, time of the last failed order, channel `fill_rx` | select! over fill reports, cancellation, sleep (watchdog), two books, the BTC price |
| Decision | `engine.rs` 480-726 | none of its own | `evaluate_and_act`: buy when Empty, sell when Holding |
| Order task | `engine.rs` 750-987 | its reservation and slots | `try_fire`: reserve, read the position, post, wait, read again, book, report, release |
| RiskGuard | `risk/guard.rs` | spend, breaker, BUY counter, per-market set | reserve, release and refund; breaker; exposure; slots |
| InventoryManager | `risk/inventory.rs` | quantities and P&L per token | `apply_fill`, reads |
| StrategyRegistry | `api/strategy_registry.rs` | market key -> cancellation token | try_register, cancel, cancel_all, deregister |
| HTTP API | `api/server.rs` | none | start and stop a strategy, start an event, queries |
| Autopilot, shutdown | `main.rs` | current slug | 10 s poll, rotation to a new event; heartbeat; SIGINT and SIGTERM |
| PolyClient | `execution/poly_client.rs` | semaphore of 8 | post an order, cancel by token, read a position, 429 back-off |
| Binance stream | `oracle/binance_ws.rs` | failures in a row, latest quote in a watch channel | connect, reconnect, give up, quote |
| Polymarket streams | `oracle/*.rs` | latest book in a watch channel | the same for a token |
| Discovery | `discovery/*.rs` | none | slug of the current event, its markets, tokens and strikes |
| Price cache | `models/btc_price.rs`, `main.rs` | 15 minutes of prices by the second | file and prune, nearest price to a time, warm-up |
| Pricing | `strategy/sniper.rs`, parts of `engine.rs` | none | Black-Scholes value of a binary call, edges, iceberg chunks |

How they interact:

- An engine *spawns* `try_fire` and forgets it. The task outlives its engine;
  its only link to it is `fill_tx`, a channel that is gone when the engine is.
- Tasks and engines of all markets call RiskGuard and InventoryManager from
  different threads. Every method is atomic (a lock or an atomic operation), a
  sequence of them is not.
- Tasks of all markets and the engines' position reads and cancellations wait
  in one semaphore; a task that gives up drops its requests where they are.
- A handler, a radar or the autopilot registers a key and spawns an engine; the
  engine's guard deregisters the key when it ends, whoever owns it by then.
- Engines, the heartbeat and radars write one price cache; radars read it for
  the strike of a market that states none.
- The exchange remembers what the process does not: open orders and positions.

What is hard: a task whose order is late, given up or partly filled; the
watchdog acting on a task that still runs; engines that stop while their tasks
go on; a budget that is reserved, refunded and recycled by many tasks at once;
a breaker fed by engines that read the P&L token by token; permits that are
handed over, backed off with and dropped; registrations that race rotations and
the shutdown; old quotes filed under new times. `PROJECT.json` lists each hazard
at its line with the properties that cover it, or why none does.

What makes each part correct:

- *Slots*: never more than `MAX_CONCURRENT_BUYS` buys, one per market, and each
  slot comes back, once.
- *Budget*: reservations stay within `MAX_BUDGET`, cover the money that is out,
  and come back.
- *Breaker*: never frozen too early, few orders behind a freeze, and what a stale
  total decided is put right by the next update that is not stale.
- *Position state*: a pending state is always going to be resolved; what an
  engine holds is there to be sold; ledger and account agree when all is quiet.
- *Clocks*: the watchdog spares what runs and reaches what is stuck.
- *Lifecycle*: a registered key is a live engine, one engine per market, one
  event at a time, and who is told to stop ends.
- *Client*: permits are conserved, an order is accepted at most once.
- *Prices*: what is cached was quoted, and a strike is of the time it stands for.

## 2. Modules

| Module | Models | Abstract of / composes |
|---|---|---|
| `SlotPool` | what the BUY slots promise | abstract specification |
| `BuySlots` | the slots, one atomic operation per step | implements `SlotPool` |
| `RiskGuard` | the guard's methods as operators on its variables | used by `SniperEngine` |
| `Inventory` | `apply_fill` and the reads | used by `SniperEngine` |
| `Exchange` | the account: open orders, positions, money (external) | used by `SniperEngine` |
| `SniperEngine` | engines, decision, order tasks | composes the three above, implements `SlotPool` |
| `StrategyLifecycle` | registry, handlers, radars, autopilot, shutdown, ends of engines | |
| `OneShot` | what `execute_snipe_order` promises a task | abstract specification |
| `PolyClient` | semaphore, 429 retries, timeouts | implements `OneShot` |
| `OrderTiming` | the clocks of an engine and its tasks | the timed view of `SniperEngine` |
| `CircuitBreaker` | the breaker, its feeding and its asking | the fine-grained view of `SniperEngine` |
| `MarketData` | Binance stream, price cache, strikes | |
| `Pricing` | the arithmetic of a decision | pure operators |
| `Sums` | what holds of a sum over a finite set (lemmas) | used by the proofs |
| `BuySlotsProofs`, `SniperEngineProofs`, `StrategyLifecycleProofs`, `PolyClientProofs`, `OrderTimingProofs`, `CircuitBreakerProofs`, `MarketDataProofs` | the theorems | |
| `MC*` | instances for TLC | |

Definitions whose comment begins with "Mutated form" are no part of the model.
Each is a plausible bug of the definition that follows it, kept to show that
the property named for it in `PROJECT.json` notices.

### BuySlots

`pendingBuyCount` is the `AtomicU8`, `tokenPendingBuy` the `DashSet`; an attempt
walks from `fetch_add` through the insert and `can_afford` to the order and back
through the two releases. Each atomic operation is a step. The counter wraps at
`CounterModulus` (256 in the code, 5 in the run, so that a wrap would be seen).

### SniperEngine

| Variable | Code |
|---|---|
| `spend`, `frozen`, `buyCount`, `tokenPendingBuy` | fields of `RiskGuard` |
| `exposures`, `realizedPnl` | `InventoryManager` (the P&L summed over tokens) |
| `position`, `openOrders`, `paid` | the account at the exchange |
| `state`, `cooldown`, `fills` | `state`, `last_order_fail`, `fill_rx` of each engine |
| `task` | the `try_fire` tasks with their program counter |

Engine actions: `Start` (start-up, adopts a position), `Consider` / `Buy` /
`GiveUp` (the Empty branch: its checks, and then slots, budget and spawn),
`Sell` (the Holding branch), `HandleFill` (the `fill_rx` arm, one disjunct for
each match arm), `Watchdog` (the sleep arm), `CooldownOver`, `Stop` (the end of
the loop). Task actions: `Reserve`, `Fire`, `Place`, `After`, `Release`, which
cut `try_fire` at its awaits and at the locks others contend for. `ExchangeFill`
and `Crash` are the environment.

What is left out, and how:

- *Prices and edges*: any ask of `BuyPrices` may be worth buying, any bid of
  `SellPrices` selling. Every decision the code can make with these prices is
  a behaviour of the model, whatever the volatility or the staleness of a book.
- *Time*: a cooldown may end at any moment; the watchdog may fire at any moment
  in a pending state (when `Faults` has "watchdog"). `OrderTiming` says when it
  really does. The 1.5 s wait of `try_fire` is over when `After` happens. Without
  "unseen_fill" an order that was not filled by then is taken to be dead.
- *Money* is counted in ticks, `Dollar` to a dollar; sizes are whole shares.
- *Atomicity*: the position a sale reads and the spawn are one step, so are the
  P&L read and the breaker's update (`CircuitBreaker` takes these apart), and the
  two slots (`BuySlots` justifies that one). A buy's chunks have one price and
  count as one order that is accepted in part (`PolyClient` has the chunks).
- *One engine per market*: `Stop` ends the engine in one step. That is so under
  the autopilot alone (`TradersRegistered`), and not always with the handlers
  (`two_engines`).

### StrategyLifecycle

`registry` maps a key to the engine whose token it holds, `engine` has the key
and the phase of each engine task, `radar` one program counter for each caller
of `start_event_radar` (the autopilot and each `POST /event/start`), `clock` is
the event that the time names. An engine notices a cancellation only in its
loop, closes its orders and leaves; leaving drops the guard, which deregisters
by key. The forwarding task of `server.rs` 96-101 makes an engine's token follow
the global one: `Stopping(e)`. `userStarted` is a history variable: a handler
was asked to start an engine.

### PolyClient

`req` has the program counter of each request: in the semaphore's queue, ready
with a permit, sent, backing off *with its permit*, over. A batch is what one
task joins: the chunks of an iceberg, or one order. `Timeout` is the order
timeout or the iceberg window; it ends the waiting at once, and `Drop` then drops
the futures one by one. What was sent stays in `network` and may still be
accepted: that is why a failure promises nothing. A permit that comes back goes
to the first in the queue, as tokio's fair semaphore does it. Reads and
cancellations have no timeout and no retry.

### OrderTiming

One engine in half seconds. `timer` is the sleep arm's, created anew on each turn
of `select!` (`engine.rs` 326); `quiet` is the time since anything else woke the
loop. `Look` and `Looked` are the ends of the position read in Holding, during
which the loop polls nothing. What is due happens before `Tick`. `late` remembers
that some position read took longer than `ReadTime`: such reads have no timeout
in the code, so the model allows any length.

### CircuitBreaker

Money is in percent of the budget, a position in lots. `Clear` is `is_frozen` in
`evaluate_and_act`, `Buy` the spawn some steps later. `HearFill` begins
`get_total_realized_pnl`, `Add` visits one token, in any order (the map has none),
`Update` is `update_circuit_breaker`. Reports of stopped engines are lost
(`orphan`), reports in an unexpected state are dropped (`Ignore`): neither feeds
the breaker.

An order outlives its task. `Post` and `NotPlaced` leave lots open at the exchange
(`resting`), `ExchangeFill` fills them whether a task still waits or not, and
`Unfilled` gives an order up without cancelling it (`engine.rs` 890, 933-956). A
late fill shows as the fill of another task's order, or in the position that
`Start` adopts; `net` is what the ledger holds, which stands in for the account
where reading it fails (`Positions`). `Stop` cancels open orders as far as the
exchange lets it. The position read and the post are one step, and so are the
second read and the booking: the model's fills fall before or after them.

`sold` notes that a sale has been booked, `fresh` the engines whose walk began after
the last booking, `exact` that the last update was by one of them, `late` counts
purchases behind a freeze.

### MarketData and Pricing

A price is known by the time at which it was quoted; 0 is the 0.0 that the
channel and `GLOBAL_BTC_MID_BITS` start with. `SetMid` files the last quote under
the present second, from the Binance arm, the sleep arm and the heartbeat.
`WarmUp` files closing prices of past minutes under their opening times.
`Nearest` is `get_btc_at_timestamp`, `RelativeMarket` the three fallbacks of
`fetch_event_markets`. `firstTick` and `silence` are history variables of the
stream.

`Pricing` has the fair value's cap near the expiry and its degenerate cases, the
edges, the choice of side, the decision to sell and the iceberg's chunks, with
exact prices in units of `MIN_PROFIT` and amounts in cents. N(d2) is an input.

## 3. Runs

| Run | Question | Distinct states |
|---|---|---|
| `slots` | Do the slots survive every interleaving of their atomic operations, and look atomic? | 1 319 |
| `engine_calm` | Two markets race for a budget of less than two trades, icebergs are partly accepted and partly filled: does every reservation come back, once, do ledger and account agree, does every pending state end with no watchdog at all? | 111 k |
| `engine_faults` | Do slots, budget and the duty to report survive stops, restarts, the watchdog, crashes, failing calls and late fills? | 326 k |
| `engine_restart` | Does a restarted engine wait for the order its predecessor left behind, do the tasks implement the pool, and how far can such orders take the ledger past the exposure cap? | 858 k |
| `lifecycle` | With every actor interleaved: is each registered key a live engine, does one event trade under the autopilot, does who is stopped end, and after the shutdown everyone? | 164 k |
| `poly_client` | Requests queue, back off, are refused, lost and dropped: are permits conserved, orders placed once, reads and cancellations served? | 128 k |
| `order_timing` | With the defaults: does the watchdog spare what runs, reach what is stuck, and does the cooldown hold? | 1.75 M |
| `market_data` | Can a price be cached that was never quoted, or a strike be of the wrong time? | 4.56 M |
| `breaker` | Two engines race to feed and to ask the breaker: how many orders slip through, can a total that is stale freeze too early, does it last, and does a freeze end when given-up orders fill late? | 2.34 M |

The bounds, and why they are enough.

- *Engine.* Three orders let one task linger from a stopped engine while its
  successor's buy and sale go on. Two markets compete for one budget and one
  counter; where many things go wrong at once one market is enough, since
  markets share nothing else. A trade is two shares at 2 ticks where partial
  fills matter, one share at 4 where only its outcome does. Budgets of 7 and 8
  ticks with trades of 4 make the second trade fail or just fit. In
  `engine_restart` the cap of one share admits one of two prices. In
  `engine_faults` sales are at a profit, so refunds reach below zero.
- *Lifecycle.* Two events are enough for a rotation, two engines for a
  successor beside a predecessor, one request beside the autopilot.
- *PolyClient.* Two permits for four requests: both chunks of an iceberg can back
  off with all the permits while a read and a cancellation wait, and permits are
  handed over.
- *OrderTiming.* The code's defaults in half seconds; a second task appears only
  when the watchdog lets it in, which needs a late read.
- *MarketData.* A heartbeat and a minute are one unit, an event three, the cache
  reaches back four. From 4 to 8 an event opens at 6 after a heartbeat has
  passed, prices follow that are more than a minute younger, and the cache
  prunes. Two radars can be under way at once, each for any event, also one that
  is over and one to come.
- *CircuitBreaker.* Purchases of 15 and 20% and sales at 5% meet both limits
  exactly: 20 must freeze, 15 must not, and 20 - 5 must thaw. Three trades are
  enough for a freeze behind a cleared engine, for a given-up purchase that
  fills within the next one's wait (two lots in one report), and for a frozen
  breaker with nothing left (one purchase whose sale is lost with its engine or
  dropped).
- *Pricing.* It has no state: before it runs `market_data`, TLC evaluates
  `DecisionsSound` of `MCMarketData`, the three properties of a decision over quotes
  at, below and above each threshold and all amounts up to $30.

Orders and engines are interchangeable, which the symmetry sets use (never in
runs with liveness properties). Deadlock is not checked where the orders, trades
or times are used up in the end: the instance stops, not the system. `BuySlots`
and `OrderTiming` never stop, and there it is checked. Type invariants are
checked where they say more than a type: the engine's `spend \in Nat` means that
refunds never leave a debt, the client's limits the retries, `MarketData`'s the
failures in a row. Those of `BuySlots`, `StrategyLifecycle`, `OrderTiming` and
`CircuitBreaker` are proved instead.

### Where the code disagrees with its documents

Each of these runs ends in a counterexample; `PROJECT.json` quotes the lines.

| Run | What happens |
|---|---|
| `unseen_fill` | A rolled-back order stays open and fills later; more than `MAX_BUDGET` is paid. |
| `two_engines` | A stopped engine's guard removes its successor's entry; a third start adds a second engine. |
| `frozen_unsold` | The P&L falls by the price of every purchase, so one that costs a fifth of the budget freezes all buying with nothing sold. |

More disagreements follow from the modules; they are hazards in `PROJECT.json`
and have no run of their own:

- The watchdog returns the slot of an order that is only slow, and a second BUY
  joins it (`guard.rs` 28 promises one active order per token). `OrderTiming`
  shows that this takes a position read that is late.
- A task posts its order after its engine cancelled everything and left
  (`src/README.md` 192).
- The watchdog turns a sale back into Holding, the late success is dropped, and
  the engine holds what is gone. `WatchdogSparesRunning` is what excludes it.
- Iceberg chunks are below the stated $3 for orders between $5 and $6
  (`ChunksInBounds` states the bound that does hold, $2.50).
- Fills are booked as YES quantity of their own token while the exposure cap
  reads the NO quantity of the NO token, which is always 0 (`engine.rs` 612,
  959). `YesSideCapped` holds; no cap holds for the other side.
- The cap itself is soft (`engine.rs` 614): it is read before the slot is taken,
  and a purchase left behind by a stopped engine may be booked in between. That it
  then never exceeds twice the cap looks right and is wrong: a restarted engine
  may sell the shares first and book the sale, the purchase's own booking then
  finds nothing gained, and the ledger stays below the account, so that the next
  purchases start from less than what is held. With four orders on one market TLC
  finds three shares booked under a cap of one. The bound that holds is the cap
  plus one trade, however often this repeats.
- Engines add up the P&L on their own and update in any order (`engine.rs` 264): a
  total read before a fill may be applied after that fill's own, and thaw a
  breaker that another engine has just frozen, at a drawdown of 20% or more. It
  stays open until the next fill that is fed. `HysteresisExact` states what does
  hold, of the updates that are not stale; `FreezeEarned` that a stale one errs on
  this side only as long as nothing was sold.
- A radar that a handler started may still register engines while `cancel_all`
  goes through the registry (`main.rs` 174, 191). These radars are in `lifecycle`
  and no property excludes them: `OneEventTraded` and `TradersRegistered` speak of
  the autopilot alone (`userStarted`). `NoZombieEntry`, `StoppedEnds` and
  `ShutdownQuiesces` hold with them.
- The watchdog's limit is the limit plus the loop's wait, and a busy feed
  suspends it (`QuietFeedUnlocks`).

## 4. Fairness

`SniperEngine`: weak fairness of each task's next step (tokio polls it, its
requests are answered, fail or run into the 5 s timeout), of `HandleFill`
(`fill_rx` is an arm of the loop's select!, ready until it is served) and of the
synchronous decision. Nothing is fair about decisions to trade, fills at the
exchange, stops, cooldowns or the watchdog.

`StrategyLifecycle`: weak fairness of each phase of an engine (a cancelled
token stays ready), of the autopilot's poll and of a radar's steps (its requests
have an answer or an error). Nothing is fair about users, feeds and clocks.

`PolyClient`: weak fairness of each request's next step (the runtime polls it, a
back-off ends) and of the exchange's answer. Nothing is fair about timeouts: that
a read is served does not rest on an order being given up.

Reading a position (`sync_token_position`) has no timeout; that it is answered is
an assumption of all three.

## 5. Proofs

All theorems hold for every value of the constants under the named assumptions
of the modules. Those of `SniperEngine` hold for all fault sets unless the table
names the faults they exclude: `Reliable` excludes the watchdog, late fills and
failing calls, `Attended` stops too.

| Theorem | Says |
|---|---|
| `CounterIsExact`, `CapIsKept`, `MarketsAreExclusive` | `BuySlots`: counter exact, limit kept, markets exclusive |
| `SlotsImplementPool` | `BuySlots` implements `SlotPool` |
| `SlotsSound`, `OrphansNever` | `SniperEngine`: `SlotsAccounted` and `NoOrphanSlot` |
| `BudgetSound` | `SpendWithinBudget` |
| `ReportsSound` | `PendingIsAwaited` |
| `OneBuySound` | `OneBuyPerMarket`, if `Faults` has no "watchdog" |
| `TasksImplementPool` | `SniperEngine` implements `SlotPool`, if `Faults` has neither "watchdog" nor "crash" |
| `CapSound` | `YesSideCapped`, if `Reliable`: with stops, restarts, crashes, failing cancellations |
| `HoldingSound` | `HoldingIsBacked`, if `Attended`: with crashes and failing cancellations |
| `SpendSound`, `PaymentsSound` | `SpendCoversPaid` and `PaidWithinBudget`, without faults |
| `BooksSound`, `BudgetBack` | `BooksBalance` and `BudgetReturned`, without faults |
| `RegistrySound` | `StrategyLifecycle`: `NoZombieEntry` |
| `TradersSound`, `RotationSound` | `TradersRegistered` and `OneEventTraded`, if no two events share a market |
| `PermitsSound` | `PolyClient`: `PermitsAccounted` |
| `ImplementsOneShot` | `PolyClient` implements `OneShot` |
| `WatchdogSound`, `WatchdogReaches`, `CooldownSound` | `OrderTiming`: `WatchdogSparesRunning`, `QuietFeedUnlocks`, `FailureRests` |
| `FewSlipThrough`, `FrozenStays`, `HysteresisSound`, `FreezeSound` | `CircuitBreaker`: `LateBuysBounded`, `FrozenForGood`, `HysteresisExact`, `FreezeEarned` |
| `PricesSound`, `StrikeSound` | `MarketData`: `PricesAreReal`, `StrikeNearOpen` |
| `IcebergSound`, `ChoiceSound`, `NoCircles` | `Pricing`: `ChunksInBounds`, `BetterSideBought`, `RoundTripRefused` |
| `CounterInRange`, `TypeCorrect`, `LifecycleTypes`, `ClientTypes`, `TimingTypes`, `BreakerTypes`, `MarketTypes` | the type invariants |

*Slots.* `CounterExact` and `GlobalCap` are inductive only with the overshoot: an
attempt that saw a full counter is counted but has not won, so the invariant
says which program counters are counted (`Counted`) and which have won
(`Winners`). `WidthAssumption` keeps the 8-bit counter from wrapping; the run
lets one attempt more than the limit try. For the refinement, `Finish` is the
abstract release and the successful `CheckAfford` the abstract acquire; that
they map to allowed steps needs `GlobalCap` and `TokenExclusive`.

*Engine slots.* Five kinds of step exist (`SlotStep`): slots kept, taken by one new
BUY task, returned with the end of one, a market's entry dropped by its engine,
or everything dropped by a crash; the count of running BUY tasks changes by the
same amount (finite-set facts), and so `SlotsAccounted` is inductive with
`TypeOK`. `NoOrphanSlot` then follows because a market enters the set only with
its task and every task that ends removes it.

*Budget.* `0 <= spend <= MaxBudget` needs that costs are never negative, which is
`TypeOK`: prices, sizes and reservations are naturals.

*Reports.* An engine becomes pending only by spawning an attached task of that
side; a task leaves its active steps only through `RollBack` or the fill report,
and both append to the channel of the engine it is attached to; a report is
taken from the head and either settles the state or is of the other side. The
lemma about `Tail` keeps the other reports in the channel.

*One buy per market.* That every running buy has its market's entry (`EntriesHeld`)
is not inductive: an engine that reads the report of a failed buy drops the entry
of its market, which might be another task's by then. `OneAnswer` says why it is
not: an engine is owed at most one answer to a buy, only while it waits for it, and
a report of nothing bought is in the channel only when the market has no running
buy. A task left behind by a stopped engine is attached to no channel, so it adds
no second answer, and it keeps the entry until its own end. The watchdog makes an
engine stop waiting for an answer that still comes, which is where the invariant
and the property fail. The refinement follows: the pairs in the pool are in
bijection with the running buys, which `SlotsAccounted` counts; a step that takes
slots is an acquire, one that returns them a release, and the engine's drop of an
entry a stutter. A crash empties the pool at once, which the abstract pool does
not do.

*Exposure.* `FillsBounded`: while no order outlives its task and every read
succeeds, the position of a token has risen since a buy read it by no more than
that buy was filled, because a market runs one buy at a time (`OneBuySound`) and
sales only lower it. So a buy books its own size at most. Then `YesRoom`: with `B`
the largest trade, a buy that is still to be booked leaves the ledger within the
cap plus `B`, and so does one its engine decides on; if both exist, the second was
let in with the ledger within the cap itself. `PricesMet` bounds a size by a trade
at some price of `BuyPrices`; the largest trade exists because trades are naturals
up to `SnipeSize`, so the prices need not be finite. A watchdog lets two buys run,
a late fill is attributed to a later order, a failed read makes nothing of a
position that is there: the three faults excluded.

*Holdings and ledger.* If no engine leaves its task behind, a market runs one
task at a time and what happens to a token is that task's doing. `CalmFrom` says so
part by part: `OneAtATime`, `OrdersWatched` (an open order belongs to a task that
waits for it), `Attributed` (what moved since the task's read was filled from its
order), `SalesBacked` and `ReportsBacked` (the amount that a state or a report
promises is in the account), `LedgerFollows` (the ledger has what the account
gained since the process started, but for an order that is watched). A step that changes any of this is of
one of six kinds (`CalmStep`: an engine rests or starts to wait; a task advances,
answers or is over; an order is filled), and a lemma for each says that it
preserves the whole. After a crash it holds again, of an account that starts with
what the crash left in it (`CrashCalm`); that is why it has a parameter. `HoldingIsBacked`
is read off, and the shares' part of `BooksBalance` off the first process
(`CalmInv`).

*Money.* `Due` is what is reserved for an order and not yet paid, `Unbooked` what was
paid and is not yet in the ledger, `Refund` what an engine will give back when it
reads a report; `Spoken` is what was paid plus the sums of `Due` and `Refund`. A step
changes one order's and one engine's terms only (`MoneyStep`), so the sums change by
those, the ledger by as much, and `spend` by as much unless it stops at 0. That makes
`MoneyInv` (`BooksAgree`, and `Spoken` within `spend`) inductive. `BudgetReturned`
needs `spend` to be exactly `Spoken`, that is that no refund is cut off at 0. If no
share is sold above the cheapest purchase `P`, what is out is at least `P` for every
share held (`PaidFor`), and `Spoken` never falls below 0 (`Exact`). `BudgetBack`
therefore takes an account that starts without shares, since adopted ones may be
sold for more than was spent, and some price at which to buy.

*Sums.* The sums are folds over finite sets of any size. `Sums` proves what is needed
of them (one element more, one term changed, terms that are smaller, a sum of
zeros) without induction over an operator: a set of subsets that is not empty has a
smallest member (`SmallestSubset`), so a counterexample has a smallest one.

*Registry.* An entry is written only for an unborn engine, which is not yet
cancelled: the strengthening says that cancelled engines are born. Entries of an
ending engine's key are removed whoever owns them, so no entry survives its
engine; that is also why `two_engines` is possible.

*Rotation.* As long as no handler has started an engine (`userStarted`), a key is
given out once: the autopilot registers the markets of one event, and events
share none (`Disjoint`). So no two engines have one key, an ending engine removes
its own entry only, and each engine that trades keeps the entry that
`cancel_all` finds. `Rotation` says this of every engine by its phase, and which
event each caller's markets are of.

*Client.* Permits are conserved because `End` gives one to exactly one waiter or to
the pool, which the cardinality of `Holders` follows. For the refinement
`OrderInv` says how far an order has come: what is about to be sent was never
accepted, because only a 429 leads back there and a 429 is no acceptance; what
was given up may still be on the network, and then it is not accepted yet.

*Clocks.* `RoomInv`: while no read was late, each task is its engine's only one, its
state is pending on its side, and the state is not older than the sum of the
limits of the steps the task has passed. `RoomAssumption` (two reads, the
order's timeout and the wait for fills fit in the watchdog's limit) then keeps
the watchdog away. `QuietInv` relates the age of an overdue state to the sleep
arm's timer, `RestInv` the cooldown to the last failure. With the defaults the
assumption holds for reads within 0.75 s.

*Breaker.* `LateInv`: while frozen, an engine that is cleared has fired no late
purchase, because clearing needs an open breaker. `FrozenForGood` follows step by
step from `TypeOK`: with nothing held by the account or the ledger, nothing ordered,
open at the exchange or reported, no fill can come, and nothing but a fill updates the
breaker. A restarted engine finds nothing to adopt. What is open at the exchange has
to be among these: a given-up purchase that fills later is adopted and sold, and
that sale may thaw. `FoldInv` is about what each walk promises, that is what it has
added up and the P&L of the tokens it has still to visit. A walk that began after
the last booking promises the total itself, whatever the order (`FreshExact`), so
its update decides by it (`HysteresisExact`). While only purchases are booked the
P&L only falls, so that a stale walk promises no less than the total
(`NeverTooLate`), and a breaker that freezes at what it promised freezes at the
total too (`FreezeEarned`).

*Prices.* `FeedInv`: who has an unseen value has a real one, since a clone of the
receiver counts as unseen only what is on the channel already. So the one arm
that does not test for 0 never files it. `ClockAssumption` says that klines lie
after time 0.

*Strikes.* `Filed` says how far a cached price may be from its time stamp: filed
under the time of filing it is older by the silence of the stream at most, as a
kline it is younger by a minute at most and its stamp is a full minute. `BeatFiled`
and `Covered`: since the first quote there is an entry in every heartbeat, as far
back as the cache reaches, for pruning takes older ones only. So the nearest entry
to an opening is less than a heartbeat away; a kline that near has its stamp at or
before the opening, which is a full minute itself. That rests on heartbeats no
further apart than a minute (`TimeAssumption`; the code has heartbeats of 30 s, `main.rs` 206).

*Decision.* Linear arithmetic over the cases of the definitions; `IcebergSound`
needs the two bounds of a ceiling and a case for each way the chunks are counted.

Every safety property of a passing run is proved. Only model-checked is what is
out of the prover's reach, liveness under fairness: `PendingResolves`,
`SettlesAgain`, `StoppedEnds`, `ShutdownQuiesces`, `OthersServed`. What the three
`violation` runs refute is refuted by TLC alone.

`SpendCoversPaid`, `BooksBalance` and `BudgetReturned` are checked and proved
without stops on purpose: a task left behind and a restarted engine's task on one
token read each other's fills in the account's position, and attribute them
wrongly (hazard at `engine.rs` 931). The watchdog has the same effect, and a
crash forgets the spend but not what was paid. `HoldingIsBacked` survives a
crash and not a stop: a sale that was left behind sells what the next engine
adopted at its start.
`OneBuyPerMarket` and the engine's `PoolSpec` are checked and proved without the
watchdog, which breaks them; `order_timing` says when it does not fire.

## 6. Not modelled

- N(d2) and the volatility: floating point, no state. Its cap and its degenerate
  cases are in `Pricing`.
- The texts a strike is parsed from, the factor of 1000 for small strikes and
  `BASIS_ADJUSTMENT` (`discovery/radar.rs`): the model has the three outcomes, a
  stated strike, none, and an incomplete market.
- Reconnection of the Polymarket streams: the Binance stream's again, for each
  token. Their loss for good is in `StrategyLifecycle`, their tasks that outlive
  the engine are a hazard without a property.
- The construction of PolyClient (keys, signatures, proxies).
- `risk/watchdog.rs`, `discovery/radar.rs` 297-421, and the reconciliation and
  pending notionals of `risk/inventory.rs`: nothing calls them.
- Configuration, logging, queries over HTTP: no state.
- The time between two instances of one process: a crash keeps nothing but the
  account (`Crash`), and the code writes nothing to disk.
