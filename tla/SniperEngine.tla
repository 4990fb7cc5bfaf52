---------------------------- MODULE SniperEngine ----------------------------
(***************************************************************************)
(* The trading core, src/src/engine.rs: for every market an engine loop    *)
(* (run_sniper_task) with its position state machine, and the try_fire     *)
(* tasks it spawns, one per order.  Engines and tasks run concurrently and *)
(* share the RiskGuard, the Inventory and the exchange account; a task     *)
(* reports to the engine that spawned it through the engine's channel.     *)
(*                                                                         *)
(* Which edge opens or closes a position is left to chance: any side may   *)
(* look attractive at any price of BuyPrices, and any bid of SellPrices may*)
(* justify a sale, so buy_price and the fair values are not kept.  Time is *)
(* left to chance too: a cooldown may end and, when Faults allows it, the  *)
(* watchdog may fire at any moment.                                        *)
(***************************************************************************)
EXTENDS RiskGuard, Inventory, Exchange, FiniteSets, Sequences

CONSTANTS BuyPrices,          \* asks the engines may meet, at most max_buy_price
          SellPrices,         \* bids the engines may meet
          SnipeSize,          \* budget_per_trade, in ticks
          IcebergThreshold,   \* ICEBERG_THRESHOLD_USD, in ticks
          DryRun,             \* env DRY_RUN
          HasClient,          \* PolyClient was initialised
          Faults              \* what may go wrong in this run

FaultKinds == {
    "unseen_fill",     \* an order may be filled when no task watches it any more
    "api_failure",     \* reading a position may fail
    "watchdog",        \* a feed is quiet for 5 s, so the loop's sleep arm runs
    "stop",            \* strategies are stopped and started again
    "cancel_failure",  \* cancel_all_orders may fail
    "crash"}           \* the process may die and be started again

Outcomes == {"yes", "no"}

ASSUME EngineAssumption ==
    /\ IsFiniteSet(Orders) /\ IsFiniteSet(Markets)
    /\ Markets # {}
    /\ Tokens = Markets \X Outcomes
    /\ BuyPrices \subseteq Nat \ {0} /\ SellPrices \subseteq Nat \ {0}
    /\ SnipeSize \in Nat /\ IcebergThreshold \in Nat
    /\ DryRun \in BOOLEAN /\ HasClient \in BOOLEAN
    /\ InitialPosition \in [Tokens -> Nat]
    /\ Faults \subseteq FaultKinds

VARIABLES state,              \* the position state of each engine
          cooldown,           \* last_order_fail is less than its cooldown ago
          fills,              \* fill_rx of each engine
          task                \* the try_fire tasks

engineVars == <<state, cooldown, fills>>
vars == <<guardVars, inventoryVars, exchangeVars, engineVars, task>>
-----------------------------------------------------------------------------
(***************************************************************************)
(* PositionState, and two more states: Stopped when the market has no      *)
(* engine, Deciding when evaluate_and_act has found Empty and read the     *)
(* breaker and the exposure but has not asked for the slots yet.           *)
(***************************************************************************)
Stopped  == [kind |-> "Stopped", outcome |-> "yes", amount |-> 0, price |-> 0]
Empty    == [Stopped EXCEPT !.kind = "Empty"]
PendingBuy == [Stopped EXCEPT !.kind = "PendingBuy"]
Deciding(s, n, p) == [kind |-> "Deciding", outcome |-> s, amount |-> n, price |-> p]
Holding(s, n)     == [kind |-> "Holding", outcome |-> s, amount |-> n, price |-> 0]
PendingSell(s, n) == [kind |-> "PendingSell", outcome |-> s, amount |-> n, price |-> 0]

Kind(m)   == state[m].kind
Become(m, s) == state' = [state EXCEPT ![m] = s]

\* Where a try_fire task is: about to reserve the budget; to read the position
\* before the order; to post the order; to read the position after it; or to
\* release the slots after reporting a fill.
Active == {"reserve", "fire", "place", "after", "release"}
PCs    == {"idle", "done"} \union Active

IdleTask == [pc |-> "idle", market |-> CHOOSE m \in Markets : TRUE, outcome |-> "yes",
             side |-> "Buy", price |-> 0, size |-> 0, before |-> 0, attached |-> FALSE]
DoneTask == [IdleTask EXCEPT !.pc = "done"]

Token(o) == <<task[o].market, task[o].outcome>>
IsBuy(o) == task[o].side = "Buy"
Notional(o) == task[o].price * task[o].size
\* The budget the task has reserved; sells reserve none.
Reserved(o) == IF IsBuy(o) THEN Notional(o) ELSE 0

Goto(o, l) == task' = [task EXCEPT ![o].pc = l]

Spawn(o, m, s, side, p, n) ==
    task' = [task EXCEPT ![o] =
        [pc |-> "reserve", market |-> m, outcome |-> s, side |-> side, price |-> p,
         size |-> n, before |-> 0, attached |-> TRUE]]

\* sync_token_position or, when there is no client or the call fails, what the
\* ledger says (sync_current_position).
LocalPosition(t)  == AtLeastZero(NetExposure(t))
Synced(t) ==
    {p \in {position[t], LocalPosition(t)} :
        \/ HasClient /\ p = position[t]
        \/ (~HasClient \/ "api_failure" \in Faults) /\ p = LocalPosition(t)}

\* A buy returns both slots; a sale has none.
FreeSlots(o) == IF IsBuy(o) THEN ReleaseSlots(task[o].market) ELSE UNCHANGED slotVars

\* fill_tx.send: lost when the engine that would receive it is gone.
Report(o, size, synced) ==
    LET m == task[o].market
    IN  fills' = IF task[o].attached
                 THEN [fills EXCEPT ![m] = Append(@,
                          [side |-> task[o].side, outcome |-> task[o].outcome,
                           price |-> task[o].price, size |-> size,
                           synced |-> synced, reserved |-> Reserved(o)])]
                 ELSE fills
-----------------------------------------------------------------------------
Init ==
    /\ GuardInit
    /\ InventoryInit
    /\ ExchangeInit
    /\ state = [m \in Markets |-> Stopped]
    /\ cooldown = [m \in Markets |-> FALSE]
    /\ fills = [m \in Markets |-> <<>>]
    /\ task = [o \in Orders |-> IdleTask]

\* run_sniper_task up to its loop: adopt the position the account already has
\* in the market, the YES side first.
Start(m) ==
    /\ Kind(m) = "Stopped"
    /\ \E yes \in Synced(<<m, "yes">>), no \in Synced(<<m, "no">>) :
           Become(m, IF yes > 0 THEN Holding("yes", yes)
                     ELSE IF no > 0 THEN Holding("no", no)
                     ELSE Empty)
    /\ cooldown' = [cooldown EXCEPT ![m] = FALSE]
    /\ UNCHANGED <<guardVars, inventoryVars, exchangeVars, fills, task>>

\* Mutated form: the leaving engine frees its market's slot.
StopFreesSlot(m) ==
    /\ "stop" \in Faults
    /\ Kind(m) \notin {"Stopped", "Deciding"}
    /\ CancelTokens({m} \X Outcomes)
    /\ task' = [o \in Orders |->
           IF task[o].market = m THEN [task[o] EXCEPT !.attached = FALSE] ELSE task[o]]
    /\ fills' = [fills EXCEPT ![m] = <<>>]
    /\ cooldown' = [cooldown EXCEPT ![m] = FALSE]
    /\ Become(m, Stopped)
    /\ ReleaseTokenSlot(m)
    /\ UNCHANGED <<spend, frozen, inventoryVars, position, paid>>

\* The loop ends.  A cancelled engine cancels the open orders of its two tokens,
\* best effort; an engine that lost a stream just leaves (cancel_failure).  The
\* channel goes with the engine, its try_fire tasks run on.
Stop(m) ==
    /\ "stop" \in Faults
    /\ Kind(m) \notin {"Stopped", "Deciding"}
    /\ \E cancelled \in IF "cancel_failure" \in Faults THEN SUBSET Outcomes ELSE {Outcomes} :
           CancelTokens({m} \X cancelled)
    /\ task' = [o \in Orders |->
           IF task[o].market = m THEN [task[o] EXCEPT !.attached = FALSE] ELSE task[o]]
    /\ fills' = [fills EXCEPT ![m] = <<>>]
    /\ cooldown' = [cooldown EXCEPT ![m] = FALSE]
    /\ Become(m, Stopped)
    /\ UNCHANGED <<guardVars, inventoryVars, position, paid>>

\* The process dies and starts again: only the exchange remembers.
Crash ==
    /\ "crash" \in Faults
    /\ spend' = 0 /\ frozen' = FALSE /\ buyCount' = 0 /\ tokenPendingBuy' = {}
    /\ exposures' = [t \in Tokens |-> [yes_qty |-> 0, no_qty |-> 0]] /\ realizedPnl' = 0
    /\ state' = [m \in Markets |-> Stopped]
    /\ cooldown' = [m \in Markets |-> FALSE]
    /\ fills' = [m \in Markets |-> <<>>]
    /\ task' = [o \in Orders |-> IF task[o].pc \in Active THEN DoneTask ELSE task[o]]
    /\ UNCHANGED <<position, paid>>
    /\ IF "unseen_fill" \in Faults THEN UNCHANGED openOrders ELSE openOrders' = {}
-----------------------------------------------------------------------------
(***************************************************************************)
(* evaluate_and_act: on every tick, one branch for each position state.    *)
(***************************************************************************)
\* The Empty branch up to the exposure check: no hibernation, no cooldown, no
\* frozen breaker, at least one share and one dollar, room under the cap.  The
\* NO side of the cap is measured with the no_qty of the NO token.
Consider(m, s, p) ==
    LET n   == SnipeSize \div p
        add(side) == IF side = s THEN n ELSE 0
    IN  /\ Kind(m) = "Empty"
        /\ ~Hibernating
        /\ ~cooldown[m]
        /\ ~frozen
        /\ n >= 1
        /\ n * p >= Dollar
        /\ ExposureAllowed(exposures[<<m, "yes">>].yes_qty + add("yes"),
                           exposures[<<m, "no">>].no_qty + add("no"))
        /\ Become(m, Deciding(s, n, p))
        /\ UNCHANGED <<guardVars, inventoryVars, exchangeVars, cooldown, fills, task>>

\* The rest of the Empty branch: take both slots, look at the budget, spawn.
Buy(m, o) ==
    /\ Kind(m) = "Deciding"
    /\ task[o].pc = "idle"
    /\ AcquireSlots(m)
    /\ CanAfford(SnipeSize)
    /\ Spawn(o, m, state[m].outcome, "Buy", state[m].price, state[m].amount)
    /\ Become(m, PendingBuy)
    /\ UNCHANGED <<spend, frozen, inventoryVars, exchangeVars, cooldown, fills>>

\* A slot or the budget is refused; what was taken has been given back.
GiveUp(m) ==
    /\ Kind(m) = "Deciding"
    /\ Become(m, Empty)
    /\ UNCHANGED <<guardVars, inventoryVars, exchangeVars, cooldown, fills, task>>

\* The Holding branch, which neither the breaker nor the slots restrain: sell
\* what the state and the account agree on.
Sell(m, p, o) ==
    /\ Kind(m) = "Holding"
    /\ task[o].pc = "idle"
    /\ ~cooldown[m]
    /\ \E current \in Synced(<<m, state[m].outcome>>) :
        LET n == IF current < state[m].amount THEN current ELSE state[m].amount
        IN  /\ n > 0
            /\ Spawn(o, m, state[m].outcome, "Sell", p, n)
    /\ Become(m, PendingSell(state[m].outcome, state[m].amount))
    /\ UNCHANGED <<guardVars, inventoryVars, exchangeVars, cooldown, fills>>

CooldownOver(m) ==
    /\ cooldown[m]
    /\ cooldown' = [cooldown EXCEPT ![m] = FALSE]
    /\ UNCHANGED <<guardVars, inventoryVars, exchangeVars, state, fills, task>>

\* The sleep arm of the loop: a pending state older than 8 s is unlocked.
Watchdog(m) ==
    /\ "watchdog" \in Faults
    /\ \/ /\ Kind(m) = "PendingBuy"
          /\ ReleaseTokenSlot(m)
          /\ Become(m, Empty)
       \/ /\ Kind(m) = "PendingSell"
          /\ UNCHANGED slotVars
          /\ Become(m, Holding(state[m].outcome, state[m].amount))
    /\ UNCHANGED <<spend, frozen, inventoryVars, exchangeVars, cooldown, fills, task>>
-----------------------------------------------------------------------------
(***************************************************************************)
(* The fill_rx arm of the loop: one reported order against the state.      *)
(***************************************************************************)
\* A buy was filled.  Empty: the watchdog had given the order up.
Bought(m, u) ==
    /\ Kind(m) \in {"PendingBuy", "Empty"} /\ u.side = "Buy" /\ u.size > 0
    /\ RefundBudgetDelta(u.reserved, u.price * u.size)
    /\ UpdateCircuitBreaker(realizedPnl)
    /\ cooldown' = [cooldown EXCEPT ![m] = FALSE]
    /\ Become(m, Holding(u.outcome, u.size))
    /\ UNCHANGED slotVars

BuyFailed(m, u) ==
    /\ Kind(m) = "PendingBuy" /\ u.side = "Buy" /\ u.size = 0
    /\ cooldown' = [cooldown EXCEPT ![m] = TRUE]
    /\ ReleaseTokenSlot(m)
    /\ Become(m, Empty)
    /\ UNCHANGED <<spend, frozen>>

\* Mutated form: a partial sale leaves the old amount in the state.
SoldKeepsAmount(m, u) ==
    /\ Kind(m) = "PendingSell" /\ u.side = "Sell" /\ u.size > 0
    /\ UpdateCircuitBreaker(realizedPnl)
    /\ cooldown' = [cooldown EXCEPT ![m] = FALSE]
    /\ Become(m, IF u.synced > 0 THEN Holding(state[m].outcome, state[m].amount) ELSE Empty)
    /\ UNCHANGED <<spend, slotVars>>

Sold(m, u) ==
    /\ Kind(m) = "PendingSell" /\ u.side = "Sell" /\ u.size > 0
    /\ UpdateCircuitBreaker(realizedPnl)
    /\ cooldown' = [cooldown EXCEPT ![m] = FALSE]
    /\ Become(m, IF u.synced > 0 THEN Holding(state[m].outcome, u.synced) ELSE Empty)
    /\ UNCHANGED <<spend, slotVars>>

SellFailed(m, u) ==
    /\ Kind(m) = "PendingSell" /\ u.side = "Sell" /\ u.size = 0
    /\ cooldown' = [cooldown EXCEPT ![m] = TRUE]
    /\ Become(m, Holding(state[m].outcome, state[m].amount))
    /\ UNCHANGED guardVars

\* (s, _, _) => s
Ignored(m, u) ==
    /\ \/ Kind(m) = "Holding"
       \/ Kind(m) = "Empty" /\ ~(u.side = "Buy" /\ u.size > 0)
       \/ Kind(m) = "PendingBuy" /\ u.side = "Sell"
       \/ Kind(m) = "PendingSell" /\ u.side = "Buy"
    /\ UNCHANGED <<state, cooldown, guardVars>>

\* Mutated form: the report stays in the channel.
HandleFillPeeks(m) ==
    /\ fills[m] # <<>>
    /\ LET u == Head(fills[m])
       IN  Bought(m, u) \/ BuyFailed(m, u) \/ Sold(m, u) \/ SellFailed(m, u) \/ Ignored(m, u)
    /\ UNCHANGED <<fills, inventoryVars, exchangeVars, task>>

HandleFill(m) ==
    /\ fills[m] # <<>>
    /\ LET u == Head(fills[m])
       IN  Bought(m, u) \/ BuyFailed(m, u) \/ Sold(m, u) \/ SellFailed(m, u) \/ Ignored(m, u)
    /\ fills' = [fills EXCEPT ![m] = Tail(@)]
    /\ UNCHANGED <<inventoryVars, exchangeVars, task>>
-----------------------------------------------------------------------------
(***************************************************************************)
(* try_fire, step by step.                                                 *)
(***************************************************************************)
\* Mutated form: an exit that breaks "MUST send an ExecutedOrderUpdate".
RollBackSilently(o, budget, synced) ==
    /\ ReleaseBudget(budget)
    /\ FreeSlots(o)
    /\ UNCHANGED fills
    /\ task' = [task EXCEPT ![o] = DoneTask]

\* Every failing exit: give back the budget and, for a buy, both slots; then
\* report nothing filled.
RollBack(o, budget, synced) ==
    /\ ReleaseBudget(budget)
    /\ FreeSlots(o)
    /\ Report(o, 0, synced)
    /\ task' = [task EXCEPT ![o] = DoneTask]

Reserve(o) ==
    /\ task[o].pc = "reserve"
    /\ \/ /\ IF IsBuy(o) THEN ReserveBudget(Notional(o)) ELSE UNCHANGED spend
          /\ Goto(o, "fire")
          /\ UNCHANGED <<slotVars, fills>>
       \/ /\ IsBuy(o) /\ ~CanAfford(Notional(o))
          /\ RollBack(o, 0, LocalPosition(Token(o)))
    /\ UNCHANGED <<frozen, inventoryVars, exchangeVars, state, cooldown>>

\* Dry run and a missing client end the task; else read the position.
Fire(o) ==
    /\ task[o].pc = "fire"
    /\ IF DryRun \/ ~HasClient
       THEN RollBack(o, Reserved(o), LocalPosition(Token(o)))
       ELSE /\ \E p \in Synced(Token(o)) :
                   task' = [task EXCEPT ![o].before = p, ![o].pc = "place"]
            /\ UNCHANGED <<spend, slotVars, fills>>
    /\ UNCHANGED <<frozen, inventoryVars, exchangeVars, state, cooldown>>

\* How much of the order may be accepted: an order above the threshold is posted
\* in chunks of which some may be refused.
Acceptable(o) ==
    IF IsBuy(o) /\ Notional(o) > IcebergThreshold THEN 0..task[o].size ELSE {0, task[o].size}

\* execute_snipe_order: at least one order was accepted and the answer came in
\* time, and the task waits for fills; or it failed, or its answer was late
\* although the exchange may have accepted it.
Place(o) ==
    /\ task[o].pc = "place"
    /\ \E n \in Acceptable(o) :
        \/ /\ n > 0
           /\ Post(o, Token(o), task[o].side, task[o].price, n)
           /\ Goto(o, "after")
           /\ UNCHANGED <<spend, slotVars, fills>>
        \/ /\ Post(o, Token(o), task[o].side, task[o].price,
                   IF "unseen_fill" \in Faults THEN n ELSE 0)
           /\ RollBack(o, Reserved(o), LocalPosition(Token(o)))
    /\ UNCHANGED <<frozen, inventoryVars, position, paid, state, cooldown>>

\* 1.5 s later: what the position says was filled, booked and reported; or a
\* rollback when nothing was.  The order itself is not cancelled.
After(o) ==
    /\ task[o].pc = "after"
    /\ \E after \in {position[Token(o)]} \union
                    {p \in {task[o].before} : "api_failure" \in Faults} :
        LET filled == AtLeastZero(IF IsBuy(o) THEN after - task[o].before
                                              ELSE task[o].before - after)
        IN  IF filled = 0
            THEN /\ RollBack(o, Reserved(o), after)
                 /\ UNCHANGED inventoryVars
            ELSE /\ ApplyFill(Token(o), TRUE, task[o].side, filled, task[o].price)
                 /\ IF IsBuy(o) THEN UNCHANGED spend
                                ELSE ReleaseBudget(task[o].price * filled)
                 /\ Report(o, filled, after)
                 /\ Goto(o, "release")
                 /\ UNCHANGED slotVars
    /\ IF "unseen_fill" \in Faults THEN UNCHANGED openOrders ELSE Expire(o)
    /\ UNCHANGED <<frozen, position, paid, state, cooldown>>

\* Only now, after the fill was reported, does a filled buy return its slots.
Release(o) ==
    /\ task[o].pc = "release"
    /\ FreeSlots(o)
    /\ task' = [task EXCEPT ![o] = DoneTask]
    /\ UNCHANGED <<spend, frozen, inventoryVars, exchangeVars, engineVars>>

TaskStep(o) == Reserve(o) \/ Fire(o) \/ Place(o) \/ After(o) \/ Release(o)

\* The exchange fills an open order, in full or in part.
ExchangeFill ==
    /\ \E r \in openOrders : \E n \in 1..r.left : Fill(r, n)
    /\ UNCHANGED <<guardVars, inventoryVars, engineVars, task>>

EngineStep(m) ==
    \/ Start(m) \/ Stop(m) \/ GiveUp(m) \/ CooldownOver(m) \/ Watchdog(m) \/ HandleFill(m)
    \/ \E s \in Outcomes, p \in BuyPrices : Consider(m, s, p)
    \/ \E o \in Orders : Buy(m, o)
    \/ \E o \in Orders, p \in SellPrices : Sell(m, p, o)

Next ==
    \/ \E m \in Markets : EngineStep(m)
    \/ \E o \in Orders : TaskStep(o)
    \/ ExchangeFill
    \/ Crash

Spec == Init /\ [][Next]_vars
-----------------------------------------------------------------------------
\* Scheduling: the runtime polls every task, requests are answered, fail or run
\* into the order timeout, and select! serves a channel that stays non-empty.
Fairness ==
    /\ \A o \in Orders : WF_vars(TaskStep(o))
    /\ \A m \in Markets : WF_vars(HandleFill(m)) /\ WF_vars(Kind(m) = "Deciding" /\ EngineStep(m))

FairSpec == Spec /\ Fairness
-----------------------------------------------------------------------------
Kinds == {"Stopped", "Empty", "Deciding", "PendingBuy", "Holding", "PendingSell"}

StateType == [kind : Kinds, outcome : Outcomes, amount : Nat, price : Nat]
TaskType  == [pc : PCs, market : Markets, outcome : Outcomes, side : {"Buy", "Sell"},
              price : Nat, size : Nat, before : Nat, attached : BOOLEAN]
UpdateType == [side : {"Buy", "Sell"}, outcome : Outcomes, price : Nat, size : Nat,
               synced : Nat, reserved : Nat]
OrderType == [id : Orders, token : Tokens, side : {"Buy", "Sell"}, price : Nat, left : Nat]

TypeOK ==
    /\ spend \in Nat
    /\ frozen \in BOOLEAN
    /\ buyCount \in Int
    /\ tokenPendingBuy \subseteq Markets
    /\ exposures \in [Tokens -> [yes_qty : Int, no_qty : Int]]
    /\ realizedPnl \in Int
    /\ position \in [Tokens -> Nat]
    /\ openOrders \subseteq OrderType
    /\ paid \in Int
    /\ state \in [Markets -> StateType]
    /\ cooldown \in [Markets -> BOOLEAN]
    /\ fills \in [Markets -> Seq(UpdateType)]
    /\ task \in [Orders -> TaskType]

Running    == {o \in Orders : task[o].pc \in Active}
RunningBuys == {o \in Running : IsBuy(o)}
BuysOf(m)  == {o \in RunningBuys : task[o].market = m}

\* Nothing is under way: every task is over and every report has been handled.
Settled == Running = {} /\ \A m \in Markets : fills[m] = <<>>

\* The global counter is exactly the number of BUY tasks that run, whatever
\* their exits (engine.rs 779, 799, 814, 907, 942, 984), whether or not their
\* engine still exists, and never more than MaxConcurrentBuys.
SlotsAccounted ==
    /\ buyCount = Cardinality(RunningBuys)
    /\ buyCount <= MaxConcurrentBuys

\* A market is in the per-token set only while one of its BUY tasks runs: no
\* interleaving of stops, restarts, watchdog and reports locks a market out.
NoOrphanSlot == \A m \in tokenPendingBuy : BuysOf(m) # {}

\* The spend stays within the budget, although can_afford, reserve_budget and
\* the refunds of many tasks interleave and refunds stop at zero.
SpendWithinBudget == 0 <= spend /\ spend <= MaxBudget

\* "Every exit path MUST send an ExecutedOrderUpdate" (engine.rs 747): an engine
\* in a pending state still has a task that will report to it, or the report.
Awaited(m, side) ==
    \/ \E o \in Running : /\ task[o].attached /\ task[o].market = m
                          /\ task[o].side = side /\ task[o].pc # "release"
    \/ \E i \in 1..Len(fills[m]) : fills[m][i].side = side

PendingIsAwaited == \A m \in Markets :
    /\ Kind(m) = "PendingBuy" => Awaited(m, "Buy")
    /\ Kind(m) = "PendingSell" => Awaited(m, "Sell")

\* "one active order per token" (guard.rs 28): a market has at most one BUY task.
OneBuyPerMarket == \A m \in Markets : Cardinality(BuysOf(m)) <= 1

\* The BUY tasks implement the abstract pool of slots.
Pool == INSTANCE SlotPool WITH
            Buys <- Orders,
            inFlight <- {<<o, task[o].market>> : o \in RunningBuys}
PoolSpec == Pool!Spec

\* The budget covers the money that is out: reserve_budget before the order and
\* the refund only after the fill never let the account pay more than spend.
SpendCoversPaid == paid <= spend

\* A position the engine believes to hold is there to be sold.
HoldingIsBacked == \A m \in Markets :
    Kind(m) = "Holding" => state[m].amount \in 1..position[<<m, state[m].outcome>>]

\* When nothing is under way the books agree: the ledger with the account's
\* shares and money, and no slot is held.
BooksBalance == Settled =>
    /\ \A t \in Tokens : NetExposure(t) = position[t] - InitialPosition[t]
    /\ realizedPnl = -paid
    /\ buyCount = 0 /\ tokenPendingBuy = {}

\* As long as nothing was sold at a profit, the budget that is used is exactly
\* the money that is out: every reservation came back, once.
BudgetReturned ==
    (Settled /\ \A p \in SellPrices, q \in BuyPrices : p <= q) => spend = paid

\* "MAX_BUDGET # Global max spend (USDC)".
PaidWithinBudget == paid <= MaxBudget

\* The cap on a market is read before the slot is taken, and a BUY left behind by
\* a stopped engine may be booked in between: the YES side passes the cap by one
\* trade at most, however often the engines are stopped and started again.
YesSideCapped == MaxExposure > 0 => \A m \in Markets :
    \E trade \in {0} \union {SnipeSize \div p : p \in BuyPrices} :
        exposures[<<m, "yes">>].yes_qty <= MaxExposure + trade
-----------------------------------------------------------------------------
\* An engine does not stay in a pending state.
PendingResolves == \A m \in Markets :
    Kind(m) \in {"PendingBuy", "PendingSell"} ~> Kind(m) \notin {"PendingBuy", "PendingSell"}

\* Everything under way comes to an end, and every report is handled.
SettlesAgain == []<>Settled
=============================================================================
