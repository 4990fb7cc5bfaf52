--------------------------- MODULE CircuitBreaker ---------------------------
(***************************************************************************)
(* The circuit breaker at the grain at which engines race for it:          *)
(* evaluate_and_act asks is_frozen some steps before it fires, and an      *)
(* engine that hears of a fill adds up the realized P&L of the tokens one  *)
(* after the other (src/src/risk/inventory.rs) before it updates the       *)
(* breaker (src/src/risk/guard.rs), while other engines do the same and    *)
(* order tasks book fills.                                                 *)
(*                                                                         *)
(* An order outlives its task: one that is given up is not cancelled, and  *)
(* what it buys or sells later is seen as the fill of another order or     *)
(* adopted by the next engine.                                             *)
(*                                                                         *)
(* Money is in percent of MAX_BUDGET, a position in lots; a purchase is of *)
(* one lot.  Whether there is an edge, a slot and a budget is left to      *)
(* chance.                                                                 *)
(***************************************************************************)
EXTENDS Integers, FiniteSets, Functions

CONSTANTS Markets,            \* one engine and one token each
          Orders,             \* try_fire tasks
          Costs,              \* what the purchase of a lot may cost
          Proceeds,           \* what the sale of a lot may bring
          MaxTrades           \* bound on the orders fired

ASSUME BreakerAssumption ==
    /\ IsFiniteSet(Markets) /\ Markets # {}
    /\ Costs \subseteq Nat \ {0} /\ Proceeds \subseteq Nat
    /\ MaxTrades \in Nat

FREEZE_THRESHOLD == 20
THAW_THRESHOLD   == 15

VARIABLES frozen,             \* the breaker
          realizedPnl,        \* realized_pnl of each token
          net,                \* what the ledger holds of each token
          shares,             \* what the account holds of it
          resting,            \* lots of open orders at the exchange
          engine,             \* where each engine is
          fold,               \* get_total_realized_pnl under way in an engine
          task,               \* the order tasks and the reports they send
          trades,             \* orders fired so far
          late,               \* purchases fired since the breaker froze
          sold,               \* a sale has been booked
          fresh,              \* engines whose fold began after the last booking
          exact               \* the last update was by such an engine

ledger  == <<realizedPnl, net>>
account == <<shares, resting>>
history == <<sold, fresh, exact>>
vars == <<frozen, ledger, account, engine, fold, task, trades, late, history>>

(***************************************************************************)
(* Gone     no engine              Empty, PendingBuy, Holding, PendingSell *)
(* Cleared  evaluate_and_act has seen the breaker open                     *)
(* Feeding  adds up the P&L, to update the breaker                         *)
(***************************************************************************)
EngineStates == {"Gone", "Empty", "Cleared", "PendingBuy", "Holding", "PendingSell", "Feeding"}
Selecting    == EngineStates \ {"Gone", "Cleared", "Feeding"}
Sides        == {"Buy", "Sell"}

NoFold   == [left |-> {}, sum |-> 0, next |-> "Empty"]
IdleTask == [pc |-> "idle", market |-> CHOOSE m \in Markets : TRUE, side |-> "Buy",
             size |-> 0,
             before |-> 0,          \* the position it read before it posted
             orphan |-> FALSE,      \* its engine has left, and the channel with it
             rest |-> FALSE]        \* lots were left after its fill
Heard(o)     == task' = [task EXCEPT ![o] = IdleTask]
Become(m, k) == engine' = [engine EXCEPT ![m] = k]

\* sync_token_position, or the ledger's idea of the position when that fails.
Positions(m) == {shares[m], IF net[m] > 0 THEN net[m] ELSE 0}

Init ==
    /\ frozen = FALSE
    /\ realizedPnl = [m \in Markets |-> 0]
    /\ net = [m \in Markets |-> 0]
    /\ shares = [m \in Markets |-> 0]
    /\ resting = [m \in Markets |-> [s \in Sides |-> 0]]
    /\ engine = [m \in Markets |-> "Empty"]
    /\ fold = [m \in Markets |-> NoFold]
    /\ task = [o \in Orders |-> IdleTask]
    /\ trades = 0
    /\ late = [m \in Markets |-> 0]
    /\ sold = FALSE
    /\ fresh = {}
    /\ exact = TRUE
-----------------------------------------------------------------------------
\* Mutated form: the breaker is not asked.
ClearAlways(m) ==
    /\ engine[m] = "Empty"
    /\ Become(m, "Cleared")
    /\ UNCHANGED <<frozen, ledger, account, fold, task, trades, late, history>>

\* evaluate_and_act in Empty: is_frozen.
Clear(m) ==
    /\ engine[m] = "Empty"
    /\ ~frozen
    /\ Become(m, "Cleared")
    /\ UNCHANGED <<frozen, ledger, account, fold, task, trades, late, history>>

\* No edge, no exposure left, no slot or no budget.
Decline(m) ==
    /\ engine[m] = "Cleared"
    /\ Become(m, "Empty")
    /\ UNCHANGED <<frozen, ledger, account, fold, task, trades, late, history>>

\* tokio::spawn(try_fire(...))
Fire(m, o, side, size) ==
    /\ task[o].pc = "idle"
    /\ trades < MaxTrades
    /\ trades' = trades + 1
    /\ task' = [task EXCEPT ![o] = [IdleTask EXCEPT !.pc = "spawned", !.market = m,
                                                    !.side = side, !.size = size]]
    /\ UNCHANGED <<frozen, ledger, account, fold, history>>

Buy(m, o) ==
    /\ engine[m] = "Cleared"
    /\ Become(m, "PendingBuy")
    /\ late' = IF frozen THEN [late EXCEPT ![m] = @ + 1] ELSE late
    /\ Fire(m, o, "Buy", 1)

\* The Holding branch does not ask the breaker.  It sells no more than the engine
\* holds and the position it has read.
Sell(m, o) ==
    /\ engine[m] = "Holding"
    /\ \E read \in Positions(m) : \E size \in 1..read : Fire(m, o, "Sell", size)
    /\ Become(m, "PendingSell")
    /\ UNCHANGED late

\* The sleep arm gives up waiting for a task that still runs.
Watchdog(m) ==
    /\ engine[m] \in {"PendingBuy", "PendingSell"}
    /\ Become(m, IF engine[m] = "PendingBuy" THEN "Empty" ELSE "Holding")
    /\ UNCHANGED <<frozen, ledger, account, fold, task, trades, late, history>>

\* The engine cancels the open orders, as far as the exchange lets it, and leaves;
\* its tasks run on and may post yet.
Stop(m) ==
    /\ engine[m] \in Selecting
    /\ Become(m, "Gone")
    /\ \E b \in 0..resting[m]["Buy"], s \in 0..resting[m]["Sell"] :
           resting' = [resting EXCEPT ![m] = [Buy |-> b, Sell |-> s]]
    /\ task' = [o \in Orders |-> IF task[o].pc # "idle" /\ task[o].market = m
                                 THEN [task[o] EXCEPT !.orphan = TRUE] ELSE task[o]]
    /\ UNCHANGED <<frozen, ledger, shares, fold, trades, late, history>>

\* Mutated form: a new engine starts with an open breaker.
StartThawed(m) ==
    /\ engine[m] = "Gone"
    /\ \E read \in Positions(m) : Become(m, IF read > 0 THEN "Holding" ELSE "Empty")
    /\ frozen' = FALSE
    /\ UNCHANGED <<ledger, account, fold, task, trades, late, history>>

\* run_sniper_task adopts what it takes the account to hold.
Start(m) ==
    /\ engine[m] = "Gone"
    /\ \E read \in Positions(m) : Become(m, IF read > 0 THEN "Holding" ELSE "Empty")
    /\ UNCHANGED <<frozen, ledger, account, fold, task, trades, late, history>>
-----------------------------------------------------------------------------
\* The position is read and the order posted; n lots of it are open at the exchange.
Send(o, n, pc, before) ==
    /\ task[o].pc = "spawned"
    /\ resting' = [resting EXCEPT ![task[o].market][task[o].side] = @ + n]
    /\ task' = [task EXCEPT ![o].pc = pc, ![o].before = before]
    /\ UNCHANGED <<frozen, ledger, shares, engine, fold, trades, late, history>>

Post(o) == \E before \in Positions(task[o].market) : Send(o, task[o].size, "placed", before)

\* No budget, an order that is refused, or one whose answer is an error or late:
\* then it may have been accepted all the same, and is not cancelled.
NotPlaced(o) == \E n \in 0..task[o].size : Send(o, n, "failed", 0)

\* The exchange fills a lot of an open order, of a task that waits for it or not.
ExchangeFill(m, side) ==
    /\ resting[m][side] > 0
    /\ side = "Sell" => shares[m] > 0
    /\ resting' = [resting EXCEPT ![m][side] = @ - 1]
    /\ shares' = [shares EXCEPT ![m] = IF side = "Buy" THEN @ + 1 ELSE @ - 1]
    /\ UNCHANGED <<frozen, ledger, engine, fold, task, trades, late, history>>

\* The position after the wait, or the one before it when reading it fails.
After(o) == {shares[task[o].market], task[o].before}

\* The position has not moved the order's way: the task gives up, the order stays open.
Unfilled(o) ==
    /\ task[o].pc = "placed"
    /\ \E after \in After(o) :
           IF task[o].side = "Buy" THEN after <= task[o].before ELSE after >= task[o].before
    /\ task' = [task EXCEPT ![o].pc = "failed"]
    /\ UNCHANGED <<frozen, ledger, account, engine, fold, trades, late, history>>

\* apply_fill of what the position has moved, whichever order moved it, and the
\* successful report.  What is not filled of the order stays open.
Booked(o, lots, cash) ==
    /\ net' = [net EXCEPT ![task[o].market] = @ + lots]
    /\ realizedPnl' = [realizedPnl EXCEPT ![task[o].market] = @ + cash]
    /\ task' = [task EXCEPT ![o].pc = "filled", ![o].rest = shares[task[o].market] > 0]
    /\ fresh' = {} /\ exact' = FALSE
    /\ UNCHANGED <<frozen, account, engine, fold, trades, late>>

\* A purchase costs its whole price.
FillBuy(o) ==
    /\ task[o].pc = "placed" /\ task[o].side = "Buy"
    /\ LET filled == shares[task[o].market] - task[o].before
       IN  filled > 0 /\ \E c \in Costs : Booked(o, filled, -(c * filled))
    /\ UNCHANGED sold

FillSell(o) ==
    /\ task[o].pc = "placed" /\ task[o].side = "Sell"
    /\ LET filled == task[o].before - shares[task[o].market]
       IN  filled > 0 /\ \E p \in Proceeds : Booked(o, -filled, p * filled)
    /\ sold' = TRUE

\* The report of a task whose engine has left is lost.
Unheard(o) ==
    /\ task[o].pc \in {"filled", "failed"} /\ task[o].orphan
    /\ Heard(o)
    /\ UNCHANGED <<frozen, ledger, account, engine, fold, trades, late, history>>
-----------------------------------------------------------------------------
\* The fill_rx arm takes a report of its own task.
Receive(m, o, pc) ==
    /\ task[o].pc = pc /\ task[o].market = m /\ ~task[o].orphan
    /\ engine[m] \in Selecting
    /\ Heard(o)

\* A report of success that changes the state of the engine.
Expected(m, o) ==
    \/ task[o].side = "Buy" /\ engine[m] \in {"PendingBuy", "Empty"}
    \/ task[o].side = "Sell" /\ engine[m] = "PendingSell"

\* The fill_rx arm, success: the engine adds up the P&L before it goes on.
HearFill(m, o) ==
    /\ Receive(m, o, "filled")
    /\ Expected(m, o)
    /\ Become(m, "Feeding")
    /\ fold' = [fold EXCEPT ![m] =
           [left |-> Markets, sum |-> 0,
            next |-> IF task[o].side = "Buy" \/ task[o].rest THEN "Holding" ELSE "Empty"]]
    /\ fresh' = fresh \cup {m}
    /\ UNCHANGED <<frozen, ledger, account, trades, late, sold, exact>>

\* The fill_rx arm, (s, _, _) => s: the breaker does not hear of this fill.
Ignore(m, o) ==
    /\ Receive(m, o, "filled")
    /\ ~Expected(m, o)
    /\ UNCHANGED <<frozen, ledger, account, engine, fold, trades, late, history>>

\* The fill_rx arm, failure: the breaker is not updated.
HearFailure(m, o) ==
    /\ Receive(m, o, "failed")
    /\ Become(m, CASE engine[m] = "PendingBuy" /\ task[o].side = "Buy"   -> "Empty"
                   [] engine[m] = "PendingSell" /\ task[o].side = "Sell" -> "Holding"
                   [] OTHER                                              -> engine[m])
    /\ UNCHANGED <<frozen, ledger, account, fold, trades, late, history>>

\* get_total_realized_pnl visits one more token.
Add(m, n) ==
    /\ engine[m] = "Feeding" /\ n \in fold[m].left
    /\ fold' = [fold EXCEPT ![m].left = @ \ {n}, ![m].sum = @ + realizedPnl[n]]
    /\ UNCHANGED <<frozen, ledger, account, engine, task, trades, late, history>>

\* Mutated form: a drawdown that only reaches the limit passes, and there is no hysteresis.
TrippedAbove(drawdown) == drawdown > FREEZE_THRESHOLD

\* Mutated form: one limit for both directions.
TrippedEarly(drawdown) == drawdown >= THAW_THRESHOLD

\* Whether update_circuit_breaker leaves the breaker frozen.
Tripped(drawdown) ==
    IF frozen THEN drawdown > THAW_THRESHOLD ELSE drawdown >= FREEZE_THRESHOLD

\* update_circuit_breaker
Update(m) ==
    /\ engine[m] = "Feeding" /\ fold[m].left = {}
    /\ frozen' = Tripped(-fold[m].sum)
    /\ late' = IF frozen' /\ ~frozen THEN [n \in Markets |-> 0] ELSE late
    /\ Become(m, fold[m].next)
    /\ fold' = [fold EXCEPT ![m] = NoFold]
    /\ exact' = (m \in fresh) /\ fresh' = fresh \ {m}
    /\ UNCHANGED <<ledger, account, task, trades, sold>>
-----------------------------------------------------------------------------
EngineStep(m) ==
    \/ Clear(m) \/ Decline(m) \/ Watchdog(m) \/ Stop(m) \/ Start(m) \/ Update(m)
    \/ \E o \in Orders : Buy(m, o) \/ Sell(m, o) \/ HearFill(m, o) \/ Ignore(m, o) \/ HearFailure(m, o)
    \/ \E n \in Markets : Add(m, n)

TaskStep(o) ==
    Post(o) \/ NotPlaced(o) \/ Unfilled(o) \/ FillBuy(o) \/ FillSell(o) \/ Unheard(o)

Next ==
    \/ \E m \in Markets : EngineStep(m)
    \/ \E o \in Orders : TaskStep(o)
    \/ \E m \in Markets, side \in Sides : ExchangeFill(m, side)

Spec == Init /\ [][Next]_vars
-----------------------------------------------------------------------------
TypeOK ==
    /\ frozen \in BOOLEAN /\ sold \in BOOLEAN /\ exact \in BOOLEAN
    /\ realizedPnl \in [Markets -> Int] /\ net \in [Markets -> Int]
    /\ shares \in [Markets -> Nat] /\ resting \in [Markets -> [Sides -> Nat]]
    /\ engine \in [Markets -> EngineStates]
    /\ fold \in [Markets -> [left : SUBSET Markets, sum : Int, next : {"Empty", "Holding"}]]
    /\ task \in [Orders -> [pc : {"idle", "spawned", "placed", "filled", "failed"},
                            market : Markets, side : Sides, size : Nat, before : Nat,
                            orphan : BOOLEAN, rest : BOOLEAN]]
    /\ trades \in 0..MaxTrades
    /\ late \in [Markets -> Nat]
    /\ fresh \subseteq Markets

\* "freezes all BUY" (README): between the check and the order the breaker may
\* freeze, so each engine may fire once more, and only once: neither a report nor
\* the watchdog nor a restart gives it a second purchase while the freeze lasts.
LateBuysBounded == frozen => \A m \in Markets : late[m] <= 1

\* Nothing is held, by the account or by the ledger, nothing is ordered, open at the
\* exchange, reported or cleared.
Quiet ==
    /\ \A m \in Markets : /\ shares[m] = 0 /\ net[m] <= 0
                          /\ \A s \in Sides : resting[m][s] = 0
                          /\ engine[m] \notin {"Cleared", "Feeding"}
    /\ \A o \in Orders : task[o].pc = "idle"

\* A breaker that is frozen with nothing held stays frozen, whatever is stopped and
\* started: only a fill updates it, and there can be none (guard.rs 146).  An order
\* that was given up and is still open keeps the account from being quiet: what it
\* buys is adopted and sold, and the sale may thaw the breaker.
FrozenForGood == [][frozen /\ Quiet => frozen' /\ Quiet']_vars

DrawDown == -SumFunctionOnSet(realizedPnl, Markets)

\* What a stale total decided is put right by the first update whose walk over the
\* tokens began after the last fill was booked: from then on the breaker is frozen
\* from 20% and open up to 15% of the present drawdown, though every engine reads the
\* tokens one by one and in an order of its own (inventory.rs 196, guard.rs 143).
HysteresisExact == exact =>
    /\ DrawDown >= FREEZE_THRESHOLD => frozen
    /\ DrawDown <= THAW_THRESHOLD => ~frozen

\* A stale or half-read total never freezes too early: while only purchases have
\* been booked, whoever froze the breaker, the drawdown is 20% at least.
FreezeEarned == frozen /\ ~sold => DrawDown >= FREEZE_THRESHOLD

\* "freezes at a loss of 20%" (README 251): nothing is lost before something was sold.
FreezesOnLoss == frozen => sold
=============================================================================
