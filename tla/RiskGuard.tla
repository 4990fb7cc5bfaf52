----------------------------- MODULE RiskGuard -----------------------------
(***************************************************************************)
(* The shared risk state of the process, src/src/risk/guard.rs: the budget,*)
(* the circuit breaker, the exposure cap and the BUY slots.  The operators *)
(* are the methods of RiskGuard; each constrains only the variables its    *)
(* method writes, so that a caller composes the calls it makes.            *)
(*                                                                         *)
(* Money is counted in ticks, Dollar of them to a dollar; a price is the   *)
(* ticks per share and a quantity a number of shares.  The code uses       *)
(* Decimal for the budget, so sums are exact.  The slots are taken and     *)
(* returned in one step here; BuySlots shows that this is sound.           *)
(***************************************************************************)
EXTENDS Integers

CONSTANTS Markets,            \* market keys (the YES token id)
          MaxBudget,          \* env MAX_BUDGET
          MaxExposure,        \* env MAX_EXPOSURE_PER_MARKET, 0 = unlimited
          MaxConcurrentBuys,  \* env MAX_CONCURRENT_BUYS
          Dollar              \* ticks to a dollar

ASSUME GuardAssumption ==
    /\ MaxBudget \in Nat
    /\ MaxExposure \in Nat
    /\ MaxConcurrentBuys \in Nat \ {0}
    /\ Dollar \in Nat \ {0}

VARIABLES spend,              \* current_total_spend
          frozen,             \* circuit breaker
          buyCount,           \* pending_buy_count
          tokenPendingBuy     \* token_pending_buy

slotVars  == <<buyCount, tokenPendingBuy>>
guardVars == <<spend, frozen, slotVars>>

AtLeastZero(x) == IF x > 0 THEN x ELSE 0
Magnitude(x)   == IF x < 0 THEN -x ELSE x

GuardInit ==
    /\ spend = 0
    /\ frozen = FALSE
    /\ buyCount = 0
    /\ tokenPendingBuy = {}
-----------------------------------------------------------------------------
\* can_afford: a read, no reservation.
CanAfford(cost) == spend + cost <= MaxBudget

\* Mutated form: the budget is not looked at again under the write lock.
ReserveUnchecked(cost) == spend' = spend + cost

\* reserve_budget when it succeeds: compare and add under one write lock.
ReserveBudget(cost) == CanAfford(cost) /\ spend' = spend + cost

\* Mutated form: the .max(Decimal::ZERO) is missing.
ReleaseUnclamped(cost) == spend' = spend - cost

\* release_budget(reservation) and refund_budget_on_sell(price, size): both
\* subtract an amount and stop at zero.
ReleaseBudget(cost) == spend' = AtLeastZero(spend - cost)

\* Mutated form: what was spent is given back instead of what was not.
RefundTheSpent(reserved, actual) == spend' = AtLeastZero(spend - actual)

\* Mutated form: a partial fill keeps its whole reservation.
RefundNothing(reserved, actual) == UNCHANGED spend

\* refund_budget_delta: what a buy reserved beyond its actual cost.
RefundBudgetDelta(reserved, actual) ==
    spend' = AtLeastZero(spend - AtLeastZero(reserved - actual))

\* evaluate_and_act's hibernation test: less than a dollar of budget is left.
Hibernating == MaxBudget > 0 /\ AtLeastZero(MaxBudget - spend) < Dollar

\* Mutated form: only the side that is not bought is compared.
ExposureOneSided(yesQty, noQty) ==
    \/ MaxExposure = 0
    \/ Magnitude(noQty) <= MaxExposure

\* check_market_exposure: both quantities against the cap, signs ignored.
ExposureAllowed(yesQty, noQty) ==
    \/ MaxExposure = 0
    \/ Magnitude(yesQty) <= MaxExposure /\ Magnitude(noQty) <= MaxExposure

\* update_circuit_breaker: freezes at a 20% drawdown, thaws at 15%.
UpdateCircuitBreaker(pnl) ==
    frozen' = IF MaxBudget = 0 THEN frozen
              ELSE IF frozen THEN -100 * pnl > 15 * MaxBudget
                             ELSE -100 * pnl >= 20 * MaxBudget
-----------------------------------------------------------------------------
\* Mutated form: the per-market slot is not consulted.
AcquireGlobalOnly(m) ==
    /\ buyCount < MaxConcurrentBuys
    /\ buyCount' = buyCount + 1
    /\ tokenPendingBuy' = tokenPendingBuy \union {m}

\* try_acquire_global_buy_slot and try_acquire_token_buy_slot, both granted.
AcquireSlots(m) ==
    /\ buyCount < MaxConcurrentBuys
    /\ m \notin tokenPendingBuy
    /\ buyCount' = buyCount + 1
    /\ tokenPendingBuy' = tokenPendingBuy \union {m}

\* Mutated form: the market keeps its slot.
ReleaseGlobalOnly(m) == buyCount' = buyCount - 1 /\ UNCHANGED tokenPendingBuy

\* Mutated form: the global slot is lost.
ReleaseTokenOnly(m) == tokenPendingBuy' = tokenPendingBuy \ {m} /\ UNCHANGED buyCount

\* release_global_buy_slot and release_token_buy_slot.
ReleaseSlots(m) ==
    /\ buyCount' = buyCount - 1
    /\ tokenPendingBuy' = tokenPendingBuy \ {m}

\* release_token_buy_slot alone, as the engine loop calls it.
ReleaseTokenSlot(m) == tokenPendingBuy' = tokenPendingBuy \ {m} /\ UNCHANGED buyCount
=============================================================================
