------------------------------ MODULE SlotPool ------------------------------
(***************************************************************************)
(* What RiskGuard's BUY slots promise (src/src/risk/guard.rs, fields       *)
(* pending_buy_count and token_pending_buy): at most MaxConcurrentBuys BUY *)
(* orders are in flight, and at most one of them per market.  A buy enters *)
(* and leaves the pool in one step.  BuySlots implements it with an atomic *)
(* counter and a concurrent set, SniperEngine with its try_fire tasks.     *)
(***************************************************************************)
EXTENDS Naturals, FiniteSets

CONSTANTS Buys,               \* the BUY orders that may ever be in flight
          Markets,            \* the markets they buy in
          MaxConcurrentBuys   \* env MAX_CONCURRENT_BUYS, default 2

VARIABLE inFlight             \* pairs <<buy, market>>

Init == inFlight = {}

Acquire(b, m) ==
    /\ Cardinality(inFlight) < MaxConcurrentBuys
    /\ \A other \in inFlight : other[1] # b /\ other[2] # m
    /\ inFlight' = inFlight \union {<<b, m>>}

Release(b, m) ==
    /\ <<b, m>> \in inFlight
    /\ inFlight' = inFlight \ {<<b, m>>}

Next == \E b \in Buys, m \in Markets : Acquire(b, m) \/ Release(b, m)

Spec == Init /\ [][Next]_inFlight
=============================================================================
