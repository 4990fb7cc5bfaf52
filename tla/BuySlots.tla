------------------------------ MODULE BuySlots ------------------------------
(***************************************************************************)
(* The BUY slots of RiskGuard at the grain of their atomic operations.     *)
(*                                                                         *)
(* Every attempt to buy (evaluate_and_act, engine.rs 631-682, then the     *)
(* try_fire task it spawns) takes a global slot (an AtomicU8) and then a   *)
(* per-market slot (a DashSet entry), gives back what it took when a later *)
(* check fails, and otherwise keeps both until the order is over.  Attempts*)
(* run on different threads of the runtime, so every fetch_add, fetch_sub, *)
(* insert and remove is a step of its own.  Two attempts may be for the    *)
(* same market: the engine of a stopped market leaves its try_fire tasks   *)
(* behind and a restarted engine tries again.                              *)
(*                                                                         *)
(* The engine also drops a market's slot on its own (engine.rs 286, 344);  *)
(* that is part of SniperEngine, where the slots are taken in one step.    *)
(***************************************************************************)
EXTENDS Integers, FiniteSets

CONSTANTS Attempts,           \* the buy attempts that may overlap
          Markets,            \* market keys (the YES token id)
          MarketOf,           \* the market of each attempt
          MaxConcurrentBuys,  \* env MAX_CONCURRENT_BUYS, a positive u8
          CounterModulus      \* 256 for AtomicU8; smaller to see it wrap

ASSUME AttemptsAssumption == IsFiniteSet(Attempts) /\ MarketOf \in [Attempts -> Markets]
ASSUME SlotsAssumption    == MaxConcurrentBuys \in Nat \ {0}
\* The counter is as wide as the attempts that can overlap: fetch_add wraps.
ASSUME WidthAssumption    == CounterModulus \in Nat /\ Cardinality(Attempts) < CounterModulus

VARIABLES pendingBuyCount,    \* RiskGuard.pending_buy_count
          tokenPendingBuy,    \* RiskGuard.token_pending_buy
          pc                  \* what each attempt does next

vars == <<pendingBuyCount, tokenPendingBuy, pc>>

(***************************************************************************)
(* idle        no buy                                                      *)
(* undo        fetch_add saw a full counter; fetch_sub comes next          *)
(* token       has a global slot; inserts into the per-market set next     *)
(* full        the market is taken; gives the global slot back next        *)
(* afford      has both slots; reads can_afford next                       *)
(* flying      has both slots; its try_fire task runs                      *)
(* dropGlobal  done; fetch_sub next                                        *)
(* dropToken   gave back the global slot; removes the market next          *)
(***************************************************************************)
Counted   == {a \in Attempts : pc[a] \in {"undo", "token", "full", "afford", "flying", "dropGlobal"}}
Winners   == {a \in Attempts : pc[a] \in {"token", "full", "afford", "flying", "dropGlobal"}}
Holders   == {a \in Attempts : pc[a] \in {"afford", "flying", "dropGlobal", "dropToken"}}

Goto(a, l) == pc' = [pc EXCEPT ![a] = l]

Init ==
    /\ pendingBuyCount = 0
    /\ tokenPendingBuy = {}
    /\ pc = [a \in Attempts |-> "idle"]

\* Mutated form: the comparison lets one attempt too many through.
FetchAddOffByOne(a) ==
    /\ pc[a] = "idle"
    /\ Goto(a, IF pendingBuyCount > MaxConcurrentBuys THEN "undo" ELSE "token")
    /\ pendingBuyCount' = (pendingBuyCount + 1) % CounterModulus
    /\ UNCHANGED tokenPendingBuy

\* try_acquire_global_buy_slot: fetch_add, then compare the old value.
FetchAdd(a) ==
    /\ pc[a] = "idle"
    /\ Goto(a, IF pendingBuyCount >= MaxConcurrentBuys THEN "undo" ELSE "token")
    /\ pendingBuyCount' = (pendingBuyCount + 1) % CounterModulus
    /\ UNCHANGED tokenPendingBuy

\* release_global_buy_slot, and the undoing fetch_sub of a refused attempt.
FetchSub(a, from, to) ==
    /\ pc[a] = from
    /\ Goto(a, to)
    /\ pendingBuyCount' = (pendingBuyCount - 1) % CounterModulus
    /\ UNCHANGED tokenPendingBuy

\* try_acquire_global_buy_slot, the refusing branch.
Undo(a) == FetchSub(a, "undo", "idle")

\* Mutated form: the insert's answer is ignored.
InsertTokenUnchecked(a) ==
    /\ pc[a] = "token"
    /\ Goto(a, "afford")
    /\ tokenPendingBuy' = tokenPendingBuy \union {MarketOf[a]}
    /\ UNCHANGED pendingBuyCount

\* try_acquire_token_buy_slot: DashSet::insert tells whether the key was new.
InsertToken(a) ==
    /\ pc[a] = "token"
    /\ Goto(a, IF MarketOf[a] \in tokenPendingBuy THEN "full" ELSE "afford")
    /\ tokenPendingBuy' = tokenPendingBuy \union {MarketOf[a]}
    /\ UNCHANGED pendingBuyCount

\* Mutated form: a refused attempt also drops the market it did not get.
GiveBackBoth(a) ==
    /\ pc[a] = "full"
    /\ Goto(a, "idle")
    /\ pendingBuyCount' = (pendingBuyCount - 1) % CounterModulus
    /\ tokenPendingBuy' = tokenPendingBuy \ {MarketOf[a]}

\* Mutated form: the early return forgets release_global_buy_slot.
GiveBackNothing(a) ==
    /\ pc[a] = "full"
    /\ Goto(a, "idle")
    /\ UNCHANGED <<pendingBuyCount, tokenPendingBuy>>

\* The market already has a pending buy: release_global_buy_slot, no order.
GiveBack(a) == FetchSub(a, "full", "idle")

\* can_afford, whose answer depends on the budget: spawn try_fire or release.
CheckAfford(a) ==
    /\ pc[a] = "afford"
    /\ \E l \in {"flying", "dropGlobal"} : Goto(a, l)
    /\ UNCHANGED <<pendingBuyCount, tokenPendingBuy>>

\* The order is over, whatever its outcome.
Finish(a) ==
    /\ pc[a] = "flying"
    /\ Goto(a, "dropGlobal")
    /\ UNCHANGED <<pendingBuyCount, tokenPendingBuy>>

\* release_global_buy_slot, then release_token_buy_slot, in this order.
ReleaseGlobal(a) == FetchSub(a, "dropGlobal", "dropToken")

ReleaseToken(a) ==
    /\ pc[a] = "dropToken"
    /\ Goto(a, "idle")
    /\ tokenPendingBuy' = tokenPendingBuy \ {MarketOf[a]}
    /\ UNCHANGED pendingBuyCount

Step(a) ==
    \/ FetchAdd(a) \/ Undo(a) \/ InsertToken(a) \/ GiveBack(a)
    \/ CheckAfford(a) \/ Finish(a) \/ ReleaseGlobal(a) \/ ReleaseToken(a)

Next == \E a \in Attempts : Step(a)

Spec == Init /\ [][Next]_vars
-----------------------------------------------------------------------------
PCs == {"idle", "undo", "token", "full", "afford", "flying", "dropGlobal", "dropToken"}

\* The counter stays in the range of its type, the set holds market keys.
TypeOK ==
    /\ pendingBuyCount \in 0..CounterModulus - 1
    /\ tokenPendingBuy \subseteq Markets
    /\ pc \in [Attempts -> PCs]

\* The counter counts the attempts between their fetch_add and fetch_sub, each
\* once, although refused attempts pass through it: no path of evaluate_and_act
\* or try_fire releases twice or forgets to, and the u8 never wraps.
CounterExact == pendingBuyCount = Cardinality(Counted)

\* However the increments interleave, no more than MaxConcurrentBuys attempts
\* hold a global slot ("Max 2 for small accounts", guard.rs 27), also while
\* refused attempts overshoot the counter.
GlobalCap == Cardinality(Winners) <= MaxConcurrentBuys

\* The per-market set names exactly the markets of the attempts that own an
\* entry, and no two attempts own the same one ("one active order per token",
\* guard.rs 28): a refused attempt never removes the owner's entry.
TokenExclusive ==
    /\ tokenPendingBuy = {MarketOf[a] : a \in Holders}
    /\ \A a, b \in Holders : MarketOf[a] = MarketOf[b] => a = b

\* The buys in flight, from the successful can_afford to the first release,
\* behave as the abstract pool: entering and leaving it look atomic.
Flying   == {a \in Attempts : pc[a] = "flying"}
InFlight == {<<a, MarketOf[a]>> : a \in Flying}

Pool == INSTANCE SlotPool WITH Buys <- Attempts, inFlight <- InFlight

PoolSpec == Pool!Spec
=============================================================================
