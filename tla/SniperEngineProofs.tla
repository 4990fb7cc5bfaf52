------------------------- MODULE SniperEngineProofs -------------------------
(***************************************************************************)
(* Theorems about the trading core, for any number of markets and orders,  *)
(* any prices and budgets.  In this order:                                 *)
(*   the types; the BUY slots; the budget; the reports an engine waits for;*)
(*   one BUY per market, and the pool of slots as a refinement;            *)
(*   the terms of an order, what a buy can be filled with, and the cap on a*)
(*   market's YES side;                                                    *)
(*   what backs a holding, as long as no engine leaves its task behind;    *)
(*   and, as long as nothing goes wrong, the ledger and the money:         *)
(*   payments, reservations and refunds.                                   *)
(* Each theorem names the faults it is proved against; one that names none *)
(* holds for every set of faults.                                          *)
(***************************************************************************)
EXTENDS SniperEngine, FiniteSetTheorems, SequenceTheorems, Sums, TLAPS

LEMMA ProductNat == \A x, y \in Nat : x * y \in Nat
OBVIOUS

LEMMA ProductInt == \A x, y \in Int : x * y \in Int
OBVIOUS

LEMMA ProductLaws ==
    \A a, b, c \in Int : /\ a * (b + c) = a * b + a * c
                         /\ a * (b - c) = a * b - a * c
                         /\ a * (-b) = -(a * b)
                         /\ a * b = b * a
                         /\ a * 0 = 0
OBVIOUS

LEMMA ProductOrder ==
    \A a \in Nat : \A b, c \in Int : b <= c => a * b <= a * c
OBVIOUS

\* A nonempty set of naturals has a smallest element.
LEMMA SmallestOf ==
    ASSUME NEW S, S \subseteq Nat, S # {}
    PROVE  \E x \in S : \A y \in S : x <= y
<1>1. PICK q \in S : TRUE
  OBVIOUS
<1> DEFINE N == 0..q
           F == {0..x : x \in S \cap N}
<1>2. PICK T \in F : \A U \in F : U \subseteq T => U = T
  <2>1. IsFiniteSet(N)
    BY <1>1, FS_Interval
  <2>2. F \subseteq SUBSET N
    OBVIOUS
  <2>3. q \in S \cap N
    OBVIOUS
  <2>4. F # {}
    BY <2>3
  <2> HIDE DEF F, N
  <2> QED
    BY <2>1, <2>2, <2>4, SmallestSubset
<1>3. PICK x \in S \cap N : T = 0..x
  BY <1>2
<1>4. ASSUME NEW y \in S, y < x PROVE FALSE
  <2>1. y \in Nat /\ x \in Nat /\ y \in N
    BY <1>4
  <2>2. 0..y \in F
    BY <2>1
  <2>3. 0..y \subseteq 0..x /\ x \in 0..x /\ x \notin 0..y
    BY <2>1, <1>4
  <2> QED
    BY <1>2, <1>3, <2>2, <2>3
<1>5. \A y \in S : x <= y
  BY <1>3, <1>4
<1> QED
  BY <1>3, <1>5

\* The records the actions write have the types TypeOK asks for.
LEMMA RecordTypes ==
    /\ Stopped \in StateType /\ Empty \in StateType /\ PendingBuy \in StateType
    /\ \A s \in Outcomes, n, p \in Nat :
          /\ Deciding(s, n, p) \in StateType
          /\ Holding(s, n) \in StateType
          /\ PendingSell(s, n) \in StateType
    /\ IdleTask \in TaskType /\ DoneTask \in TaskType
<1>1. (CHOOSE m \in Markets : TRUE) \in Markets
  BY EngineAssumption
<1> QED
  BY <1>1 DEF Stopped, Empty, PendingBuy, Deciding, Holding, PendingSell, StateType, Kinds,
              Outcomes, IdleTask, DoneTask, TaskType, PCs, Active

LEMMA TypesInitially == Init => TypeOK
<1> SUFFICES ASSUME Init PROVE TypeOK
  OBVIOUS
<1> USE DEF Init
<1>1. spend \in Nat /\ buyCount \in Int /\ tokenPendingBuy \subseteq Markets
  BY DEF GuardInit
<1>6. frozen \in BOOLEAN
  BY Zenon DEF GuardInit
<1>2. /\ exposures \in [Tokens -> [yes_qty : Int, no_qty : Int]]
      /\ realizedPnl \in Int
  BY DEF InventoryInit
<1>3. position \in [Tokens -> Nat] /\ openOrders \subseteq OrderType /\ paid \in Int
  BY EngineAssumption DEF ExchangeInit
<1>4. /\ state \in [Markets -> StateType]
      /\ cooldown \in [Markets -> BOOLEAN]
      /\ task \in [Orders -> TaskType]
  BY RecordTypes
<1>5. fills \in [Markets -> Seq(UpdateType)]
  OBVIOUS
<1> QED
  BY <1>1, <1>2, <1>3, <1>4, <1>5, <1>6 DEF TypeOK

\* What a task knows of itself.
LEMMA TaskFacts ==
    ASSUME TypeOK, NEW o \in Orders
    PROVE  /\ task[o].market \in Markets /\ task[o].outcome \in Outcomes
           /\ task[o].side \in {"Buy", "Sell"} /\ task[o].price \in Nat
           /\ task[o].size \in Nat /\ task[o].before \in Nat
           /\ task[o].attached \in BOOLEAN
           /\ Token(o) \in Tokens
           /\ Notional(o) \in Nat /\ Reserved(o) \in Nat
<1>1. task[o] \in TaskType
  BY DEF TypeOK
<1>2. Token(o) \in Tokens
  BY <1>1, EngineAssumption DEF Token, TaskType
<1>3. Notional(o) \in Nat
  BY <1>1, ProductNat DEF Notional, TaskType
<1> QED
  BY <1>1, <1>2, <1>3 DEF TaskType, Reserved

LEMMA GotoType ==
    ASSUME TypeOK, NEW o \in Orders, NEW l \in PCs, Goto(o, l)
    PROVE  task' \in [Orders -> TaskType]
<1>1. [task[o] EXCEPT !.pc = l] \in TaskType
  BY DEF TypeOK, TaskType
<1>2. task' = [task EXCEPT ![o] = [task[o] EXCEPT !.pc = l]]
  BY DEF Goto, TypeOK
<1> QED
  BY <1>1, <1>2 DEF TypeOK

LEMMA PositionFacts ==
    ASSUME TypeOK, NEW t \in Tokens
    PROVE  /\ position[t] \in Nat /\ LocalPosition(t) \in Nat
           /\ Synced(t) \subseteq Nat
BY DEF TypeOK, LocalPosition, AtLeastZero, NetExposure, Synced

LEMMA BreakerType ==
    ASSUME frozen \in BOOLEAN, NEW pnl \in Int, UpdateCircuitBreaker(pnl)
    PROVE  frozen' \in BOOLEAN
<1>1. /\ (-100 * pnl > 15 * MaxBudget) \in BOOLEAN
      /\ (-100 * pnl >= 20 * MaxBudget) \in BOOLEAN
  BY GuardAssumption
<1> QED
  BY <1>1, Zenon DEF UpdateCircuitBreaker

\* A report keeps the channels well typed.
LEMMA ReportType ==
    ASSUME TypeOK, NEW o \in Orders, NEW size \in Nat, NEW synced \in Nat,
           Report(o, size, synced)
    PROVE  fills' \in [Markets -> Seq(UpdateType)]
<1> DEFINE u == [side |-> task[o].side, outcome |-> task[o].outcome,
                 price |-> task[o].price, size |-> size,
                 synced |-> synced, reserved |-> Reserved(o)]
<1>1. u \in UpdateType
  BY TaskFacts DEF UpdateType
<1>2. CASE task[o].attached
  <2>1. fills' = [fills EXCEPT ![task[o].market] = Append(@, u)]
    BY <1>2 DEF Report
  <2>2. Append(fills[task[o].market], u) \in Seq(UpdateType)
    BY <1>1, TaskFacts DEF TypeOK
  <2> QED
    BY <2>1, <2>2 DEF TypeOK
<1>3. CASE ~task[o].attached
  BY <1>3 DEF Report, TypeOK
<1> QED
  BY <1>2, <1>3

LEMMA RollBackType ==
    ASSUME TypeOK, NEW o \in Orders, NEW budget \in Nat, NEW synced \in Nat,
           RollBack(o, budget, synced)
    PROVE  /\ spend' \in Nat /\ buyCount' \in Int /\ tokenPendingBuy' \subseteq Markets
           /\ fills' \in [Markets -> Seq(UpdateType)]
           /\ task' \in [Orders -> TaskType]
<1>1. fills' \in [Markets -> Seq(UpdateType)]
  BY ReportType DEF RollBack
<1>2. task' \in [Orders -> TaskType]
  BY RecordTypes DEF RollBack, TypeOK
<1> QED
  BY <1>1, <1>2, TaskFacts
     DEF RollBack, ReleaseBudget, AtLeastZero, FreeSlots, ReleaseSlots, slotVars, TypeOK
-----------------------------------------------------------------------------
(***************************************************************************)
(* TypeOK, one lemma for the engine's steps and one for the tasks'.        *)
(***************************************************************************)
LEMMA HandleFillType ==
    ASSUME TypeOK, NEW m \in Markets, HandleFill(m)
    PROVE  TypeOK'
<1> DEFINE u == Head(fills[m])
<1>1. fills[m] \in Seq(UpdateType) /\ fills[m] # <<>>
  BY DEF TypeOK, HandleFill
<1>2. u \in UpdateType /\ Tail(fills[m]) \in Seq(UpdateType)
  BY <1>1
<1>3. fills' \in [Markets -> Seq(UpdateType)]
  BY <1>2 DEF HandleFill, TypeOK
<1>4. /\ u.outcome \in Outcomes /\ u.size \in Nat /\ u.synced \in Nat
      /\ u.reserved \in Nat /\ u.price * u.size \in Nat
  BY <1>2, ProductNat DEF UpdateType
<1>5. state[m] \in StateType /\ state[m].outcome \in Outcomes /\ state[m].amount \in Nat
  BY DEF TypeOK, StateType
<1>6. /\ spend' \in Nat /\ frozen' \in BOOLEAN /\ buyCount' \in Int
      /\ tokenPendingBuy' \subseteq Markets
      /\ state' \in [Markets -> StateType] /\ cooldown' \in [Markets -> BOOLEAN]
  <2> USE DEF TypeOK
  <2>1. CASE Bought(m, u)
    <3>1. spend' \in Nat
      BY <2>1, <1>4 DEF Bought, RefundBudgetDelta, AtLeastZero
    <3>2. frozen' \in BOOLEAN
      BY <2>1, BreakerType DEF Bought
    <3>3. state' \in [Markets -> StateType]
      BY <2>1, <1>4, RecordTypes DEF Bought, Become
    <3> QED
      BY <2>1, <3>1, <3>2, <3>3 DEF Bought, slotVars
  <2>2. CASE BuyFailed(m, u)
    BY <2>2, RecordTypes DEF BuyFailed, Become, ReleaseTokenSlot
  <2>3. CASE Sold(m, u)
    <3>1. frozen' \in BOOLEAN
      BY <2>3, BreakerType DEF Sold
    <3>2. state' \in [Markets -> StateType]
      BY <2>3, <1>4, <1>5, RecordTypes DEF Sold, Become
    <3> QED
      BY <2>3, <3>1, <3>2 DEF Sold, slotVars
  <2>4. CASE SellFailed(m, u)
    BY <2>4, <1>5, RecordTypes DEF SellFailed, Become, guardVars, slotVars
  <2>5. CASE Ignored(m, u)
    BY <2>5 DEF Ignored, guardVars, slotVars
  <2> QED
    BY <2>1, <2>2, <2>3, <2>4, <2>5 DEF HandleFill
<1> QED
  BY <1>3, <1>6 DEF HandleFill, TypeOK, inventoryVars, exchangeVars

LEMMA EngineStepType ==
    ASSUME TypeOK, NEW m \in Markets, EngineStep(m)
    PROVE  TypeOK'
<1> USE DEF guardVars, slotVars, inventoryVars, exchangeVars, engineVars, Become, Kind
<1>1. state[m] \in StateType /\ state[m].outcome \in Outcomes
      /\ state[m].amount \in Nat /\ state[m].price \in Nat
  BY DEF TypeOK, StateType
<1>2. CASE Start(m)
  <2>1. \A s \in Outcomes : Synced(<<m, s>>) \subseteq Nat
    BY PositionFacts, EngineAssumption
  <2>2. \A yes \in Synced(<<m, "yes">>), no \in Synced(<<m, "no">>) :
           (IF yes > 0 THEN Holding("yes", yes)
            ELSE IF no > 0 THEN Holding("no", no) ELSE Empty) \in StateType
    BY <2>1, RecordTypes DEF Outcomes
  <2>3. state' \in [Markets -> StateType]
    BY <1>2, <2>2 DEF Start, TypeOK
  <2> QED
    BY <1>2, <2>3 DEF Start, TypeOK
<1>3. CASE Stop(m)
  <2>1. openOrders' \subseteq openOrders
    BY <1>3 DEF Stop, CancelTokens
  <2>2. task' \in [Orders -> TaskType]
    <3>1. \A r \in TaskType : [r EXCEPT !.attached = FALSE] \in TaskType
      BY DEF TaskType
    <3>2. \A o \in Orders : task[o] \in TaskType
      BY DEF TypeOK
    <3> QED
      BY <1>3, <3>1, <3>2 DEF Stop
  <2> QED
    BY <1>3, <2>1, <2>2, RecordTypes DEF Stop, TypeOK
<1>4. CASE GiveUp(m)
  BY <1>4, RecordTypes DEF GiveUp, TypeOK
<1>5. CASE CooldownOver(m)
  BY <1>5 DEF CooldownOver, TypeOK
<1>6. CASE Watchdog(m)
  <2>1. PICK s \in StateType : Become(m, s)
    BY <1>6, <1>1, RecordTypes DEF Watchdog
  <2>2. state' \in [Markets -> StateType]
    BY <2>1 DEF TypeOK
  <2> QED
    BY <1>6, <2>2 DEF Watchdog, ReleaseTokenSlot, TypeOK
<1>7. CASE HandleFill(m)
  BY <1>7, HandleFillType
<1>8. ASSUME NEW s \in Outcomes, NEW p \in BuyPrices, Consider(m, s, p)
      PROVE  TypeOK'
  <2>1. SnipeSize \div p \in Nat /\ p \in Nat
    BY EngineAssumption
  <2>2. state' \in [Markets -> StateType]
    BY <1>8, <2>1, RecordTypes DEF Consider, TypeOK
  <2> QED
    BY <1>8, <2>2 DEF Consider, TypeOK
<1>9. ASSUME NEW o \in Orders, Buy(m, o)
      PROVE  TypeOK'
  <2>1. task' \in [Orders -> TaskType]
    BY <1>9, <1>1 DEF Buy, Spawn, TypeOK, TaskType, PCs, Active
  <2> QED
    BY <1>9, <2>1, RecordTypes DEF Buy, AcquireSlots, TypeOK
<1>10. ASSUME NEW o \in Orders, NEW p \in SellPrices, Sell(m, p, o)
       PROVE  TypeOK'
  <2>1. Synced(<<m, state[m].outcome>>) \subseteq Nat
    BY <1>1, PositionFacts, EngineAssumption
  <2>2. task' \in [Orders -> TaskType]
    <3>1. PICK current \in Synced(<<m, state[m].outcome>>) :
             Spawn(o, m, state[m].outcome, "Sell", p,
                   IF current < state[m].amount THEN current ELSE state[m].amount)
      BY <1>10 DEF Sell
    <3>2. p \in Nat
      BY EngineAssumption
    <3> QED
      BY <3>1, <3>2, <2>1, <1>1 DEF Spawn, TypeOK, TaskType, PCs, Active
  <2>3. state' \in [Markets -> StateType]
    BY <1>10, <1>1, RecordTypes DEF Sell, TypeOK
  <2> QED
    BY <1>10, <2>2, <2>3 DEF Sell, TypeOK
<1> QED
  BY <1>2, <1>3, <1>4, <1>5, <1>6, <1>7, <1>8, <1>9, <1>10 DEF EngineStep

LEMMA ApplyFillType ==
    ASSUME TypeOK, NEW t \in Tokens, NEW side, NEW n \in Nat, NEW price \in Nat,
           ApplyFill(t, TRUE, side, n, price)
    PROVE  exposures' \in [Tokens -> [yes_qty : Int, no_qty : Int]] /\ realizedPnl' \in Int
<1> DEFINE delta == IF side = "Buy" THEN n ELSE -n
<1>1. delta \in Int
  OBVIOUS
<1>2. delta * price \in Int
  BY <1>1, ProductInt
<1>3. exposures[t] \in [yes_qty : Int, no_qty : Int]
  BY DEF TypeOK
<1> DEFINE row == [yes_qty |-> exposures[t].yes_qty + delta, no_qty |-> exposures[t].no_qty + 0]
<1>4. exposures' = [exposures EXCEPT ![t] = row]
  BY DEF ApplyFill
<1>5. exposures' \in [Tokens -> [yes_qty : Int, no_qty : Int]]
  BY <1>1, <1>3, <1>4 DEF TypeOK
<1>6. realizedPnl' = realizedPnl - delta * price
  BY DEF ApplyFill
<1>7. \A x \in Int : realizedPnl - x \in Int
  BY DEF TypeOK
<1>8. realizedPnl' \in Int
  BY <1>2, <1>6, <1>7
<1> QED
  BY <1>5, <1>8

LEMMA PostType ==
    ASSUME TypeOK, NEW o \in Orders, NEW n \in Nat,
           Post(o, Token(o), task[o].side, task[o].price, n)
    PROVE  openOrders' \subseteq OrderType
<1>1. /\ Token(o) \in Tokens /\ task[o].side \in {"Buy", "Sell"} /\ task[o].price \in Nat
  BY TaskFacts
<1>2. \A k \in {n} \ {0} :
         [id |-> o, token |-> Token(o), side |-> task[o].side, price |-> task[o].price, left |-> k]
             \in OrderType
  BY <1>1 DEF OrderType
<1>3. openOrders \subseteq OrderType
  BY DEF TypeOK
<1> QED
  BY <1>2, <1>3 DEF Post

LEMMA AfterType ==
    ASSUME TypeOK, NEW o \in Orders, After(o)
    PROVE  TypeOK'
<1> USE DEF guardVars, slotVars, inventoryVars, exchangeVars, engineVars
<1>1. PICK after \in {position[Token(o)]} \union
                     {p \in {task[o].before} : "api_failure" \in Faults} :
        LET filled == AtLeastZero(IF IsBuy(o) THEN after - task[o].before
                                              ELSE task[o].before - after)
        IN  IF filled = 0
            THEN /\ RollBack(o, Reserved(o), after)
                 /\ UNCHANGED inventoryVars
            ELSE /\ ApplyFill(Token(o), TRUE, task[o].side, filled, task[o].price)
                 /\ IF IsBuy(o) THEN UNCHANGED spend
                                ELSE ReleaseBudget(task[o].price * filled)
                 /\ Report(o, filled, after)
                 /\ Goto(o, "release")
                 /\ UNCHANGED slotVars
  BY DEF After
<1> DEFINE filled == AtLeastZero(IF IsBuy(o) THEN after - task[o].before
                                             ELSE task[o].before - after)
<1>2. after \in Nat /\ task[o].before \in Nat
  BY TaskFacts, PositionFacts
<1>3. filled \in Nat
  BY <1>2 DEF AtLeastZero
<1>4. openOrders' \subseteq OrderType
  BY DEF After, Expire, TypeOK
<1>5. CASE filled = 0
  <2>1. RollBack(o, Reserved(o), after) /\ UNCHANGED inventoryVars
    BY <1>1, <1>5
  <2> QED
    BY <2>1, <1>2, <1>4, TaskFacts, RollBackType DEF After, TypeOK
<1>6. CASE filled # 0
  <2>1. ApplyFill(Token(o), TRUE, task[o].side, filled, task[o].price)
    BY <1>1, <1>6
  <2>2. exposures' \in [Tokens -> [yes_qty : Int, no_qty : Int]] /\ realizedPnl' \in Int
    BY <2>1, <1>3, TaskFacts, ApplyFillType
  <2>3. Report(o, filled, after)
    BY <1>1, <1>6
  <2>4. fills' \in [Markets -> Seq(UpdateType)]
    BY <2>3, <1>2, <1>3, ReportType
  <2>5. spend' \in Nat
    <3>1. task[o].price * filled \in Nat
      BY <1>3, TaskFacts, ProductNat
    <3> QED
      BY <3>1, <1>1, <1>6 DEF ReleaseBudget, AtLeastZero, TypeOK
  <2>6. task' \in [Orders -> TaskType]
    BY <1>1, <1>6, GotoType DEF PCs, Active
  <2>7. UNCHANGED slotVars
    BY <1>1, <1>6
  <2> QED
    BY <2>2, <2>4, <2>5, <2>6, <2>7, <1>4 DEF After, TypeOK
<1> QED
  BY <1>5, <1>6

LEMMA TaskStepType ==
    ASSUME TypeOK, NEW o \in Orders, TaskStep(o)
    PROVE  TypeOK'
<1> USE DEF guardVars, slotVars, inventoryVars, exchangeVars, engineVars
<1>1. CASE Reserve(o)
  <2>1. CASE RollBack(o, 0, LocalPosition(Token(o)))
    BY <1>1, <2>1, RollBackType, TaskFacts, PositionFacts DEF Reserve, TypeOK
  <2>2. CASE ~RollBack(o, 0, LocalPosition(Token(o)))
    <3>1. task' \in [Orders -> TaskType]
      BY <1>1, <2>2, GotoType DEF Reserve, PCs, Active
    <3>2. spend' \in Nat
      BY <1>1, <2>2, TaskFacts DEF Reserve, ReserveBudget, TypeOK
    <3> QED
      BY <1>1, <2>2, <3>1, <3>2 DEF Reserve, TypeOK
  <2> QED
    BY <2>1, <2>2
<1>2. CASE Fire(o)
  <2>1. CASE DryRun \/ ~HasClient
    <3>1. RollBack(o, Reserved(o), LocalPosition(Token(o)))
      BY <1>2, <2>1 DEF Fire
    <3> QED
      BY <1>2, <3>1, RollBackType, TaskFacts, PositionFacts DEF Fire, TypeOK
  <2>2. CASE ~(DryRun \/ ~HasClient)
    <3>1. PICK p \in Synced(Token(o)) :
             task' = [task EXCEPT ![o].before = p, ![o].pc = "place"]
      BY <1>2, <2>2 DEF Fire
    <3>2. p \in Nat
      BY <3>1, TaskFacts, PositionFacts
    <3>3. [task[o] EXCEPT !.before = p, !.pc = "place"] \in TaskType
      <4>1. \A r \in TaskType : [r EXCEPT !.before = p, !.pc = "place"] \in TaskType
        BY <3>2 DEF TaskType, PCs, Active
      <4> QED
        BY <4>1 DEF TypeOK
    <3>4. task' = [task EXCEPT ![o] = [task[o] EXCEPT !.before = p, !.pc = "place"]]
      BY <3>1
    <3>5. task' \in [Orders -> TaskType]
      BY <3>3, <3>4 DEF TypeOK
    <3> QED
      BY <1>2, <2>2, <3>5 DEF Fire, TypeOK
  <2> QED
    BY <2>1, <2>2
<1>3. CASE Place(o)
  <2>1. PICK n \in Acceptable(o) :
        \/ /\ n > 0
           /\ Post(o, Token(o), task[o].side, task[o].price, n)
           /\ Goto(o, "after")
           /\ UNCHANGED <<spend, slotVars, fills>>
        \/ /\ Post(o, Token(o), task[o].side, task[o].price,
                   IF "unseen_fill" \in Faults THEN n ELSE 0)
           /\ RollBack(o, Reserved(o), LocalPosition(Token(o)))
    BY <1>3 DEF Place
  <2>2. n \in Nat
    BY TaskFacts DEF Acceptable
  <2>3. openOrders' \subseteq OrderType
    BY <2>1, <2>2, PostType
  <2>4. CASE RollBack(o, Reserved(o), LocalPosition(Token(o)))
    BY <1>3, <2>3, <2>4, RollBackType, TaskFacts, PositionFacts DEF Place, TypeOK
  <2>5. CASE Goto(o, "after") /\ UNCHANGED <<spend, slotVars, fills>>
    <3>1. task' \in [Orders -> TaskType]
      BY <2>5, GotoType DEF PCs, Active
    <3> QED
      BY <1>3, <2>3, <2>5, <3>1 DEF Place, TypeOK
  <2> QED
    BY <2>1, <2>4, <2>5
<1>4. CASE After(o)
  BY <1>4, AfterType
<1>5. CASE Release(o)
  BY <1>5, RecordTypes, TaskFacts DEF Release, FreeSlots, ReleaseSlots, TypeOK
<1> QED
  BY <1>1, <1>2, <1>3, <1>4, <1>5 DEF TaskStep

LEMMA ExchangeFillType ==
    ASSUME TypeOK, ExchangeFill
    PROVE  TypeOK'
<1> USE DEF guardVars, slotVars, inventoryVars, engineVars
<1>1. PICK r \in openOrders : \E n \in 1..r.left : Fill(r, n)
  BY DEF ExchangeFill
<1>2. PICK n \in 1..r.left : Fill(r, n)
  BY <1>1
<1> DEFINE delta == IF r.side = "Buy" THEN n ELSE -n
<1>3. /\ r \in OrderType /\ r.token \in Tokens /\ r.price \in Nat /\ r.left \in Nat
      /\ n \in Nat /\ delta \in Int
  BY DEF TypeOK, OrderType
<1>4. openOrders' \subseteq OrderType
  <2>1. \A k \in {r.left - n} \ {0} : [r EXCEPT !.left = k] \in OrderType
    BY <1>3 DEF OrderType
  <2> QED
    BY <1>2, <2>1 DEF Fill, TypeOK
<1>5. position' \in [Tokens -> Nat]
  <2>1. position' = [position EXCEPT ![r.token] = @ + delta] /\ position[r.token] + delta >= 0
    BY <1>2 DEF Fill
  <2> QED
    BY <2>1, <1>3 DEF TypeOK
<1>6. paid' \in Int
  <2>1. paid' = paid + delta * r.price
    BY <1>2 DEF Fill
  <2> QED
    BY <2>1, <1>3, ProductInt DEF TypeOK
<1> QED
  BY <1>4, <1>5, <1>6 DEF ExchangeFill, TypeOK

LEMMA CrashType == TypeOK /\ Crash => TypeOK'
<1> SUFFICES ASSUME TypeOK, Crash PROVE TypeOK'
  OBVIOUS
<1>1. spend' \in Nat /\ buyCount' \in Int /\ tokenPendingBuy' \subseteq Markets
  BY DEF Crash
<1>2. frozen' \in BOOLEAN
  BY Zenon DEF Crash
<1>3. exposures' \in [Tokens -> [yes_qty : Int, no_qty : Int]] /\ realizedPnl' \in Int
  BY DEF Crash
<1>4. /\ state' \in [Markets -> StateType] /\ cooldown' \in [Markets -> BOOLEAN]
      /\ task' \in [Orders -> TaskType]
  BY RecordTypes DEF Crash, TypeOK
<1>5. fills' \in [Markets -> Seq(UpdateType)]
  BY DEF Crash
<1>6. position' \in [Tokens -> Nat] /\ openOrders' \subseteq OrderType /\ paid' \in Int
  BY DEF Crash, TypeOK
<1> QED
  BY <1>1, <1>2, <1>3, <1>4, <1>5, <1>6 DEF TypeOK

LEMMA TypesKept == TypeOK /\ [Next]_vars => TypeOK'
<1> SUFFICES ASSUME TypeOK, [Next]_vars PROVE TypeOK'
  OBVIOUS
<1>1. CASE UNCHANGED vars
  BY <1>1 DEF vars, guardVars, slotVars, inventoryVars, exchangeVars, engineVars, TypeOK
<1> QED
  BY <1>1, EngineStepType, TaskStepType, ExchangeFillType, CrashType DEF Next

\* Every variable keeps its type: sizes, positions and the spend never go
\* negative, whatever the exchange, the watchdog and the restarts do.
THEOREM TypeCorrect == Spec => []TypeOK
BY TypesInitially, TypesKept, PTL DEF Spec
-----------------------------------------------------------------------------
(***************************************************************************)
(* The safety of the shared risk state.  Every step of the system does one *)
(* of five things to the BUY slots: it leaves them to the tasks that have  *)
(* them, one task takes them, one task returns them, an engine drops the   *)
(* entry of its market, or a crash drops everything.  The invariants of the*)
(* slots follow from these five.                                           *)
(***************************************************************************)
SameMarkets(O) == \A q \in O : task'[q].market = task[q].market

SlotsKept ==
    /\ RunningBuys' = RunningBuys /\ SameMarkets(RunningBuys)
    /\ UNCHANGED slotVars

SlotsTaken(o) ==
    /\ o \in Orders \ RunningBuys
    /\ RunningBuys' = RunningBuys \union {o} /\ SameMarkets(RunningBuys)
    /\ buyCount < MaxConcurrentBuys /\ buyCount' = buyCount + 1
    /\ task'[o].market \in Markets \ tokenPendingBuy
    /\ tokenPendingBuy' = tokenPendingBuy \union {task'[o].market}

SlotsReturned(o) ==
    /\ o \in RunningBuys
    /\ RunningBuys' = RunningBuys \ {o} /\ SameMarkets(RunningBuys \ {o})
    /\ buyCount' = buyCount - 1
    /\ tokenPendingBuy' = tokenPendingBuy \ {task[o].market}

EntryDropped(m) ==
    /\ RunningBuys' = RunningBuys /\ SameMarkets(RunningBuys)
    /\ buyCount' = buyCount /\ tokenPendingBuy' = tokenPendingBuy \ {m}

SlotsDropped == RunningBuys' = {} /\ buyCount' = 0 /\ tokenPendingBuy' = {}

\* The engine drops its market's entry in the watchdog and on a failed buy.
EngineDrops(m) == Watchdog(m) \/ (HandleFill(m) /\ BuyFailed(m, Head(fills[m])))

SlotStep ==
    \/ SlotsKept
    \/ \E o \in Orders : SlotsTaken(o) \/ SlotsReturned(o)
    \/ \E m \in Markets : EntryDropped(m) /\ EngineDrops(m)
    \/ SlotsDropped /\ Crash

LEMMA OneTaskChanges ==
    ASSUME TypeOK, NEW o \in Orders, NEW r, task' = [task EXCEPT ![o] = r]
    PROVE  /\ \A q \in Orders \ {o} : task'[q] = task[q]
           /\ task'[o] = r
           /\ RunningBuys' = (RunningBuys \ {o}) \union
                                {q \in {o} : r.pc \in Active /\ r.side = "Buy"}
BY DEF TypeOK, RunningBuys, Running, IsBuy

\* A new task is a running buy or none.
LEMMA SpawnSlots ==
    ASSUME TypeOK, NEW o \in Orders, task[o].pc = "idle",
           NEW m, NEW s, NEW side, NEW p, NEW n, Spawn(o, m, s, side, p, n)
    PROVE  /\ o \notin RunningBuys /\ task'[o].market = m /\ SameMarkets(RunningBuys)
           /\ RunningBuys' = IF side = "Buy" THEN RunningBuys \union {o} ELSE RunningBuys
<1>1. o \notin RunningBuys
  BY DEF RunningBuys, Running, Active
<1>2. \A q \in Orders \ {o} : task'[q] = task[q]
  BY DEF Spawn, TypeOK
<1>3. task'[o].pc = "reserve" /\ task'[o].market = m /\ task'[o].side = side
  BY DEF Spawn, TypeOK
<1> QED
  BY <1>1, <1>2, <1>3 DEF RunningBuys, Running, IsBuy, Active, SameMarkets

LEMMA TasksStay ==
    ASSUME task' = task
    PROVE  RunningBuys' = RunningBuys /\ SameMarkets(RunningBuys)
BY DEF RunningBuys, Running, IsBuy, SameMarkets

\* A task that goes on keeps its slots.
LEMMA GotoKeepsSlots ==
    ASSUME TypeOK, NEW o \in Running, NEW r, task' = [task EXCEPT ![o] = r],
           r.pc \in Active, r.side = task[o].side, r.market = task[o].market,
           UNCHANGED slotVars
    PROVE  SlotsKept
<1>1. o \in Orders /\ task[o].pc \in Active
  BY DEF Running
<1>2. /\ \A q \in Orders \ {o} : task'[q] = task[q]
      /\ task'[o] = r
      /\ RunningBuys' = (RunningBuys \ {o}) \union
                           {q \in {o} : r.pc \in Active /\ r.side = "Buy"}
  BY <1>1, OneTaskChanges
<1>3. RunningBuys' = RunningBuys
  BY <1>1, <1>2 DEF RunningBuys, Running, IsBuy
<1>4. SameMarkets(RunningBuys)
  BY <1>2 DEF SameMarkets, RunningBuys, Running
<1> QED
  BY <1>3, <1>4 DEF SlotsKept, slotVars

\* A task that ends returns the slots if it is a buy, and has none if not.
LEMMA EndReturnsSlots ==
    ASSUME TypeOK, NEW o \in Running, task' = [task EXCEPT ![o] = DoneTask],
           FreeSlots(o)
    PROVE  SlotsKept \/ SlotsReturned(o)
<1>1. o \in Orders /\ task[o].pc \in Active
  BY DEF Running
<1>2. DoneTask.pc \notin Active
  BY DEF DoneTask, IdleTask, Active
<1>3. /\ \A q \in Orders \ {o} : task'[q] = task[q]
      /\ RunningBuys' = RunningBuys \ {o}
  BY <1>1, <1>2, OneTaskChanges
<1>4. SameMarkets(RunningBuys \ {o})
  BY <1>3 DEF SameMarkets, RunningBuys, Running
<1>5. CASE IsBuy(o)
  <2>1. o \in RunningBuys
    BY <1>5 DEF RunningBuys
  <2> QED
    BY <1>3, <1>4, <1>5, <2>1 DEF SlotsReturned, FreeSlots, ReleaseSlots
<1>6. CASE ~IsBuy(o)
  <2>1. o \notin RunningBuys
    BY <1>6 DEF RunningBuys
  <2>2. RunningBuys \ {o} = RunningBuys
    BY <2>1
  <2> QED
    BY <1>3, <1>4, <1>6, <2>2 DEF SlotsKept, FreeSlots, slotVars
<1> QED
  BY <1>5, <1>6
-----------------------------------------------------------------------------
LEMMA EngineSlotStep ==
    ASSUME TypeOK, NEW m \in Markets, EngineStep(m)
    PROVE  SlotStep
<1> USE DEF guardVars, slotVars, inventoryVars, exchangeVars, engineVars
<1>1. ASSUME UNCHANGED <<task, slotVars>> PROVE SlotStep
  BY <1>1, TasksStay DEF SlotStep, SlotsKept
<1>2. CASE Start(m) \/ GiveUp(m) \/ CooldownOver(m)
  BY <1>1, <1>2 DEF Start, GiveUp, CooldownOver
<1>3. CASE Stop(m)
  <2>1. \A q \in Orders : /\ task'[q].pc = task[q].pc /\ task'[q].side = task[q].side
                          /\ task'[q].market = task[q].market
    BY <1>3 DEF Stop, TypeOK, TaskType
  <2>2. RunningBuys' = RunningBuys /\ SameMarkets(RunningBuys)
    BY <2>1 DEF RunningBuys, Running, IsBuy, SameMarkets
  <2> QED
    BY <1>3, <2>2 DEF Stop, SlotStep, SlotsKept
<1>4. ASSUME UNCHANGED task, ReleaseTokenSlot(m), EngineDrops(m) PROVE SlotStep
  <2>1. EntryDropped(m)
    BY <1>4, TasksStay DEF ReleaseTokenSlot, EntryDropped
  <2> QED
    BY <1>4, <2>1 DEF SlotStep
<1>5. CASE Watchdog(m)
  <2>1. EngineDrops(m) /\ UNCHANGED task
    BY <1>5 DEF Watchdog, EngineDrops
  <2>2. ReleaseTokenSlot(m) \/ UNCHANGED slotVars
    BY <1>5 DEF Watchdog
  <2> QED
    BY <1>1, <1>4, <2>1, <2>2
<1>6. CASE HandleFill(m)
  <2> DEFINE u == Head(fills[m])
  <2>1. CASE BuyFailed(m, u)
    BY <1>4, <1>6, <2>1 DEF HandleFill, BuyFailed, EngineDrops
  <2>2. CASE Bought(m, u) \/ Sold(m, u) \/ SellFailed(m, u) \/ Ignored(m, u)
    BY <1>1, <1>6, <2>2 DEF HandleFill, Bought, Sold, SellFailed, Ignored
  <2> QED
    BY <1>6, <2>1, <2>2 DEF HandleFill
<1>7. ASSUME NEW s \in Outcomes, NEW p \in BuyPrices, Consider(m, s, p)
      PROVE  SlotStep
  BY <1>1, <1>7 DEF Consider
<1>8. ASSUME NEW o \in Orders, Buy(m, o)
      PROVE  SlotStep
  <2>1. /\ task[o].pc = "idle"
        /\ Spawn(o, m, state[m].outcome, "Buy", state[m].price, state[m].amount)
    BY <1>8 DEF Buy
  <2>2. /\ o \notin RunningBuys /\ task'[o].market = m /\ SameMarkets(RunningBuys)
        /\ RunningBuys' = RunningBuys \union {o}
    BY <2>1, SpawnSlots
  <2> QED
    BY <1>8, <2>2 DEF Buy, AcquireSlots, SlotStep, SlotsTaken, RunningBuys, Running
<1>9. ASSUME NEW o \in Orders, NEW p \in SellPrices, Sell(m, p, o)
      PROVE  SlotStep
  <2>1. PICK n : task[o].pc = "idle" /\ Spawn(o, m, state[m].outcome, "Sell", p, n)
    BY <1>9 DEF Sell
  <2>2. RunningBuys' = RunningBuys /\ SameMarkets(RunningBuys)
    BY <2>1, SpawnSlots
  <2> QED
    BY <1>9, <2>2 DEF Sell, SlotStep, SlotsKept
<1> QED
  BY <1>2, <1>3, <1>5, <1>6, <1>7, <1>8, <1>9 DEF EngineStep

LEMMA TaskSlotStep ==
    ASSUME TypeOK, NEW o \in Orders, TaskStep(o)
    PROVE  SlotsKept \/ SlotsReturned(o)
<1>1. o \in Running
  BY DEF TaskStep, Reserve, Fire, Place, After, Release, Running, Active
<1>2. task[o] \in TaskType
  BY DEF TypeOK
<1>3. ASSUME NEW budget, NEW synced, RollBack(o, budget, synced)
      PROVE  SlotsKept \/ SlotsReturned(o)
  BY <1>1, <1>3, EndReturnsSlots DEF RollBack
<1>4. ASSUME NEW l \in Active, Goto(o, l), UNCHANGED slotVars
      PROVE  SlotsKept
  <2>1. task' = [task EXCEPT ![o] = [task[o] EXCEPT !.pc = l]]
    BY <1>4 DEF Goto, TypeOK
  <2>2. LET r == [task[o] EXCEPT !.pc = l]
        IN  r.pc \in Active /\ r.side = task[o].side /\ r.market = task[o].market
    BY <1>2 DEF TaskType
  <2> QED
    BY <1>1, <1>4, <2>1, <2>2, GotoKeepsSlots
<1>5. CASE Reserve(o)
  BY <1>3, <1>4, <1>5 DEF Reserve, Active
<1>6. CASE Fire(o)
  <2>1. CASE DryRun \/ ~HasClient
    BY <1>3, <1>6, <2>1 DEF Fire
  <2>2. CASE ~(DryRun \/ ~HasClient)
    <3>1. PICK p : task' = [task EXCEPT ![o].before = p, ![o].pc = "place"]
      BY <1>6, <2>2 DEF Fire
    <3>2. task' = [task EXCEPT ![o] = [task[o] EXCEPT !.before = p, !.pc = "place"]]
      BY <3>1 DEF TypeOK
    <3> QED
      BY <1>1, <1>2, <1>6, <2>2, <3>2, GotoKeepsSlots DEF Fire, TaskType, Active
  <2> QED
    BY <2>1, <2>2
<1>7. CASE Place(o)
  BY <1>3, <1>4, <1>7 DEF Place, Active
<1>8. CASE After(o)
  <2>1. CASE \E budget, synced : RollBack(o, budget, synced)
    BY <1>3, <2>1
  <2>2. CASE Goto(o, "release") /\ UNCHANGED slotVars
    BY <1>4, <2>2 DEF Active
  <2> QED
    BY <1>8, <2>1, <2>2 DEF After
<1>9. CASE Release(o)
  BY <1>1, <1>9, EndReturnsSlots DEF Release
<1> QED
  BY <1>5, <1>6, <1>7, <1>8, <1>9 DEF TaskStep

LEMMA NextSlotStep == TypeOK /\ [Next]_vars => SlotStep
<1> SUFFICES ASSUME TypeOK, [Next]_vars PROVE SlotStep
  OBVIOUS
<1> USE DEF guardVars, slotVars
<1>1. CASE UNCHANGED vars \/ ExchangeFill
  BY <1>1, TasksStay DEF vars, ExchangeFill, SlotStep, SlotsKept
<1>2. CASE Crash
  <2>1. \A q \in Orders : task'[q].pc \notin Active
    BY <1>2 DEF Crash, DoneTask, IdleTask, Active
  <2> QED
    BY <1>2, <2>1 DEF Crash, SlotStep, SlotsDropped, RunningBuys, Running
<1> QED
  BY <1>1, <1>2, EngineSlotStep, TaskSlotStep DEF Next, SlotStep
-----------------------------------------------------------------------------
LEMMA SlotsInitially == Init => SlotsAccounted /\ NoOrphanSlot
<1> SUFFICES ASSUME Init PROVE SlotsAccounted /\ NoOrphanSlot
  OBVIOUS
<1>1. RunningBuys = {}
  BY DEF Init, RunningBuys, Running, IdleTask, Active
<1> QED
  BY <1>1, FS_EmptySet, GuardAssumption DEF Init, GuardInit, SlotsAccounted, NoOrphanSlot

LEMMA SlotsAccountedKept == SlotsAccounted /\ SlotStep => SlotsAccounted'
<1> SUFFICES ASSUME SlotsAccounted, SlotStep PROVE SlotsAccounted'
  OBVIOUS
<1>1. IsFiniteSet(RunningBuys)
  BY EngineAssumption, FS_Subset DEF RunningBuys, Running
<1>2. Cardinality(RunningBuys) \in Nat
  BY <1>1, FS_CardinalityType
<1>3. CASE SlotsKept
  BY <1>3 DEF SlotsKept, SlotsAccounted, slotVars
<1>4. ASSUME NEW o \in Orders, SlotsTaken(o) PROVE SlotsAccounted'
  <2>1. Cardinality(RunningBuys') = Cardinality(RunningBuys) + 1
    BY <1>1, <1>4, FS_AddElement DEF SlotsTaken
  <2> QED
    BY <1>2, <1>4, <2>1, GuardAssumption DEF SlotsTaken, SlotsAccounted
<1>5. ASSUME NEW o \in Orders, SlotsReturned(o) PROVE SlotsAccounted'
  <2>1. Cardinality(RunningBuys') = Cardinality(RunningBuys) - 1
    BY <1>1, <1>5, FS_RemoveElement DEF SlotsReturned
  <2> QED
    BY <1>2, <1>5, <2>1, GuardAssumption DEF SlotsReturned, SlotsAccounted
<1>6. CASE SlotsDropped
  BY <1>6, FS_EmptySet, GuardAssumption DEF SlotsDropped, SlotsAccounted
<1>7. ASSUME NEW m \in Markets, EntryDropped(m) PROVE SlotsAccounted'
  BY <1>7 DEF EntryDropped, SlotsAccounted
<1> QED
  BY <1>3, <1>4, <1>5, <1>6, <1>7 DEF SlotStep

\* The last buy of a market that returns its slots leaves no entry behind.
LEMMA NoOrphanSlotKept == NoOrphanSlot /\ SlotStep => NoOrphanSlot'
<1> SUFFICES ASSUME NoOrphanSlot, SlotStep, NEW m \in tokenPendingBuy'
             PROVE  BuysOf(m)' # {}
  BY DEF NoOrphanSlot
<1>1. m \in tokenPendingBuy => \E q \in RunningBuys : task[q].market = m
  BY DEF NoOrphanSlot, BuysOf
<1> SUFFICES \E q \in RunningBuys' : task'[q].market = m
  BY DEF BuysOf
<1>2. CASE SlotsKept
  BY <1>1, <1>2 DEF SlotsKept, SameMarkets, slotVars
<1>3. ASSUME NEW o \in Orders, SlotsTaken(o) PROVE \E q \in RunningBuys' : task'[q].market = m
  BY <1>1, <1>3 DEF SlotsTaken, SameMarkets
<1>4. ASSUME NEW o \in Orders, SlotsReturned(o)
      PROVE \E q \in RunningBuys' : task'[q].market = m
  BY <1>1, <1>4 DEF SlotsReturned, SameMarkets
<1>5. CASE SlotsDropped
  BY <1>5 DEF SlotsDropped
<1>6. ASSUME NEW k \in Markets, EntryDropped(k) PROVE \E q \in RunningBuys' : task'[q].market = m
  BY <1>1, <1>6 DEF EntryDropped, SameMarkets
<1> QED
  BY <1>2, <1>3, <1>4, <1>5, <1>6 DEF SlotStep

\* The global BUY counter counts the running BUY tasks and respects its limit,
\* and no market keeps a slot without one, whatever goes wrong.
THEOREM SlotsSound == Spec => [](SlotsAccounted /\ NoOrphanSlot)
<1> DEFINE Inv == SlotsAccounted /\ NoOrphanSlot
<1>1. Init => Inv
  BY SlotsInitially
<1>2. TypeOK /\ Inv /\ [Next]_vars => Inv'
  BY NextSlotStep, SlotsAccountedKept, NoOrphanSlotKept
<1> QED
  BY <1>1, <1>2, TypeCorrect, PTL DEF Spec

\* Whatever is stopped, restarted, unlocked or crashes, a market in
\* token_pending_buy has a BUY task that runs and will take it out.
THEOREM OrphansNever == Spec => []NoOrphanSlot
BY SlotsSound, PTL
-----------------------------------------------------------------------------
LEMMA BudgetKept == TypeOK /\ SpendWithinBudget /\ [Next]_vars => SpendWithinBudget'
<1> SUFFICES ASSUME TypeOK, SpendWithinBudget, [Next]_vars PROVE SpendWithinBudget'
  OBVIOUS
<1> USE DEF guardVars, slotVars, inventoryVars, exchangeVars, engineVars
<1>1. spend \in Nat /\ spend <= MaxBudget /\ MaxBudget \in Nat
  BY GuardAssumption DEF TypeOK, SpendWithinBudget
<1>2. \A x \in Nat : AtLeastZero(spend - x) \in 0..MaxBudget
  BY <1>1 DEF AtLeastZero
<1>3. CASE UNCHANGED vars \/ ExchangeFill
  BY <1>3 DEF vars, ExchangeFill, SpendWithinBudget
<1>4. CASE Crash
  BY <1>1, <1>4 DEF Crash, SpendWithinBudget
<1>5. ASSUME NEW m \in Markets, EngineStep(m) PROVE SpendWithinBudget'
  <2>1. CASE UNCHANGED spend
    BY <2>1 DEF SpendWithinBudget
  <2>2. CASE HandleFill(m)
    <3> DEFINE u == Head(fills[m])
    <3>1. u \in UpdateType
      BY <2>2 DEF HandleFill, TypeOK
    <3>2. u.reserved \in Nat /\ u.price * u.size \in Nat
      BY <3>1, ProductNat DEF UpdateType
    <3>3. CASE Bought(m, u)
      <4>1. spend' = AtLeastZero(spend - AtLeastZero(u.reserved - u.price * u.size))
        BY <3>3 DEF Bought, RefundBudgetDelta
      <4>2. AtLeastZero(u.reserved - u.price * u.size) \in Nat
        BY <3>2 DEF AtLeastZero
      <4> QED
        BY <1>2, <4>1, <4>2 DEF SpendWithinBudget
    <3>4. CASE UNCHANGED spend
      BY <3>4 DEF SpendWithinBudget
    <3> QED
      BY <2>2, <3>3, <3>4 DEF HandleFill, BuyFailed, Sold, SellFailed, Ignored
  <2> QED
    BY <1>5, <2>1, <2>2
       DEF EngineStep, Start, Stop, GiveUp, CooldownOver, Watchdog, Consider, Buy, Sell
<1>6. ASSUME NEW o \in Orders, TaskStep(o) PROVE SpendWithinBudget'
  <2>1. Notional(o) \in Nat /\ Reserved(o) \in Nat
    BY TaskFacts
  <2>2. CASE \E x \in Nat : ReleaseBudget(x)
    BY <1>2, <2>2 DEF ReleaseBudget, SpendWithinBudget
  <2>3. CASE UNCHANGED spend
    BY <2>3 DEF SpendWithinBudget
  <2>4. CASE Reserve(o)
    <3>1. CASE ReserveBudget(Notional(o))
      BY <1>1, <2>1, <3>1 DEF ReserveBudget, CanAfford, SpendWithinBudget
    <3> QED
      BY <2>2, <2>3, <2>4, <3>1 DEF Reserve, RollBack
  <2>5. CASE Fire(o)
    BY <2>1, <2>2, <2>3, <2>5 DEF Fire, RollBack
  <2>6. CASE Place(o)
    BY <2>1, <2>2, <2>3, <2>6 DEF Place, RollBack
  <2>7. CASE After(o)
    <3>1. \A p, b \in Nat, side \in BOOLEAN :
             task[o].price * AtLeastZero(IF side THEN p - b ELSE b - p) \in Nat
      <4>1. \A p, b \in Nat, side \in BOOLEAN :
               AtLeastZero(IF side THEN p - b ELSE b - p) \in Nat
        BY DEF AtLeastZero
      <4>2. task[o].price \in Nat
        BY TaskFacts
      <4> QED
        BY <4>1, <4>2, ProductNat
    <3>2. position[Token(o)] \in Nat /\ task[o].before \in Nat
      BY TaskFacts, PositionFacts
    <3>3. PICK after \in Nat :
            LET filled == AtLeastZero(IF IsBuy(o) THEN after - task[o].before
                                                  ELSE task[o].before - after)
            IN  \/ ReleaseBudget(Reserved(o))
                \/ UNCHANGED spend
                \/ ReleaseBudget(task[o].price * filled)
      BY <2>7, <3>2 DEF After, RollBack
    <3> QED
      BY <2>1, <2>2, <2>3, <3>1, <3>2, <3>3 DEF IsBuy
  <2>8. CASE Release(o)
    BY <2>3, <2>8 DEF Release
  <2> QED
    BY <1>6, <2>4, <2>5, <2>6, <2>7, <2>8 DEF TaskStep
<1> QED
  BY <1>3, <1>4, <1>5, <1>6 DEF Next

\* Reservations never add up to more than MaxBudget, however many tasks reserve,
\* release and refund at once.
THEOREM BudgetSound == Spec => []SpendWithinBudget
<1>1. Init => SpendWithinBudget
  BY GuardAssumption DEF Init, GuardInit, SpendWithinBudget
<1> QED
  BY <1>1, BudgetKept, TypeCorrect, PTL DEF Spec
-----------------------------------------------------------------------------
(***************************************************************************)
(* The duty of try_fire to report.  A task owes its engine a report while  *)
(* it is attached and has not sent it; a pending engine is owed one, or    *)
(* has it in its channel.                                                  *)
(***************************************************************************)
Owes(o, m, side) ==
    /\ task[o].pc \in Active /\ task[o].attached /\ task[o].market = m
    /\ task[o].side = side /\ task[o].pc # "release"

Reported(m, side) == \E i \in 1..Len(fills[m]) : fills[m][i].side = side

LEMMA AwaitedMeans ==
    /\ \A m, side : Awaited(m, side) <=> (\E o \in Orders : Owes(o, m, side)) \/ Reported(m, side)
    /\ \A m, side : Awaited(m, side)' <=>
           (\E o \in Orders : Owes(o, m, side)') \/ Reported(m, side)'
BY DEF Awaited, Owes, Reported, Running

\* A report that is sent arrives, and none before it is lost.
LEMMA ReportArrives ==
    ASSUME TypeOK, NEW o \in Orders, NEW size \in Nat, NEW synced \in Nat,
           Report(o, size, synced)
    PROVE  \A m \in Markets : \A side :
               \/ Reported(m, side)
               \/ task[o].attached /\ task[o].market = m /\ task[o].side = side
               => Reported(m, side)'
<1> DEFINE u == [side |-> task[o].side, outcome |-> task[o].outcome,
                 price |-> task[o].price, size |-> size,
                 synced |-> synced, reserved |-> Reserved(o)]
<1> SUFFICES ASSUME NEW m \in Markets, NEW side,
                    \/ Reported(m, side)
                    \/ task[o].attached /\ task[o].market = m /\ task[o].side = side
             PROVE  Reported(m, side)'
  OBVIOUS
<1>1. fills[m] \in Seq(UpdateType) /\ u \in UpdateType
  BY TaskFacts DEF TypeOK, UpdateType
<1>2. CASE task[o].attached /\ task[o].market = m
  <2>1. fills' = [fills EXCEPT ![m] = Append(@, u)]
    BY <1>2 DEF Report
  <2>2. fills'[m] = Append(fills[m], u)
    BY <2>1 DEF TypeOK
  <2>3. Len(fills[m]) \in Nat
    BY <1>1, LenProperties
  <2>4. Len(fills'[m]) = Len(fills[m]) + 1 /\ fills'[m][Len(fills[m]) + 1] = u
    BY <1>1, <2>2, AppendProperties
  <2>5. \A i \in 1..Len(fills[m]) : fills'[m][i] = fills[m][i]
    BY <1>1, <2>2, AppendProperties
  <2>6. CASE Reported(m, side)
    <3>1. PICK i \in 1..Len(fills[m]) : fills[m][i].side = side
      BY <2>6 DEF Reported
    <3>2. i \in 1..Len(fills'[m]) /\ fills'[m][i].side = side
      BY <2>3, <2>4, <2>5, <3>1
    <3> QED
      BY <3>2 DEF Reported
  <2>7. CASE side = task[o].side
    <3>1. Len(fills[m]) + 1 \in 1..Len(fills'[m])
      BY <2>3, <2>4
    <3> QED
      BY <2>4, <2>7, <3>1 DEF Reported
  <2> QED
    BY <2>6, <2>7
<1>3. CASE ~(task[o].attached /\ task[o].market = m)
  <2>1. fills'[m] = fills[m]
    BY <1>3, TaskFacts DEF Report, TypeOK
  <2> QED
    BY <1>3, <2>1 DEF Reported
<1> QED
  BY <1>2, <1>3

LEMMA TaskKeepsAwaited ==
    ASSUME TypeOK, PendingIsAwaited, NEW o \in Orders, TaskStep(o)
    PROVE  PendingIsAwaited'
<1>1. UNCHANGED state
  BY DEF TaskStep, Reserve, Fire, Place, After, Release, engineVars
<1>2. task[o] \in TaskType
  BY DEF TypeOK
<1> DEFINE Fair == \A m \in Markets : \A side : Awaited(m, side) => Awaited(m, side)'
<1>3. Fair => PendingIsAwaited'
  BY <1>1 DEF PendingIsAwaited, Kind
<1>4. ASSUME NEW r, task' = [task EXCEPT ![o] = r] PROVE \A q \in Orders \ {o} : task'[q] = task[q]
  BY <1>4 DEF TypeOK
<1>5. ASSUME NEW r, task' = [task EXCEPT ![o] = r], UNCHANGED fills,
             r.pc \in Active \ {"release"}, r.attached = task[o].attached,
             r.market = task[o].market, r.side = task[o].side
      PROVE  Fair
  <2>1. task'[o] = r
    BY <1>5 DEF TypeOK
  <2>2. \A q \in Orders : \A m, side : Owes(q, m, side) => Owes(q, m, side)'
    BY <1>4, <1>5, <2>1 DEF Owes
  <2>3. \A m, side : Reported(m, side) => Reported(m, side)'
    BY <1>5 DEF Reported
  <2> QED
    BY <2>2, <2>3, AwaitedMeans
<1>6. ASSUME NEW r, task' = [task EXCEPT ![o] = r],
             NEW size \in Nat, NEW synced \in Nat, Report(o, size, synced)
      PROVE  Fair
  <2>1. \A q \in Orders \ {o} : \A m, side : Owes(q, m, side) => Owes(q, m, side)'
    BY <1>4, <1>6 DEF Owes
  <2>2. \A m \in Markets : \A side : Owes(o, m, side) => Reported(m, side)'
    BY <1>6, ReportArrives DEF Owes
  <2>3. \A m \in Markets : \A side : Reported(m, side) => Reported(m, side)'
    BY <1>6, ReportArrives
  <2> QED
    BY <2>1, <2>2, <2>3, AwaitedMeans
<1>7. ASSUME NEW budget, NEW synced \in Nat, RollBack(o, budget, synced) PROVE Fair
  BY <1>6, <1>7 DEF RollBack
<1>8. ASSUME NEW l \in Active \ {"release"}, Goto(o, l), UNCHANGED fills PROVE Fair
  <2>1. task' = [task EXCEPT ![o] = [task[o] EXCEPT !.pc = l]]
    BY <1>8 DEF Goto, TypeOK
  <2>2. LET r == [task[o] EXCEPT !.pc = l]
        IN  /\ r.pc \in Active \ {"release"} /\ r.attached = task[o].attached
            /\ r.market = task[o].market /\ r.side = task[o].side
    BY <1>2 DEF TaskType
  <2> QED
    BY <1>5, <1>8, <2>1, <2>2
<1>9. LocalPosition(Token(o)) \in Nat /\ position[Token(o)] \in Nat /\ task[o].before \in Nat
  BY TaskFacts, PositionFacts
<1>10. CASE Reserve(o)
  BY <1>3, <1>7, <1>8, <1>9, <1>10 DEF Reserve, Active
<1>11. CASE Fire(o)
  <2>1. CASE DryRun \/ ~HasClient
    BY <1>3, <1>7, <1>11, <1>9, <2>1 DEF Fire
  <2>2. CASE ~(DryRun \/ ~HasClient)
    <3>1. PICK p : task' = [task EXCEPT ![o].before = p, ![o].pc = "place"]
      BY <1>11, <2>2 DEF Fire
    <3>2. task' = [task EXCEPT ![o] = [task[o] EXCEPT !.before = p, !.pc = "place"]]
      BY <3>1 DEF TypeOK
    <3>3. LET r == [task[o] EXCEPT !.before = p, !.pc = "place"]
          IN  /\ r.pc \in Active \ {"release"} /\ r.attached = task[o].attached
              /\ r.market = task[o].market /\ r.side = task[o].side
      BY <1>2 DEF TaskType, Active
    <3> QED
      BY <1>3, <1>5, <1>11, <2>2, <3>2, <3>3 DEF Fire
  <2> QED
    BY <2>1, <2>2
<1>12. CASE Place(o)
  BY <1>3, <1>7, <1>8, <1>12, <1>9 DEF Place, Active
<1>13. CASE After(o)
  <2>1. CASE \E budget, synced \in Nat : RollBack(o, budget, synced)
    BY <1>3, <1>7, <2>1
  <2>2. CASE Goto(o, "release") /\ \E size, synced \in Nat : Report(o, size, synced)
    <3>1. task' = [task EXCEPT ![o] = [task[o] EXCEPT !.pc = "release"]]
      BY <2>2 DEF Goto, TypeOK
    <3> QED
      BY <1>3, <1>6, <2>2, <3>1
  <2>3. \A x, y \in Nat : AtLeastZero(x - y) \in Nat
    BY DEF AtLeastZero
  <2>4. \/ \E synced \in Nat : RollBack(o, Reserved(o), synced)
        \/ Goto(o, "release") /\ \E size, synced \in Nat : Report(o, size, synced)
    BY <1>13, <1>9, <2>3 DEF After
  <2> QED
    BY <2>1, <2>2, <2>4, TaskFacts
<1>14. CASE Release(o)
  <2>1. \A q \in Orders : \A m, side : Owes(q, m, side) => Owes(q, m, side)'
    BY <1>4, <1>14 DEF Release, Owes
  <2>2. \A m, side : Reported(m, side) => Reported(m, side)'
    BY <1>14 DEF Release, Reported, engineVars
  <2> QED
    BY <1>3, <2>1, <2>2, AwaitedMeans
<1> QED
  BY <1>10, <1>11, <1>12, <1>13, <1>14 DEF TaskStep

\* A new task owes its engine a report, and the others still do.
LEMMA SpawnOwes ==
    ASSUME TypeOK, NEW o \in Orders, task[o].pc = "idle",
           NEW m, NEW s, NEW side, NEW p, NEW n, Spawn(o, m, s, side, p, n)
    PROVE  /\ Owes(o, m, side)'
           /\ \A q \in Orders : \A k, x : Owes(q, k, x) => Owes(q, k, x)'
<1>1. \A q \in Orders \ {o} : task'[q] = task[q]
  BY DEF Spawn, TypeOK
<1>2. /\ task'[o].pc = "reserve" /\ task'[o].market = m /\ task'[o].side = side
      /\ task'[o].attached
  BY DEF Spawn, TypeOK
<1> QED
  BY <1>1, <1>2 DEF Owes, Active

\* The report at the head of the channel does not leave its engine waiting.
LEMMA HandleFillKeepsAwaited ==
    ASSUME TypeOK, NEW m \in Markets, HandleFill(m), NEW side \in {"Buy", "Sell"},
           Kind(m)' = (IF side = "Buy" THEN "PendingBuy" ELSE "PendingSell"),
           Kind(m) = Kind(m)' => Awaited(m, side)
    PROVE  Awaited(m, side)'
<1> DEFINE u == Head(fills[m])
<1>1. fills[m] \in Seq(UpdateType) /\ fills[m] # <<>>
  BY DEF TypeOK, HandleFill
<1>2. u.side \in {"Buy", "Sell"} /\ u.size \in Nat
  <2>1. u \in UpdateType
    BY <1>1
  <2> QED
    BY <2>1 DEF UpdateType
<1>3. fills'[m] = Tail(fills[m])
  BY DEF HandleFill, TypeOK
<1>4. Kind(m) = Kind(m)' /\ u.side # side
  <2>1. CASE Ignored(m, u)
    BY <1>2, <2>1 DEF Ignored, Kind
  <2>2. CASE Bought(m, u) \/ BuyFailed(m, u) \/ Sold(m, u) \/ SellFailed(m, u)
    <3>1. Kind(m)' \in {"Holding", "Empty"}
      BY <2>2 DEF Bought, BuyFailed, Sold, SellFailed, Become, Kind, TypeOK, Holding, Empty, Stopped
    <3> QED
      BY <3>1
  <2> QED
    BY <2>1, <2>2 DEF HandleFill
<1>5. CASE \E o \in Orders : Owes(o, m, side)
  <2>1. \E o \in Orders : Owes(o, m, side)'
    BY <1>5 DEF HandleFill, Owes
  <2> QED
    BY <2>1, AwaitedMeans
<1>6. CASE Reported(m, side)
  <2>1. PICK i \in 1..Len(fills[m]) : fills[m][i].side = side
    BY <1>6 DEF Reported
  <2>2. i # 1
    BY <1>1, <1>4, <2>1
  <2>3. Len(fills[m]) \in Nat /\ Len(fills'[m]) = Len(fills[m]) - 1
    BY <1>1, <1>3
  <2>4. i - 1 \in 1..Len(fills'[m]) /\ fills'[m][i - 1] = fills[m][i]
    BY <1>1, <1>3, <2>1, <2>2, <2>3
  <2>5. Reported(m, side)'
    BY <2>1, <2>4 DEF Reported
  <2> QED
    BY <2>5, AwaitedMeans
<1> QED
  BY <1>4, <1>5, <1>6, AwaitedMeans

LEMMA EngineKeepsAwaited ==
    ASSUME TypeOK, PendingIsAwaited, NEW n \in Markets, EngineStep(n)
    PROVE  PendingIsAwaited'
<1> USE DEF guardVars, slotVars, inventoryVars, exchangeVars, engineVars
<1>1. SUFFICES ASSUME NEW m \in Markets, NEW side \in {"Buy", "Sell"},
                      Kind(m)' = (IF side = "Buy" THEN "PendingBuy" ELSE "PendingSell"),
                      Kind(m) = Kind(m)' => Awaited(m, side)
               PROVE  Awaited(m, side)'
  BY DEF PendingIsAwaited
<1>2. ASSUME UNCHANGED <<task, fills, state>> PROVE Awaited(m, side)'
  BY <1>1, <1>2 DEF Kind, Awaited, Running
<1>3. ASSUME Kind(m) = Kind(m)', UNCHANGED fills,
             \A q \in Orders : \A k, x : Owes(q, k, x) => Owes(q, k, x)'
      PROVE  Awaited(m, side)'
  <2>1. Reported(m, side) => Reported(m, side)'
    BY <1>3 DEF Reported
  <2> QED
    BY <1>1, <1>3, <2>1, AwaitedMeans
<1>4. ASSUME NEW s, Become(n, s), s.kind \notin {"PendingBuy", "PendingSell"}
      PROVE  m # n
  BY <1>1, <1>4 DEF Become, Kind, TypeOK
<1>5. ASSUME m # n, NEW s, Become(n, s) PROVE Kind(m) = Kind(m)'
  BY <1>5 DEF Become, Kind, TypeOK
<1>6. ASSUME NEW s, Become(n, s), s.kind \notin {"PendingBuy", "PendingSell"},
             UNCHANGED <<task, fills>>
      PROVE  Awaited(m, side)'
  BY <1>3, <1>4, <1>5, <1>6 DEF Owes
<1>7. CASE Start(n)
  BY <1>6, <1>7 DEF Start, Holding, Empty, Stopped
<1>8. CASE Stop(n)
  <2>1. m # n /\ Kind(m) = Kind(m)'
    BY <1>4, <1>5, <1>8 DEF Stop, Stopped
  <2>2. fills'[m] = fills[m]
    BY <1>8, <2>1 DEF Stop, TypeOK
  <2>3. \A o \in Orders : Owes(o, m, side) => Owes(o, m, side)'
    BY <1>8, <2>1 DEF Stop, Owes, TypeOK
  <2>4. Reported(m, side) => Reported(m, side)'
    BY <2>2 DEF Reported
  <2> QED
    BY <1>1, <2>1, <2>3, <2>4, AwaitedMeans
<1>9. CASE GiveUp(n)
  BY <1>6, <1>9 DEF GiveUp, Empty, Stopped
<1>10. CASE CooldownOver(n)
  BY <1>2, <1>10 DEF CooldownOver
<1>11. CASE Watchdog(n)
  BY <1>6, <1>11 DEF Watchdog, Empty, Stopped, Holding
<1>12. CASE HandleFill(n)
  <2>1. CASE m = n
    BY <1>1, <1>12, <2>1, HandleFillKeepsAwaited
  <2>2. CASE m # n
    <3>1. state'[m] = state[m] /\ fills'[m] = fills[m] /\ UNCHANGED task
      BY <1>12, <2>2 DEF HandleFill, Bought, BuyFailed, Sold, SellFailed, Ignored, Become, TypeOK
    <3> QED
      BY <1>1, <3>1 DEF Kind, Awaited, Running
  <2> QED
    BY <2>1, <2>2
<1>13. ASSUME NEW s \in Outcomes, NEW p \in BuyPrices, Consider(n, s, p)
       PROVE  Awaited(m, side)'
  BY <1>6, <1>13 DEF Consider, Deciding
<1>14. ASSUME NEW o \in Orders, NEW kind, NEW p, NEW k, NEW s,
              task[o].pc = "idle", Spawn(o, n, s, kind, p, k), UNCHANGED fills,
              m = n => kind = side,
              m # n => Kind(m) = Kind(m)'
       PROVE  Awaited(m, side)'
  <2>1. /\ Owes(o, n, kind)'
        /\ \A q \in Orders : \A j, x : Owes(q, j, x) => Owes(q, j, x)'
    BY <1>14, SpawnOwes
  <2>2. CASE m = n
    BY <1>14, <2>1, <2>2, AwaitedMeans
  <2>3. CASE m # n
    BY <1>3, <1>14, <2>1, <2>3
  <2> QED
    BY <2>2, <2>3
<1>15. ASSUME NEW o \in Orders, Buy(n, o) PROVE Awaited(m, side)'
  <2>1. m = n => side = "Buy"
    BY <1>1, <1>15 DEF Buy, Become, Kind, PendingBuy, Stopped, TypeOK
  <2> QED
    BY <1>5, <1>14, <1>15, <2>1 DEF Buy
<1>16. ASSUME NEW o \in Orders, NEW p \in SellPrices, Sell(n, p, o) PROVE Awaited(m, side)'
  <2>1. m = n => side = "Sell"
    BY <1>1, <1>16 DEF Sell, Become, Kind, PendingSell, TypeOK
  <2>2. PICK k : Spawn(o, n, state[n].outcome, "Sell", p, k)
    BY <1>16 DEF Sell
  <2> QED
    BY <1>5, <1>14, <1>16, <2>1, <2>2 DEF Sell
<1> QED
  BY <1>7, <1>8, <1>9, <1>10, <1>11, <1>12, <1>13, <1>15, <1>16 DEF EngineStep

LEMMA AwaitedKept == TypeOK /\ PendingIsAwaited /\ [Next]_vars => PendingIsAwaited'
<1> SUFFICES ASSUME TypeOK, PendingIsAwaited, [Next]_vars PROVE PendingIsAwaited'
  OBVIOUS
<1>1. CASE UNCHANGED <<state, fills, task>>
  BY <1>1 DEF PendingIsAwaited, Kind, Awaited, Running
<1>2. CASE UNCHANGED vars \/ ExchangeFill
  BY <1>1, <1>2 DEF vars, ExchangeFill, engineVars
<1>3. CASE Crash
  <2>1. \A m \in Markets : Kind(m)' = "Stopped"
    BY <1>3 DEF Crash, Kind, Stopped
  <2> QED
    BY <2>1 DEF PendingIsAwaited
<1> QED
  BY <1>2, <1>3, EngineKeepsAwaited, TaskKeepsAwaited DEF Next

\* "Every exit path MUST send an ExecutedOrderUpdate": no engine is ever in a
\* pending state without a task that will report to it or a report to read.
THEOREM ReportsSound == Spec => []PendingIsAwaited
<1>1. Init => PendingIsAwaited
  <2>1. Stopped.kind = "Stopped"
    BY DEF Stopped
  <2>2. Init => \A m \in Markets : Kind(m) = "Stopped"
    BY <2>1 DEF Init, Kind
  <2> QED
    BY <2>2 DEF PendingIsAwaited
<1> QED
  BY <1>1, AwaitedKept, TypeCorrect, PTL DEF Spec
-----------------------------------------------------------------------------
(***************************************************************************)
(* One buy per market, and the refinement of SlotPool, as long as the      *)
(* watchdog is not needed.  An engine that waits for a buy is owed one     *)
(* answer and gets one; an answer that nothing was bought comes when the   *)
(* market has no buy left, so the entry the engine then drops is its own.  *)
(***************************************************************************)
Owing(m)      == {o \in Orders : Owes(o, m, "Buy")}
BuyReports(m) == {i \in 1..Len(fills[m]) : fills[m][i].side = "Buy"}

\* Every buy that runs has its market's entry, and no two share it.
EntriesHeld == \A q \in RunningBuys : task[q].market \in tokenPendingBuy
OneOwner    == \A p, q \in RunningBuys : task[p].market = task[q].market => p = q

OneAnswer(m) ==
    /\ Kind(m) # "PendingBuy" => Owing(m) = {} /\ BuyReports(m) = {}
    /\ BuyReports(m) # {} => Owing(m) = {}
    /\ \A i, j \in BuyReports(m) : i = j
    /\ \A i \in BuyReports(m) : fills[m][i].size = 0 => BuysOf(m) = {}

PoolInv ==
    /\ EntriesHeld
    /\ OneOwner
    /\ \A m \in Markets : OneAnswer(m)

LEMMA OwingRuns == \A m : Owing(m) \subseteq BuysOf(m)
BY DEF Owing, Owes, BuysOf, RunningBuys, Running, IsBuy

LEMMA PoolInitially == Init => PoolInv
<1> SUFFICES ASSUME Init PROVE PoolInv
  OBVIOUS
<1>1. RunningBuys = {}
  BY DEF Init, RunningBuys, Running, IdleTask, Active
<1>2. ASSUME NEW m \in Markets PROVE Owing(m) = {} /\ BuyReports(m) = {}
  <2>1. Owing(m) = {}
    BY DEF Init, Owing, Owes, IdleTask, Active
  <2>2. Len(fills[m]) = 0
    BY DEF Init
  <2> QED
    BY <2>1, <2>2 DEF BuyReports
<1> QED
  BY <1>1, <1>2 DEF PoolInv, EntriesHeld, OneOwner, OneAnswer
-----------------------------------------------------------------------------
\* A failed buy is reported when its market has no buy left.
LEMMA FailureMeansNone ==
    ASSUME TypeOK, NEW m \in Markets, OneAnswer(m), HandleFill(m),
           BuyFailed(m, Head(fills[m]))
    PROVE  BuysOf(m) = {}
<1>1. fills[m] \in Seq(UpdateType) /\ fills[m] # <<>>
  BY DEF TypeOK, HandleFill
<1>2. 1 \in 1..Len(fills[m]) /\ Head(fills[m]) = fills[m][1]
  BY <1>1, HeadTailProperties, LenProperties
<1>3. fills[m][1].side = "Buy" /\ fills[m][1].size = 0
  BY <1>2 DEF BuyFailed
<1>4. 1 \in BuyReports(m)
  BY <1>2, <1>3 DEF BuyReports
<1> QED
  BY <1>3, <1>4 DEF OneAnswer

LEMMA EntriesKept ==
    ASSUME TypeOK, PoolInv, SlotStep, "watchdog" \notin Faults
    PROVE  EntriesHeld' /\ OneOwner'
<1> USE DEF PoolInv, EntriesHeld, OneOwner, SameMarkets
<1>1. CASE SlotsKept
  BY <1>1 DEF SlotsKept, slotVars
<1>2. ASSUME NEW o \in Orders, SlotsTaken(o) PROVE EntriesHeld' /\ OneOwner'
  BY <1>2 DEF SlotsTaken
<1>3. ASSUME NEW o \in Orders, SlotsReturned(o) PROVE EntriesHeld' /\ OneOwner'
  BY <1>3 DEF SlotsReturned
<1>4. ASSUME NEW m \in Markets, EntryDropped(m), EngineDrops(m) PROVE EntriesHeld' /\ OneOwner'
  <2>1. HandleFill(m) /\ BuyFailed(m, Head(fills[m]))
    BY <1>4 DEF EngineDrops, Watchdog
  <2>2. BuysOf(m) = {}
    BY <2>1, FailureMeansNone
  <2>3. \A q \in RunningBuys : task[q].market # m
    BY <2>2 DEF BuysOf
  <2> QED
    BY <1>4, <2>3 DEF EntryDropped
<1>5. CASE SlotsDropped
  BY <1>5 DEF SlotsDropped
<1> QED
  BY <1>1, <1>2, <1>3, <1>4, <1>5 DEF SlotStep

\* A market whose engine keeps waiting, or keeps not waiting.
LEMMA AnswerFrame ==
    ASSUME NEW m \in Markets, OneAnswer(m), fills'[m] = fills[m],
           Kind(m)' # "PendingBuy" => Kind(m) # "PendingBuy" \/ (Owing(m) = {} /\ BuyReports(m) = {}),
           Owing(m)' \subseteq Owing(m), BuysOf(m)' \subseteq BuysOf(m) \/ BuyReports(m) = {}
    PROVE  OneAnswer(m)'
<1>1. BuyReports(m)' = BuyReports(m)
  BY DEF BuyReports
<1> QED
  BY <1>1 DEF OneAnswer

LEMMA ReportsGrow ==
    ASSUME NEW m \in Markets, fills[m] \in Seq(UpdateType), NEW u \in UpdateType,
           fills'[m] = Append(fills[m], u)
    PROVE  /\ BuyReports(m)' = BuyReports(m) \union
                  {i \in {Len(fills[m]) + 1} : u.side = "Buy"}
           /\ \A i \in BuyReports(m) : fills'[m][i] = fills[m][i]
           /\ fills'[m][Len(fills[m]) + 1] = u
<1> DEFINE n == Len(fills[m])
<1>1. n \in Nat /\ Len(fills'[m]) = n + 1
  BY AppendProperties, LenProperties
<1>2. \A i \in 1..n : fills'[m][i] = fills[m][i]
  BY AppendProperties
<1>3. fills'[m][n + 1] = u
  BY AppendProperties
<1>4. 1..(n + 1) = (1..n) \union {n + 1}
  BY <1>1
<1> HIDE DEF n
<1>5. BuyReports(m) = {i \in 1..n : fills[m][i].side = "Buy"}
  BY DEF BuyReports, n
<1>6. BuyReports(m)' = {i \in 1..(n + 1) : fills'[m][i].side = "Buy"}
  BY <1>1 DEF BuyReports
<1>7. BuyReports(m)' = BuyReports(m) \union {i \in {n + 1} : u.side = "Buy"}
  BY <1>2, <1>3, <1>4, <1>5, <1>6
<1> QED
  BY <1>2, <1>3, <1>5, <1>7 DEF n

\* A task that reports was owing the answer its engine waits for, alone.
LEMMA ReportAnswers ==
    ASSUME TypeOK, OneOwner, NEW k \in Markets, OneAnswer(k), NEW o \in Orders,
           task[o].pc \in Active \ {"release"},
           NEW size \in Nat, NEW synced \in Nat, Report(o, size, synced),
           UNCHANGED state, Owing(k)' \subseteq Owing(k) \ {o},
           BuysOf(k)' \subseteq BuysOf(k), size = 0 => o \notin BuysOf(k)'
    PROVE  OneAnswer(k)'
<1> DEFINE u == [side |-> task[o].side, outcome |-> task[o].outcome,
                 price |-> task[o].price, size |-> size,
                 synced |-> synced, reserved |-> Reserved(o)]
<1>1. Kind(k)' = Kind(k)
  BY DEF Kind
<1>2. fills[k] \in Seq(UpdateType) /\ u \in UpdateType
  BY TaskFacts DEF TypeOK, UpdateType
<1>3. CASE task[o].attached /\ task[o].market = k
  <2>1. fills' = [fills EXCEPT ![k] = Append(@, u)]
    BY <1>3 DEF Report
  <2>2. fills'[k] = Append(fills[k], u)
    BY <2>1 DEF TypeOK
  <2>3. /\ BuyReports(k)' = BuyReports(k) \union
               {i \in {Len(fills[k]) + 1} : u.side = "Buy"}
        /\ \A i \in BuyReports(k) : fills'[k][i] = fills[k][i]
        /\ fills'[k][Len(fills[k]) + 1] = u
    BY <1>2, <2>2, ReportsGrow
  <2>4. CASE task[o].side = "Sell"
    <3>1. BuyReports(k)' = BuyReports(k)
      BY <2>3, <2>4
    <3> QED
      BY <1>1, <2>3, <3>1 DEF OneAnswer
  <2>5. CASE task[o].side = "Buy"
    <3>1. o \in Owing(k)
      BY <1>3, <2>5 DEF Owing, Owes
    <3>2. Kind(k) = "PendingBuy" /\ BuyReports(k) = {}
      BY <3>1 DEF OneAnswer
    <3>3. BuysOf(k) \subseteq {o}
      BY <3>1, OwingRuns DEF OneOwner, BuysOf
    <3>4. Owing(k)' = {}
      BY <3>3, OwingRuns
    <3>5. BuyReports(k)' = {Len(fills[k]) + 1}
      BY <2>3, <2>5, <3>2
    <3>6. size = 0 => BuysOf(k)' = {}
      BY <3>3
    <3> QED
      BY <1>1, <2>3, <3>2, <3>4, <3>5, <3>6 DEF OneAnswer
  <2> QED
    BY <2>4, <2>5, TaskFacts
<1>4. CASE ~(task[o].attached /\ task[o].market = k)
  <2>1. fills'[k] = fills[k]
    BY <1>4, TaskFacts DEF Report, TypeOK
  <2> QED
    BY <1>1, <2>1, AnswerFrame
<1> QED
  BY <1>3, <1>4

\* What one task does to the answers a market is owed.
LEMMA OneTaskOwes ==
    ASSUME TypeOK, NEW o \in Running, NEW r, task' = [task EXCEPT ![o] = r],
           r.pc \in Active => /\ r.market = task[o].market /\ r.side = task[o].side
                              /\ r.attached = task[o].attached,
           NEW k \in Markets
    PROVE  /\ Owing(k)' \subseteq Owing(k) \union {q \in {o} : task[o].pc = "release"}
           /\ BuysOf(k)' \subseteq BuysOf(k)
           /\ r.pc \notin Active \ {"release"} => o \notin Owing(k)'
           /\ r.pc \notin Active => o \notin BuysOf(k)'
<1>1. o \in Orders /\ task[o].pc \in Active
  BY DEF Running
<1>2. task'[o] = r /\ \A q \in Orders \ {o} : task'[q] = task[q]
  BY <1>1 DEF TypeOK
<1> QED
  BY <1>1, <1>2 DEF Owing, Owes, BuysOf, RunningBuys, Running, IsBuy

LEMMA TaskAnswers ==
    ASSUME TypeOK, PoolInv, NEW o \in Orders, TaskStep(o), NEW k \in Markets
    PROVE  OneAnswer(k)'
<1> USE DEF guardVars, slotVars, inventoryVars, exchangeVars, engineVars
<1>1. UNCHANGED state
  BY DEF TaskStep, Reserve, Fire, Place, After, Release
<1>2. /\ o \in Running /\ task[o] \in TaskType
      /\ OneOwner /\ OneAnswer(k) /\ Kind(k)' = Kind(k)
  BY <1>1 DEF TaskStep, Reserve, Fire, Place, After, Release, Running, Active, TypeOK,
              PoolInv, Kind
<1>3. DoneTask.pc \notin Active
  BY DEF DoneTask, IdleTask, Active
<1>4. ASSUME NEW r, task' = [task EXCEPT ![o] = r], UNCHANGED fills,
             r.pc \in Active => /\ r.market = task[o].market /\ r.side = task[o].side
                                /\ r.attached = task[o].attached,
             task[o].pc # "release" \/ r.pc \notin Active
      PROVE  OneAnswer(k)'
  <2>1. /\ Owing(k)' \subseteq Owing(k) \union {q \in {o} : task[o].pc = "release"}
        /\ BuysOf(k)' \subseteq BuysOf(k)
        /\ r.pc \notin Active \ {"release"} => o \notin Owing(k)'
    BY <1>2, <1>4, OneTaskOwes
  <2>2. Owing(k)' \subseteq Owing(k)
    BY <1>4, <2>1
  <2>3. fills'[k] = fills[k]
    BY <1>4
  <2> QED
    BY <1>2, <2>1, <2>2, <2>3, AnswerFrame
<1>5. ASSUME NEW r, task' = [task EXCEPT ![o] = r], task[o].pc # "release",
             r.pc \notin Active \ {"release"},
             r.pc \in Active => /\ r.market = task[o].market /\ r.side = task[o].side
                                /\ r.attached = task[o].attached,
             NEW size \in Nat, NEW synced \in Nat, Report(o, size, synced),
             size = 0 => r.pc \notin Active
      PROVE  OneAnswer(k)'
  <2>1. /\ Owing(k)' \subseteq Owing(k) \union {q \in {o} : task[o].pc = "release"}
        /\ BuysOf(k)' \subseteq BuysOf(k)
        /\ o \notin Owing(k)'
        /\ r.pc \notin Active => o \notin BuysOf(k)'
    BY <1>2, <1>5, OneTaskOwes
  <2>2. task[o].pc \in Active \ {"release"}
    BY <1>2, <1>5 DEF Running
  <2>3. Owing(k)' \subseteq Owing(k) \ {o} /\ (size = 0 => o \notin BuysOf(k)')
    BY <1>5, <2>1
  <2> QED
    BY <1>1, <1>2, <1>5, <2>1, <2>2, <2>3, ReportAnswers
<1>6. ASSUME NEW budget, NEW synced \in Nat, RollBack(o, budget, synced),
             task[o].pc # "release"
      PROVE  OneAnswer(k)'
  BY <1>3, <1>5, <1>6 DEF RollBack
<1>7. ASSUME NEW l, Goto(o, l)
      PROVE  LET r == [task[o] EXCEPT !.pc = l]
             IN  /\ task' = [task EXCEPT ![o] = r] /\ r.pc = l
                 /\ r.market = task[o].market /\ r.side = task[o].side
                 /\ r.attached = task[o].attached
  BY <1>2, <1>7 DEF Goto, TypeOK, TaskType
<1>8. ASSUME NEW l, Goto(o, l), UNCHANGED fills, task[o].pc # "release"
      PROVE  OneAnswer(k)'
  BY <1>4, <1>7, <1>8
<1>9. LocalPosition(Token(o)) \in Nat /\ position[Token(o)] \in Nat /\ task[o].before \in Nat
  BY TaskFacts, PositionFacts
<1>10. CASE Reserve(o)
  BY <1>6, <1>8, <1>9, <1>10 DEF Reserve
<1>11. CASE Fire(o)
  <2>1. CASE DryRun \/ ~HasClient
    BY <1>6, <1>11, <1>9, <2>1 DEF Fire
  <2>2. CASE ~(DryRun \/ ~HasClient)
    <3>1. PICK p : task' = [task EXCEPT ![o].before = p, ![o].pc = "place"]
      BY <1>11, <2>2 DEF Fire
    <3>2. task' = [task EXCEPT ![o] = [task[o] EXCEPT !.before = p, !.pc = "place"]]
      BY <3>1 DEF TypeOK
    <3>3. LET r == [task[o] EXCEPT !.before = p, !.pc = "place"]
          IN  /\ r.attached = task[o].attached
              /\ r.market = task[o].market /\ r.side = task[o].side
      BY <1>2 DEF TaskType
    <3> QED
      BY <1>4, <1>11, <2>2, <3>2, <3>3 DEF Fire
  <2> QED
    BY <2>1, <2>2
<1>12. CASE Place(o)
  BY <1>6, <1>8, <1>9, <1>12 DEF Place
<1>13. CASE After(o)
  <2>1. \A x, y \in Nat : AtLeastZero(x - y) \in Nat
    BY DEF AtLeastZero
  <2>2. task[o].pc = "after"
    BY <1>13 DEF After
  <2>3. \/ \E synced \in Nat : RollBack(o, Reserved(o), synced)
        \/ Goto(o, "release") /\ \E size \in Nat \ {0}, synced \in Nat : Report(o, size, synced)
    BY <1>13, <1>9, <2>1 DEF After
  <2>4. CASE \E synced \in Nat : RollBack(o, Reserved(o), synced)
    BY <1>6, <2>2, <2>4
  <2>5. CASE Goto(o, "release") /\ \E size \in Nat \ {0}, synced \in Nat : Report(o, size, synced)
    BY <1>5, <1>7, <2>2, <2>5
  <2> QED
    BY <2>3, <2>4, <2>5
<1>14. CASE Release(o)
  BY <1>3, <1>4, <1>14 DEF Release
<1> QED
  BY <1>10, <1>11, <1>12, <1>13, <1>14 DEF TaskStep
-----------------------------------------------------------------------------
LEMMA HandledAnswers ==
    ASSUME TypeOK, NEW m \in Markets, OneAnswer(m), HandleFill(m)
    PROVE  OneAnswer(m)'
<1> DEFINE u == Head(fills[m])
<1>1. fills[m] \in Seq(UpdateType) /\ fills[m] # <<>>
  BY DEF TypeOK, HandleFill
<1>2. /\ Len(fills[m]) \in Nat \ {0} /\ Len(fills'[m]) = Len(fills[m]) - 1
      /\ \A j \in 1..Len(fills'[m]) : fills'[m][j] = fills[m][j + 1]
      /\ u = fills[m][1]
  <2>1. fills'[m] = Tail(fills[m])
    BY DEF HandleFill, TypeOK
  <2> QED
    BY <1>1, <2>1, HeadTailProperties, EmptySeq
<1>3. \A j \in BuyReports(m)' : /\ j + 1 \in BuyReports(m) /\ j \in Nat \ {0}
                                /\ fills'[m][j] = fills[m][j + 1]
  BY <1>2 DEF BuyReports
<1>4. Owing(m)' = Owing(m) /\ BuysOf(m)' = BuysOf(m)
  BY DEF HandleFill, Owing, Owes, BuysOf, RunningBuys, Running, IsBuy
<1>5. CASE u.side = "Buy"
  <2>1. 1 \in BuyReports(m)
    BY <1>2, <1>5 DEF BuyReports
  <2>2. Owing(m) = {} /\ \A i \in BuyReports(m) : i = 1
    BY <2>1 DEF OneAnswer
  <2>3. BuyReports(m)' = {}
    BY <1>3, <2>2
  <2> QED
    BY <1>4, <2>2, <2>3 DEF OneAnswer
<1>6. CASE u.side # "Buy" /\ Kind(m) = "PendingBuy"
  <2>1. Kind(m)' = Kind(m)
    BY <1>6 DEF HandleFill, Bought, BuyFailed, Sold, SellFailed, Ignored, Kind
  <2>2. \A i, j \in BuyReports(m)' : i = j
    BY <1>3 DEF OneAnswer
  <2>3. BuyReports(m)' # {} => Owing(m)' = {}
    BY <1>3, <1>4 DEF OneAnswer
  <2>4. \A j \in BuyReports(m)' : fills'[m][j].size = 0 => BuysOf(m)' = {}
    BY <1>3, <1>4 DEF OneAnswer
  <2> QED
    BY <1>6, <2>1, <2>2, <2>3, <2>4 DEF OneAnswer
<1>7. CASE Kind(m) # "PendingBuy"
  <2>1. Owing(m)' = {} /\ BuyReports(m) = {}
    BY <1>4, <1>7 DEF OneAnswer
  <2>2. BuyReports(m)' = {}
    BY <1>3, <2>1
  <2> QED
    BY <2>1, <2>2 DEF OneAnswer
<1> QED
  BY <1>5, <1>6, <1>7

LEMMA EngineAnswers ==
    ASSUME TypeOK, PoolInv, "watchdog" \notin Faults,
           NEW m \in Markets, EngineStep(m), NEW k \in Markets
    PROVE  OneAnswer(k)'
<1> USE DEF guardVars, slotVars, inventoryVars, exchangeVars, engineVars
<1>1. OneAnswer(k)
  BY DEF PoolInv
<1>2. CASE k # m
  <2>1. state'[k] = state[k] /\ fills'[k] = fills[k]
    BY <1>2 DEF EngineStep, Start, Stop, GiveUp, CooldownOver, Watchdog, HandleFill, Bought,
                BuyFailed, Sold, SellFailed, Ignored, Consider, Buy, Sell, Become, TypeOK
  <2>2. \A q \in Orders : task'[q] = task[q] \/ task'[q].market = m
    <3>1. CASE Stop(m)
      BY <3>1 DEF Stop, TypeOK, TaskType
    <3>2. ASSUME NEW o \in Orders, NEW s, NEW side, NEW p, NEW n, Spawn(o, m, s, side, p, n)
          PROVE  \A q \in Orders : task'[q] = task[q] \/ task'[q].market = m
      BY <3>2 DEF Spawn, TypeOK
    <3>3. CASE \E o \in Orders : Buy(m, o)
      BY <3>2, <3>3 DEF Buy
    <3>4. CASE \E o \in Orders, p \in SellPrices : Sell(m, p, o)
      BY <3>2, <3>4 DEF Sell
    <3>5. CASE UNCHANGED task
      BY <3>5
    <3> QED
      BY <3>1, <3>3, <3>4, <3>5
         DEF EngineStep, Start, GiveUp, CooldownOver, Watchdog, HandleFill, Consider
  <2>3. Owing(k)' \subseteq Owing(k) /\ BuysOf(k)' \subseteq BuysOf(k)
    BY <1>2, <2>2 DEF Owing, Owes, BuysOf, RunningBuys, Running, IsBuy
  <2> QED
    BY <1>1, <2>1, <2>3, AnswerFrame DEF Kind
<1>3. ASSUME k = m, UNCHANGED <<task, fills>>, Kind(m) = Kind(m)' \/ Kind(m) # "PendingBuy"
      PROVE  OneAnswer(k)'
  <2>1. Owing(k)' = Owing(k) /\ BuysOf(k)' = BuysOf(k) /\ fills'[k] = fills[k]
    BY <1>3 DEF Owing, Owes, BuysOf, RunningBuys, Running, IsBuy
  <2> QED
    BY <1>1, <1>3, <2>1, AnswerFrame DEF OneAnswer
<1>4. CASE k = m /\ (Start(m) \/ GiveUp(m) \/ CooldownOver(m))
  BY <1>3, <1>4 DEF Start, GiveUp, CooldownOver, Kind
<1>5. CASE k = m /\ Stop(m)
  <2>1. Owing(m)' = {}
    BY <1>5 DEF Stop, Owing, Owes, TypeOK, TaskType
  <2>2. fills'[m] = <<>>
    BY <1>5 DEF Stop, TypeOK
  <2>3. Len(fills'[m]) = 0
    BY <2>2
  <2>4. BuyReports(m)' = {}
    BY <2>3 DEF BuyReports
  <2> QED
    BY <1>5, <2>1, <2>4 DEF OneAnswer
<1>6. CASE k = m /\ HandleFill(m)
  BY <1>1, <1>6, HandledAnswers
<1>7. ASSUME k = m, NEW s \in Outcomes, NEW p \in BuyPrices, Consider(m, s, p)
      PROVE  OneAnswer(k)'
  BY <1>3, <1>7 DEF Consider, Kind
<1>8. ASSUME k = m, NEW o \in Orders, Buy(m, o)
      PROVE  OneAnswer(k)'
  <2>1. BuyReports(m)' = BuyReports(m) /\ Kind(m) = "Deciding"
    BY <1>8 DEF Buy, BuyReports
  <2>2. Kind(m)' = "PendingBuy"
    BY <1>8 DEF Buy, Become, Kind, PendingBuy, Stopped, TypeOK
  <2>3. BuyReports(m)' = {}
    BY <1>1, <1>8, <2>1 DEF OneAnswer
  <2> QED
    BY <1>8, <2>2, <2>3 DEF OneAnswer
<1>9. ASSUME k = m, NEW o \in Orders, NEW p \in SellPrices, Sell(m, p, o)
      PROVE  OneAnswer(k)'
  <2>1. BuyReports(m)' = BuyReports(m) /\ Kind(m) = "Holding"
    BY <1>9 DEF Sell, BuyReports
  <2>2. PICK n : Spawn(o, m, state[m].outcome, "Sell", p, n)
    BY <1>9 DEF Sell
  <2>3. Owing(m)' \subseteq Owing(m)
    BY <2>2 DEF Spawn, Owing, Owes, TypeOK
  <2>4. BuyReports(m)' = {} /\ Owing(m)' = {}
    BY <1>1, <1>9, <2>1, <2>3 DEF OneAnswer
  <2> QED
    BY <1>9, <2>4 DEF OneAnswer
<1>10. ~Watchdog(m)
  BY DEF Watchdog
<1> QED
  BY <1>2, <1>4, <1>5, <1>6, <1>7, <1>8, <1>9, <1>10 DEF EngineStep

LEMMA PoolInvKept ==
    ASSUME "watchdog" \notin Faults
    PROVE  TypeOK /\ PoolInv /\ [Next]_vars => PoolInv'
<1> SUFFICES ASSUME TypeOK, PoolInv, [Next]_vars PROVE PoolInv'
  OBVIOUS
<1>1. EntriesHeld' /\ OneOwner'
  BY NextSlotStep, EntriesKept
<1>2. ASSUME NEW k \in Markets PROVE OneAnswer(k)'
  <2>1. OneAnswer(k)
    BY DEF PoolInv
  <2>2. CASE UNCHANGED vars \/ ExchangeFill
    <3>1. UNCHANGED <<state, fills, task>>
      BY <2>2 DEF vars, ExchangeFill, engineVars
    <3> QED
      BY <2>1, <3>1 DEF OneAnswer, Kind, Owing, Owes, BuyReports, BuysOf, RunningBuys,
                        Running, IsBuy
  <2>3. CASE Crash
    <3>1. Len(fills'[k]) = 0
      BY <2>3 DEF Crash
    <3>2. \A q \in Orders : task'[q].pc \notin Active
      BY <2>3 DEF Crash, DoneTask, IdleTask, Active
    <3>3. BuyReports(k)' = {} /\ Owing(k)' = {}
      BY <3>1, <3>2 DEF BuyReports, Owing, Owes
    <3> QED
      BY <3>3 DEF OneAnswer
  <2> QED
    BY <2>2, <2>3, EngineAnswers, TaskAnswers DEF Next
<1> QED
  BY <1>1, <1>2 DEF PoolInv
-----------------------------------------------------------------------------
LEMMA OneOwnerOneBuy == OneOwner => OneBuyPerMarket
<1> SUFFICES ASSUME OneOwner, NEW m \in Markets PROVE Cardinality(BuysOf(m)) <= 1
  BY DEF OneBuyPerMarket
<1>1. CASE BuysOf(m) = {}
  BY <1>1, FS_EmptySet
<1>2. CASE BuysOf(m) # {}
  <2>1. PICK o : o \in BuysOf(m)
    BY <1>2
  <2>2. BuysOf(m) = {o}
    BY <2>1 DEF OneOwner, BuysOf
  <2> QED
    BY <2>2, FS_Singleton
<1> QED
  BY <1>1, <1>2

\* Without the watchdog no two BUY tasks ever run for one market: the entry in
\* token_pending_buy outlives a stop and a restart of the market's engine, and
\* the engine that drops it on a failed buy drops its own.
THEOREM OneBuySound ==
    ASSUME "watchdog" \notin Faults
    PROVE  Spec => []OneBuyPerMarket
<1>1. Init => PoolInv
  BY PoolInitially
<1>2. TypeOK /\ PoolInv /\ [Next]_vars => PoolInv'
  BY PoolInvKept
<1>3. PoolInv => OneBuyPerMarket
  BY OneOwnerOneBuy DEF PoolInv
<1> QED
  BY <1>1, <1>2, <1>3, TypeCorrect, PTL DEF Spec
-----------------------------------------------------------------------------
InFlight == {<<o, task[o].market>> : o \in RunningBuys}

\* The pool holds a slot for each of the running buys.
LEMMA PoolIsCounted == SlotsAccounted => Cardinality(InFlight) = buyCount
<1> DEFINE f == [o \in RunningBuys |-> <<o, task[o].market>>]
<1>1. IsFiniteSet(RunningBuys)
  BY EngineAssumption, FS_Subset DEF RunningBuys, Running
<1>2. f \in Surjection(RunningBuys, InFlight) /\ f \in Injection(RunningBuys, InFlight)
  BY DEF Surjection, Injection, IsInjective, InFlight
<1>3. Cardinality(InFlight) = Cardinality(RunningBuys)
  BY <1>1, <1>2, FS_Surjection
<1> QED
  BY <1>3 DEF SlotsAccounted

\* A task that takes its slots acquires from the pool, one that returns them
\* releases, and an engine that drops an entry leaves the pool alone.
LEMMA PoolStep ==
    ASSUME TypeOK, PoolInv, SlotsAccounted, SlotStep, "crash" \notin Faults
    PROVE  [Pool!Next]_InFlight
<1>1. CASE SlotsKept \/ \E m \in Markets : EntryDropped(m)
  BY <1>1 DEF SlotsKept, EntryDropped, SameMarkets, InFlight
<1>2. ASSUME NEW o \in Orders, SlotsTaken(o)
      PROVE  \E m \in Markets : Pool!Acquire(o, m)
  <2>1. PICK m \in Markets : m = task'[o].market
    BY <1>2 DEF SlotsTaken
  <2>2. InFlight' = InFlight \union {<<o, m>>}
    BY <1>2, <2>1 DEF SlotsTaken, SameMarkets, InFlight
  <2>3. \A other \in InFlight : other[1] # o /\ other[2] # m
    BY <1>2, <2>1 DEF SlotsTaken, InFlight, PoolInv, EntriesHeld
  <2>4. Cardinality(InFlight) < MaxConcurrentBuys
    BY <1>2, PoolIsCounted DEF SlotsTaken
  <2>5. Pool!Acquire(o, m)
    BY <2>2, <2>3, <2>4 DEF Pool!Acquire, Pool!Cardinality, Cardinality, InFlight
  <2> QED
    BY <2>5
<1>3. ASSUME NEW o \in Orders, SlotsReturned(o)
      PROVE  \E m \in Markets : Pool!Release(o, m)
  <2> DEFINE m == task[o].market
  <2>1. InFlight' = InFlight \ {<<o, m>>} /\ <<o, m>> \in InFlight
    BY <1>3 DEF SlotsReturned, SameMarkets, InFlight
  <2>2. m \in Markets
    BY TaskFacts
  <2> QED
    BY <2>1, <2>2 DEF Pool!Release, InFlight
<1>4. ~Crash
  BY DEF Crash
<1> QED
  BY <1>1, <1>2, <1>3, <1>4 DEF SlotStep, Pool!Next, InFlight

\* Without the watchdog and without crashes the engine, its tasks, stops and
\* restarts implement the abstract pool of BUY slots.
THEOREM TasksImplementPool ==
    ASSUME "watchdog" \notin Faults, "crash" \notin Faults
    PROVE  Spec => PoolSpec
<1>1. Init => Pool!Init
  <2> SUFFICES ASSUME Init PROVE Pool!Init
    OBVIOUS
  <2>1. RunningBuys = {}
    BY DEF Init, RunningBuys, Running, IdleTask, Active
  <2> QED
    BY <2>1 DEF Pool!Init
<1>2. Init => PoolInv
  BY PoolInitially
<1>3. TypeOK /\ PoolInv /\ [Next]_vars => PoolInv'
  BY PoolInvKept
<1>4. TypeOK /\ PoolInv /\ SlotsAccounted /\ [Next]_vars
      => [Pool!Next]_{<<o, task[o].market>> : o \in RunningBuys}
  BY NextSlotStep, PoolStep DEF InFlight
<1> QED
  BY <1>1, <1>2, <1>3, <1>4, TypeCorrect, SlotsSound, PTL DEF Spec, PoolSpec, Pool!Spec
-----------------------------------------------------------------------------
(***************************************************************************)
(* The terms of an order are those its engine spawned it with, for as long *)
(* as its task runs, and the terms an engine decides on stay until then.   *)
(***************************************************************************)
SameTerms(o) ==
    /\ task'[o].market = task[o].market /\ task'[o].outcome = task[o].outcome
    /\ task'[o].side = task[o].side /\ task'[o].price = task[o].price
    /\ task'[o].size = task[o].size

TermsStep(o) == task'[o].pc \in Active =>
    \/ /\ task[o].pc \in Active /\ SameTerms(o)
       /\ task[o].pc = "release" => task'[o].pc = "release"
    \/ \E m \in Markets : Buy(m, o) \/ \E p \in SellPrices : Sell(m, p, o)

DecidingStep(m) == Kind(m)' = "Deciding" =>
    \/ state'[m] = state[m]
    \/ \E s \in Outcomes, p \in BuyPrices : Consider(m, s, p)

LEMMA EngineTerms ==
    ASSUME TypeOK, NEW m \in Markets, EngineStep(m)
    PROVE  \A o \in Orders : TermsStep(o)
<1>1. ASSUME UNCHANGED task PROVE \A o \in Orders : TermsStep(o)
  BY <1>1 DEF TermsStep, SameTerms
<1>2. CASE Stop(m)
  <2>1. \A o \in Orders : task'[o] = task[o] \/ task'[o] = [task[o] EXCEPT !.attached = FALSE]
    BY <1>2 DEF Stop
  <2>2. \A o \in Orders : task[o] \in TaskType
    BY DEF TypeOK
  <2> QED
    BY <2>1, <2>2 DEF TermsStep, SameTerms, TaskType
<1>3. ASSUME NEW o \in Orders, Buy(m, o) \/ \E p \in SellPrices : Sell(m, p, o)
      PROVE  \A q \in Orders : TermsStep(q)
  <2>1. \A q \in Orders \ {o} : task'[q] = task[q]
    BY <1>3 DEF Buy, Sell, Spawn, TypeOK
  <2>2. TermsStep(o)
    BY <1>3 DEF TermsStep
  <2> QED
    BY <2>1, <2>2 DEF TermsStep, SameTerms
<1>4. ASSUME NEW s \in Outcomes, NEW p \in BuyPrices, Consider(m, s, p)
      PROVE  UNCHANGED task
  BY <1>4 DEF Consider
<1> QED
  BY <1>1, <1>2, <1>3, <1>4
     DEF EngineStep, Start, GiveUp, CooldownOver, Watchdog, HandleFill

LEMMA TaskTerms ==
    ASSUME TypeOK, NEW o \in Orders, TaskStep(o)
    PROVE  \A q \in Orders : TermsStep(q)
<1>1. task[o].pc \in Active /\ task[o] \in TaskType
  BY DEF TaskStep, Reserve, Fire, Place, After, Release, Active, TypeOK
<1>2. \A q \in Orders \ {o} : task'[q] = task[q]
  BY DEF TaskStep, Reserve, Fire, Place, After, Release, RollBack, Goto, TypeOK
<1>3. task'[o].pc \notin Active \/ SameTerms(o)
  <2>1. ASSUME NEW budget, NEW synced, RollBack(o, budget, synced) PROVE task'[o].pc \notin Active
    BY <2>1 DEF RollBack, TypeOK, DoneTask, IdleTask, Active
  <2>2. ASSUME NEW l, Goto(o, l) PROVE SameTerms(o)
    BY <2>2, <1>1 DEF Goto, TaskType, TypeOK, SameTerms
  <2>3. ASSUME NEW p, task' = [task EXCEPT ![o].before = p, ![o].pc = "place"] PROVE SameTerms(o)
    BY <2>3, <1>1 DEF TaskType, TypeOK, SameTerms
  <2>4. CASE Reserve(o) \/ Place(o)
    BY <2>1, <2>2, <2>4 DEF Reserve, Place
  <2>5. CASE Fire(o)
    BY <2>1, <2>3, <2>5 DEF Fire
  <2>6. CASE After(o)
    BY <2>1, <2>2, <2>6 DEF After
  <2>7. CASE Release(o)
    BY <2>7 DEF Release, TypeOK, DoneTask, IdleTask, Active
  <2> QED
    BY <2>4, <2>5, <2>6, <2>7 DEF TaskStep
<1>4. TermsStep(o)
  <2>1. task[o].pc = "release" => Release(o)
    BY DEF TaskStep, Reserve, Fire, Place, After
  <2>2. Release(o) => task'[o].pc \notin Active
    BY DEF Release, TypeOK, DoneTask, IdleTask, Active
  <2> QED
    BY <1>1, <1>3, <2>1, <2>2 DEF TermsStep
<1> QED
  BY <1>2, <1>4 DEF TermsStep, SameTerms

LEMMA TermsKept == TypeOK /\ [Next]_vars => \A o \in Orders : TermsStep(o)
<1>1. UNCHANGED task => \A o \in Orders : TermsStep(o)
  BY DEF TermsStep, SameTerms
<1>2. Crash => \A o \in Orders : TermsStep(o)
  BY DEF Crash, TermsStep, SameTerms, DoneTask, IdleTask, Active
<1> QED
  BY <1>1, <1>2, EngineTerms, TaskTerms DEF Next, vars, ExchangeFill

LEMMA DecisionsKept == TypeOK /\ [Next]_vars => \A m \in Markets : DecidingStep(m)
<1>1. UNCHANGED state => \A m \in Markets : DecidingStep(m)
  BY DEF DecidingStep
<1>2. Crash => \A m \in Markets : DecidingStep(m)
  BY DEF Crash, DecidingStep, Kind, Stopped
<1>3. ASSUME TypeOK, NEW m \in Markets, NEW s, Become(m, s), s.kind # "Deciding"
      PROVE  \A k \in Markets : DecidingStep(k)
  BY <1>3 DEF Become, TypeOK, DecidingStep, Kind
<1>4. ASSUME TypeOK, NEW m \in Markets, EngineStep(m)
      PROVE  \A k \in Markets : DecidingStep(k)
  <2>1. \A s, n : /\ Holding(s, n).kind # "Deciding" /\ PendingSell(s, n).kind # "Deciding"
                  /\ Empty.kind # "Deciding" /\ PendingBuy.kind # "Deciding"
                  /\ Stopped.kind # "Deciding"
    BY DEF Holding, PendingSell, Empty, PendingBuy, Stopped
  <2>2. CASE Start(m) \/ Stop(m) \/ GiveUp(m)
    BY <1>3, <1>4, <2>1, <2>2 DEF Start, Stop, GiveUp
  <2>3. CASE CooldownOver(m)
    BY <1>1, <2>3 DEF CooldownOver
  <2>4. CASE Watchdog(m)
    BY <1>3, <1>4, <2>1, <2>4 DEF Watchdog
  <2>5. CASE HandleFill(m)
    <3> DEFINE u == Head(fills[m])
    <3>1. CASE Ignored(m, u)
      BY <1>1, <3>1 DEF Ignored
    <3>2. CASE Bought(m, u) \/ BuyFailed(m, u) \/ Sold(m, u) \/ SellFailed(m, u)
      BY <1>3, <1>4, <2>1, <3>2 DEF Bought, BuyFailed, Sold, SellFailed
    <3> QED
      BY <2>5, <3>1, <3>2 DEF HandleFill
  <2>6. ASSUME NEW s \in Outcomes, NEW p \in BuyPrices, Consider(m, s, p)
        PROVE  \A k \in Markets : DecidingStep(k)
    <3>1. DecidingStep(m)
      BY <2>6 DEF DecidingStep
    <3>2. \A k \in Markets \ {m} : state'[k] = state[k]
      BY <2>6, <1>4 DEF Consider, Become, TypeOK
    <3> QED
      BY <3>1, <3>2 DEF DecidingStep
  <2>7. ASSUME NEW o \in Orders, Buy(m, o) \/ \E p \in SellPrices : Sell(m, p, o)
        PROVE  \A k \in Markets : DecidingStep(k)
    BY <1>3, <1>4, <2>1, <2>7 DEF Buy, Sell
  <2> QED
    BY <1>4, <2>2, <2>3, <2>4, <2>5, <2>6, <2>7 DEF EngineStep
<1>5. \A o : TaskStep(o) => UNCHANGED state
  BY DEF TaskStep, Reserve, Fire, Place, After, Release, engineVars
<1> QED
  BY <1>1, <1>2, <1>4, <1>5 DEF Next, vars, engineVars, ExchangeFill

\* An order has a price its engine met.
PricesMet ==
    /\ \A o \in Orders : task[o].pc \in Active =>
          task[o].price \in IF IsBuy(o) THEN BuyPrices ELSE SellPrices
    /\ \A m \in Markets : Kind(m) = "Deciding" => state[m].price \in BuyPrices

LEMMA NothingRuns ==
    ASSUME Init
    PROVE  /\ \A o \in Orders : task[o].pc = "idle" /\ task[o].pc \notin Active
           /\ \A m \in Markets : Kind(m) = "Stopped"
<1>1. \A o \in Orders : task[o].pc = "idle"
  BY DEF Init, IdleTask
<1>2. \A m \in Markets : Kind(m) = "Stopped"
  BY DEF Init, Kind, Stopped
<1> QED
  BY <1>1, <1>2 DEF Active

LEMMA PricesInitially == Init => PricesMet
BY NothingRuns DEF PricesMet

LEMMA PricesKept == TypeOK /\ PricesMet /\ [Next]_vars => PricesMet'
<1> SUFFICES ASSUME TypeOK, PricesMet, [Next]_vars PROVE PricesMet'
  OBVIOUS
<1>1. ASSUME NEW o \in Orders, task'[o].pc \in Active
      PROVE  task'[o].price \in IF IsBuy(o)' THEN BuyPrices ELSE SellPrices
  <2>1. TermsStep(o)
    BY TermsKept
  <2>2. CASE task[o].pc \in Active /\ SameTerms(o)
    BY <2>2 DEF PricesMet, SameTerms, IsBuy
  <2>3. ASSUME NEW m \in Markets, Buy(m, o)
        PROVE  task'[o].price \in BuyPrices /\ IsBuy(o)'
    BY <2>3 DEF Buy, Spawn, PricesMet, TypeOK, IsBuy
  <2>4. ASSUME NEW m \in Markets, NEW p \in SellPrices, Sell(m, p, o)
        PROVE  task'[o].price \in SellPrices /\ ~IsBuy(o)'
    BY <2>4 DEF Sell, Spawn, TypeOK, IsBuy
  <2> QED
    BY <1>1, <2>1, <2>2, <2>3, <2>4 DEF TermsStep
<1>2. ASSUME NEW m \in Markets, Kind(m)' = "Deciding" PROVE state'[m].price \in BuyPrices
  <2>1. DecidingStep(m)
    BY DecisionsKept
  <2>2. ASSUME NEW s \in Outcomes, NEW p \in BuyPrices, Consider(m, s, p)
        PROVE  state'[m].price = p
    BY <2>2 DEF Consider, Become, TypeOK, Deciding
  <2> QED
    BY <1>2, <2>1, <2>2 DEF DecidingStep, PricesMet, Kind
<1> QED
  BY <1>1, <1>2 DEF PricesMet
-----------------------------------------------------------------------------
(***************************************************************************)
(* What a buy can be filled with.  While no order outlives its task and    *)
(* every read of a position succeeds, the position of a token rises only by*)
(* the fills of the one buy its market runs.                               *)
(***************************************************************************)
Reliable == Faults \cap {"watchdog", "unseen_fill", "api_failure"} = {}

FillsBounded ==
    /\ \A r \in openOrders : /\ task[r.id].pc = "after" /\ r.left \in Nat
                              /\ r.token = Token(r.id) /\ r.side = task[r.id].side
    /\ \A r, s \in openOrders : r.id = s.id => r = s
    /\ \A o \in RunningBuys :
          /\ task[o].pc = "place" => position[Token(o)] <= task[o].before
          /\ task[o].pc = "after" => position[Token(o)] <= task[o].before + task[o].size
    /\ \A r \in openOrders : r.side = "Buy" =>
          position[Token(r.id)] + r.left <= task[r.id].before + task[r.id].size

LEMMA BoundedInitially == Init => FillsBounded
<1>1. Init => openOrders = {}
  BY DEF Init, ExchangeInit
<1>2. Init => RunningBuys = {}
  BY NothingRuns DEF RunningBuys, Running
<1> QED
  BY <1>1, <1>2 DEF FillsBounded

\* Orders that keep their terms, their place and their first reading stay bounded
\* when none is added.
LEMMA BoundedFrame ==
    ASSUME TypeOK, FillsBounded, openOrders' \subseteq openOrders, position' = position,
           \A q \in Orders : task[q].pc = "after" /\ (\E r \in openOrders' : r.id = q)
               => task'[q].pc = "after",
           \A q \in Orders : task'[q].pc \in {"place", "after"} =>
               /\ task[q].pc = task'[q].pc /\ task'[q].before = task[q].before
               /\ SameTerms(q)
    PROVE  FillsBounded'
<1>1. \A r \in openOrders' : /\ r \in openOrders /\ r.id \in Orders
                              /\ task[r.id].pc = "after" /\ task'[r.id].pc = "after"
  BY DEF FillsBounded, TypeOK, OrderType
<1>2. \A q \in Orders : task'[q].pc \in {"place", "after"} => Token(q)' = Token(q)
  BY DEF SameTerms, Token
<1>3. \A r \in openOrders' : /\ Token(r.id)' = Token(r.id) /\ task'[r.id].side = task[r.id].side
                              /\ task'[r.id].size = task[r.id].size
                              /\ task'[r.id].before = task[r.id].before
  BY <1>1, <1>2 DEF SameTerms, Token
<1>4. ASSUME NEW o \in Orders, o \in RunningBuys', task'[o].pc \in {"place", "after"}
      PROVE  /\ task[o].pc = task'[o].pc /\ o \in RunningBuys
             /\ Token(o)' = Token(o) /\ task'[o].before = task[o].before
             /\ task'[o].size = task[o].size
  BY <1>2, <1>4 DEF SameTerms, RunningBuys, Running, IsBuy, Active
<1>5. RunningBuys' \subseteq Orders
  BY DEF RunningBuys, Running
<1>6. \A r \in openOrders' : /\ task'[r.id].pc = "after" /\ r.left \in Nat
                              /\ r.token = Token(r.id)' /\ r.side = task'[r.id].side
  BY <1>1, <1>3 DEF FillsBounded
<1>7. \A r, s \in openOrders' : r.id = s.id => r = s
  BY DEF FillsBounded
<1>8. \A o \in RunningBuys' :
         /\ task'[o].pc = "place" => position'[Token(o)'] <= task'[o].before
         /\ task'[o].pc = "after" => position'[Token(o)'] <= task'[o].before + task'[o].size
  BY <1>4, <1>5 DEF FillsBounded
<1>9. \A r \in openOrders' : r.side = "Buy" =>
         position'[Token(r.id)'] + r.left <= task'[r.id].before + task'[r.id].size
  BY <1>1, <1>3 DEF FillsBounded
<1> QED
  BY <1>6, <1>7, <1>8, <1>9 DEF FillsBounded, Token

LEMMA EngineBounded ==
    ASSUME TypeOK, FillsBounded, NEW m \in Markets, EngineStep(m)
    PROVE  FillsBounded'
<1> USE DEF exchangeVars
<1>1. ASSUME UNCHANGED <<task, openOrders, position>> PROVE FillsBounded'
  BY <1>1, BoundedFrame DEF SameTerms
<1>2. CASE Start(m) \/ GiveUp(m) \/ CooldownOver(m) \/ Watchdog(m) \/ HandleFill(m)
  BY <1>1, <1>2 DEF Start, GiveUp, CooldownOver, Watchdog, HandleFill
<1>3. ASSUME NEW s \in Outcomes, NEW p \in BuyPrices, Consider(m, s, p)
      PROVE  FillsBounded'
  BY <1>1, <1>3 DEF Consider
<1>4. CASE Stop(m)
  <2>1. \A q \in Orders : /\ task'[q].pc = task[q].pc /\ task'[q].before = task[q].before
                          /\ SameTerms(q)
    BY <1>4 DEF Stop, TypeOK, TaskType, SameTerms
  <2>2. openOrders' \subseteq openOrders /\ position' = position
    BY <1>4 DEF Stop, CancelTokens
  <2> QED
    BY <2>1, <2>2, BoundedFrame
<1>5. ASSUME NEW o \in Orders, Buy(m, o) \/ \E p \in SellPrices : Sell(m, p, o)
      PROVE  FillsBounded'
  <2>1. /\ \A q \in Orders \ {o} : task'[q] = task[q]
        /\ task[o].pc = "idle" /\ task'[o].pc = "reserve"
    BY <1>5 DEF Buy, Sell, Spawn, TypeOK
  <2>2. UNCHANGED <<openOrders, position>>
    BY <1>5 DEF Buy, Sell
  <2> QED
    BY <2>1, <2>2, BoundedFrame DEF SameTerms
<1> QED
  BY <1>2, <1>3, <1>4, <1>5 DEF EngineStep

\* A task posts its order only after it has read the position.
LEMMA PlacedBounded ==
    ASSUME TypeOK, FillsBounded, NEW o \in Orders, NEW n \in 0..task[o].size,
           task[o].pc = "place", Goto(o, "after"), position' = position,
           Post(o, Token(o), task[o].side, task[o].price, n)
    PROVE  FillsBounded'
<1> DEFINE new == {[id |-> o, token |-> Token(o), side |-> task[o].side,
                    price |-> task[o].price, left |-> k] : k \in {n} \ {0}}
<1>1. /\ task'[o].pc = "after" /\ task'[o].before = task[o].before /\ SameTerms(o)
      /\ \A q \in Orders \ {o} : task'[q] = task[q]
  BY DEF Goto, TypeOK, TaskType, SameTerms
<1>2. \A q \in Orders : /\ Token(q)' = Token(q) /\ task'[q].side = task[q].side
                        /\ task'[q].size = task[q].size /\ task'[q].before = task[q].before
  BY <1>1 DEF SameTerms, Token
<1>3. \A r \in openOrders : r.id \in Orders \ {o} /\ task'[r.id] = task[r.id]
  BY <1>1 DEF FillsBounded, TypeOK, OrderType
<1>4. openOrders' = openOrders \union new
  BY DEF Post
<1>5. \A r \in new : /\ r.id = o /\ r.token = Token(o) /\ r.side = task[o].side
                     /\ r.left = n /\ r.price = task[o].price
  OBVIOUS
<1>6. \A r, s \in new : r = s
  OBVIOUS
<1>7. /\ task[o].size \in Nat /\ task[o].before \in Nat /\ position[Token(o)] \in Nat
      /\ n \in Nat /\ n <= task[o].size
  BY TaskFacts, PositionFacts
<1> HIDE DEF new
<1>8. task[o].side = "Buy" => position[Token(o)] <= task[o].before
  BY DEF FillsBounded, RunningBuys, Running, IsBuy, Active
<1>9. \A r \in openOrders' : /\ task'[r.id].pc = "after" /\ r.left \in Nat
                              /\ r.token = Token(r.id)' /\ r.side = task'[r.id].side
  BY <1>1, <1>2, <1>3, <1>4, <1>5, <1>7 DEF FillsBounded
<1>10. \A r, s \in openOrders' : r.id = s.id => r = s
  BY <1>3, <1>4, <1>5, <1>6 DEF FillsBounded
<1>11. RunningBuys' = RunningBuys
  BY <1>1, <1>2 DEF RunningBuys, Running, IsBuy, Active
<1>12. \A q \in RunningBuys :
          /\ task'[q].pc = "place" => position[Token(q)] <= task'[q].before
          /\ task'[q].pc = "after" => position[Token(q)] <= task'[q].before + task'[q].size
  <2>1. ASSUME NEW q \in RunningBuys, q # o
        PROVE  /\ task'[q].pc = "place" => position[Token(q)] <= task'[q].before
               /\ task'[q].pc = "after" => position[Token(q)] <= task'[q].before + task'[q].size
    BY <2>1, <1>1 DEF FillsBounded, RunningBuys, Running
  <2>2. o \in RunningBuys => position[Token(o)] <= task'[o].before + task'[o].size
    BY <1>2, <1>7, <1>8 DEF RunningBuys, IsBuy
  <2> QED
    BY <2>1, <2>2, <1>1
<1>13. \A r \in openOrders' : r.side = "Buy" =>
          position[Token(r.id)] + r.left <= task'[r.id].before + task'[r.id].size
  <2>1. \A r \in openOrders : r.side = "Buy" =>
          position[Token(r.id)] + r.left <= task'[r.id].before + task'[r.id].size
    BY <1>3 DEF FillsBounded
  <2>2. \A r \in new : r.side = "Buy" =>
          position[Token(o)] + r.left <= task'[o].before + task'[o].size
    BY <1>2, <1>5, <1>7, <1>8
  <2> QED
    BY <2>1, <2>2, <1>4, <1>5
<1>14. \A q \in RunningBuys : q \in Orders
  BY DEF RunningBuys, Running
<1>15. \A r \in openOrders' : r.id \in Orders
  BY <1>3, <1>4, <1>5
<1> QED
  BY <1>2, <1>9, <1>10, <1>11, <1>12, <1>13, <1>14, <1>15 DEF FillsBounded, Token

LEMMA TaskBounded ==
    ASSUME TypeOK, FillsBounded, Reliable, NEW o \in Orders, TaskStep(o)
    PROVE  FillsBounded'
<1> USE DEF exchangeVars
<1>1. task[o] \in TaskType /\ \A q \in Orders \ {o} : task'[q] = task[q]
  BY DEF TaskStep, Reserve, Fire, Place, After, Release, RollBack, Goto, TypeOK
<1>2. position' = position
  BY DEF TaskStep, Reserve, Fire, Place, After, Release
<1>3. ASSUME task'[o].pc \notin {"place", "after"}, openOrders' \subseteq openOrders,
             task[o].pc = "after" => \A r \in openOrders' : r.id # o
      PROVE  FillsBounded'
  BY <1>1, <1>2, <1>3, BoundedFrame DEF SameTerms
<1>4. ASSUME NEW budget, NEW synced, RollBack(o, budget, synced)
      PROVE  task'[o].pc \notin {"place", "after"}
  BY <1>4 DEF RollBack, TypeOK, DoneTask, IdleTask
<1>5. ASSUME NEW l, Goto(o, l) PROVE task'[o].pc = l
  BY <1>1, <1>5 DEF Goto, TypeOK, TaskType
<1>6. CASE Reserve(o)
  BY <1>3, <1>4, <1>5, <1>6 DEF Reserve
<1>7. CASE Fire(o)
  <2>1. CASE DryRun \/ ~HasClient
    BY <1>3, <1>4, <1>7, <2>1 DEF Fire
  <2>2. CASE ~(DryRun \/ ~HasClient)
    <3>1. PICK p \in Synced(Token(o)) : task' = [task EXCEPT ![o].before = p, ![o].pc = "place"]
      BY <1>7, <2>2 DEF Fire
    <3>2. p = position[Token(o)] /\ task[o].pc = "fire" /\ openOrders' = openOrders
      BY <1>7, <2>2 DEF Fire, Synced, Reliable
    <3>3. task'[o].pc = "place" /\ task'[o].before = position[Token(o)] /\ SameTerms(o)
      BY <1>1, <3>1, <3>2 DEF TypeOK, TaskType, SameTerms
    <3>4. /\ Token(o)' = Token(o) /\ \A q \in Orders \ {o} : Token(q)' = Token(q)
          /\ RunningBuys' = RunningBuys
      BY <1>1, <3>2, <3>3 DEF SameTerms, Token, RunningBuys, Running, IsBuy, Active
    <3>5. \A r \in openOrders : r.id \in Orders \ {o}
      BY <3>2 DEF FillsBounded, TypeOK, OrderType
    <3>6. position[Token(o)] \in Nat
      BY TaskFacts, PositionFacts
    <3>7. \A q \in RunningBuys :
             /\ task'[q].pc = "place" => position[Token(q)] <= task'[q].before
             /\ task'[q].pc = "after" => position[Token(q)] <= task'[q].before + task'[q].size
      <4>1. \A q \in RunningBuys \ {o} : task'[q] = task[q]
        BY <1>1 DEF RunningBuys, Running
      <4> QED
        BY <4>1, <3>3, <3>6 DEF FillsBounded
    <3>8. \A q \in RunningBuys : Token(q)' = Token(q)
      BY <3>4 DEF RunningBuys, Running
    <3>9. \A r \in openOrders : task'[r.id] = task[r.id] /\ Token(r.id)' = Token(r.id)
      BY <1>1, <3>4, <3>5
    <3> QED
      BY <1>2, <3>2, <3>4, <3>7, <3>8, <3>9 DEF FillsBounded, Token
  <2> QED
    BY <2>1, <2>2
<1>8. CASE Place(o)
  <2>1. PICK n \in Acceptable(o) :
          \/ /\ Post(o, Token(o), task[o].side, task[o].price, n)
             /\ Goto(o, "after")
          \/ /\ Post(o, Token(o), task[o].side, task[o].price, 0)
             /\ RollBack(o, Reserved(o), LocalPosition(Token(o)))
    BY <1>8 DEF Place, Reliable
  <2>2. task[o].pc = "place" /\ n \in 0..task[o].size
    BY <1>8, TaskFacts DEF Place, Acceptable
  <2>3. CASE Post(o, Token(o), task[o].side, task[o].price, n) /\ Goto(o, "after")
    BY <1>2, <2>2, <2>3, PlacedBounded
  <2>4. CASE /\ Post(o, Token(o), task[o].side, task[o].price, 0)
             /\ RollBack(o, Reserved(o), LocalPosition(Token(o)))
    <3>1. openOrders' = openOrders
      BY <2>4 DEF Post
    <3> QED
      BY <1>3, <1>4, <2>2, <2>4, <3>1
  <2> QED
    BY <2>1, <2>3, <2>4
<1>9. CASE After(o)
  <2>1. openOrders' = {r \in openOrders : r.id # o}
    BY <1>9 DEF After, Expire, Reliable
  <2>2. CASE \E budget, synced : RollBack(o, budget, synced)
    BY <1>3, <1>4, <2>1, <2>2
  <2>3. CASE Goto(o, "release")
    BY <1>3, <1>5, <2>1, <2>3
  <2> QED
    BY <1>9, <2>2, <2>3 DEF After
<1>10. CASE Release(o)
  BY <1>3, <1>10 DEF Release, TypeOK, DoneTask, IdleTask
<1> QED
  BY <1>6, <1>7, <1>8, <1>9, <1>10 DEF TaskStep

\* A fill takes from its order what it adds to the position, and no other buy of
\* the market has read the position.
LEMMA FillBounded ==
    ASSUME TypeOK, FillsBounded, OneOwner, ExchangeFill
    PROVE  FillsBounded'
<1>1. PICK r \in openOrders : \E n \in 1..r.left : Fill(r, n)
  BY DEF ExchangeFill
<1>2. PICK n \in 1..r.left : Fill(r, n)
  BY <1>1
<1>3. task' = task
  BY DEF ExchangeFill
<1> DEFINE o == r.id
           d == IF r.side = "Buy" THEN n ELSE -n
           rest == {[r EXCEPT !.left = k] : k \in {r.left - n} \ {0}}
<1>4. /\ r \in OrderType /\ o \in Orders /\ r.left \in Nat /\ n \in Nat \ {0} /\ n <= r.left
      /\ r.token = Token(o) /\ r.side = task[o].side /\ task[o].pc = "after"
      /\ Token(o) \in Tokens
  BY TaskFacts DEF FillsBounded, TypeOK, OrderType
<1>5. openOrders' = (openOrders \ {r}) \union rest
  BY <1>2 DEF Fill
<1>6. /\ position'[Token(o)] = position[Token(o)] + d
      /\ \A t \in Tokens \ {Token(o)} : position'[t] = position[t]
  BY <1>2, <1>4 DEF Fill, TypeOK
<1>7. \A s \in rest : /\ s.id = o /\ s.left = r.left - n /\ s.left \in Nat
                      /\ s.token = r.token /\ s.side = r.side
  BY <1>4 DEF OrderType
<1>8. \A s, q \in rest : s = q
  OBVIOUS
<1> HIDE DEF rest
<1>9. \A s \in openOrders \ {r} : s.id \in Orders \ {o}
  BY DEF FillsBounded, TypeOK, OrderType
<1>10. \A q \in RunningBuys : position[Token(q)] \in Nat /\ position'[Token(q)] \in Int
         /\ task[q].before \in Nat /\ task[q].size \in Nat /\ q \in Orders /\ Token(q) \in Tokens
  <2>1. \A q \in RunningBuys : q \in Orders
    BY DEF RunningBuys, Running
  <2>2. \A q \in Orders : Token(q) \in Tokens /\ task[q].before \in Nat /\ task[q].size \in Nat
    BY TaskFacts
  <2>3. \A t \in Tokens : position[t] \in Nat /\ position'[t] \in Int
    BY <1>4, <1>6 DEF TypeOK
  <2> QED
    BY <2>1, <2>2, <2>3
<1>11. r.side = "Buy" => o \in RunningBuys
  BY <1>4 DEF RunningBuys, Running, IsBuy, Active
\* Another buy is in another market, so the position it watches does not rise.
<1>12. \A q \in RunningBuys : q # o => position'[Token(q)] <= position[Token(q)]
  <2>1. ASSUME NEW q \in RunningBuys, q # o, Token(q) = Token(o), r.side = "Buy" PROVE FALSE
    BY <2>1, <1>11 DEF OneOwner, Token
  <2>2. ASSUME NEW q \in RunningBuys, q # o, Token(q) # Token(o)
        PROVE  position'[Token(q)] = position[Token(q)]
    BY <2>2, <1>6, <1>10
  <2>3. ASSUME NEW q \in RunningBuys, Token(q) = Token(o), r.side # "Buy"
        PROVE  position'[Token(q)] = position[Token(q)] - n
    BY <2>3, <1>6, <1>4, <1>10
  <2> QED
    BY <2>1, <2>2, <2>3, <1>4, <1>10
<1>13. /\ r.side = "Buy" => position'[Token(o)] = position[Token(o)] + n
       /\ r.side # "Buy" => position'[Token(o)] = position[Token(o)] - n
       /\ position[Token(o)] \in Nat /\ task[o].before \in Nat /\ task[o].size \in Nat
  BY <1>4, <1>6, TaskFacts, PositionFacts
<1>14. r.side = "Buy" => position'[Token(o)] + (r.left - n) <= task[o].before + task[o].size
  BY <1>4, <1>13 DEF FillsBounded
<1>15. o \in RunningBuys => position'[Token(o)] <= task[o].before + task[o].size
  BY <1>4, <1>13, <1>14 DEF FillsBounded
<1>16. \A q \in RunningBuys :
         /\ task[q].pc = "place" => position'[Token(q)] <= task[q].before
         /\ task[q].pc = "after" => position'[Token(q)] <= task[q].before + task[q].size
  <2>1. ASSUME NEW q \in RunningBuys, q # o
        PROVE  /\ task[q].pc = "place" => position'[Token(q)] <= task[q].before
               /\ task[q].pc = "after" => position'[Token(q)] <= task[q].before + task[q].size
    BY <2>1, <1>10, <1>12 DEF FillsBounded
  <2> QED
    BY <2>1, <1>4, <1>15
<1>17. \A s \in openOrders' : s.side = "Buy" =>
         position'[Token(s.id)] + s.left <= task[s.id].before + task[s.id].size
  <2>1. ASSUME NEW s \in openOrders \ {r}, s.side = "Buy"
        PROVE  position'[Token(s.id)] + s.left <= task[s.id].before + task[s.id].size
    <3>1. s.id \in RunningBuys /\ s.id # o /\ s.left \in Nat
      BY <2>1, <1>9 DEF FillsBounded, RunningBuys, Running, IsBuy, Active
    <3>2. position[Token(s.id)] + s.left <= task[s.id].before + task[s.id].size
      BY <2>1 DEF FillsBounded
    <3> QED
      BY <3>1, <3>2, <1>10, <1>12
  <2>2. ASSUME NEW s \in rest, s.side = "Buy"
        PROVE  position'[Token(s.id)] + s.left <= task[s.id].before + task[s.id].size
    BY <2>2, <1>7, <1>14
  <2> QED
    BY <2>1, <2>2, <1>5
<1>18. \A s \in openOrders' : /\ task[s.id].pc = "after" /\ s.left \in Nat
                               /\ s.token = Token(s.id) /\ s.side = task[s.id].side
  BY <1>4, <1>5, <1>7 DEF FillsBounded
<1>19. \A s, q \in openOrders' : s.id = q.id => s = q
  BY <1>5, <1>7, <1>8, <1>9 DEF FillsBounded
<1> QED
  BY <1>3, <1>16, <1>17, <1>18, <1>19 DEF FillsBounded, Token, RunningBuys, Running, IsBuy

LEMMA BoundedKept ==
    ASSUME Reliable
    PROVE  TypeOK /\ PoolInv /\ FillsBounded /\ [Next]_vars => FillsBounded'
<1> SUFFICES ASSUME TypeOK, PoolInv, FillsBounded, [Next]_vars PROVE FillsBounded'
  OBVIOUS
<1>1. CASE UNCHANGED vars
  <2>1. UNCHANGED <<task, openOrders, position>>
    BY <1>1 DEF vars, exchangeVars
  <2> QED
    BY <2>1, BoundedFrame DEF SameTerms
<1>2. CASE Crash
  <2>1. openOrders' = {} /\ position' = position
    BY <1>2 DEF Crash, Reliable
  <2>2. \A q \in Orders : task'[q].pc \notin {"place", "after"}
    BY <1>2 DEF Crash, DoneTask, IdleTask, Active
  <2> QED
    BY <2>1, <2>2, BoundedFrame
<1> QED
  BY <1>1, <1>2, EngineBounded, TaskBounded, FillBounded DEF Next, PoolInv
-----------------------------------------------------------------------------
(***************************************************************************)
(* The cap on the YES side.  A buy that is not booked yet was admitted by a*)
(* look at the ledger, and so was the one its engine's successor decides on*)
(* meanwhile; B is the most that one trade buys.                           *)
(***************************************************************************)
YesQty(m)  == exposures[<<m, "yes">>].yes_qty
Booking(m) == {o \in BuysOf(m) : task[o].outcome = "yes" /\ task[o].pc # "release"}

YesRoom(m, B) ==
    /\ YesQty(m) <= MaxExposure + B
    /\ \A o \in Booking(m) : /\ task[o].size <= B
                              /\ YesQty(m) + task[o].size <= MaxExposure + B
    /\ Kind(m) = "Deciding" /\ state[m].outcome = "yes" =>
          /\ state[m].amount <= B
          /\ YesQty(m) + state[m].amount <= MaxExposure + B
          /\ Booking(m) # {} => YesQty(m) + state[m].amount <= MaxExposure

LargestTrade(B) ==
    /\ B \in {0} \union {SnipeSize \div p : p \in BuyPrices}
    /\ B \in Nat /\ \A p \in BuyPrices : SnipeSize \div p <= B

\* An order that comes to be booked was spawned by this step or had its terms.
LEMMA BookingStep ==
    ASSUME TypeOK, [Next]_vars, NEW m \in Markets, NEW o \in Booking(m)'
    PROVE  \/ o \in Booking(m) /\ task'[o].size = task[o].size
           \/ /\ Buy(m, o) /\ Kind(m) = "Deciding" /\ Kind(m)' # "Deciding"
              /\ state[m].outcome = "yes" /\ task'[o].size = state[m].amount
<1>1. /\ o \in Orders /\ task'[o].pc \in Active /\ task'[o].pc # "release"
      /\ task'[o].side = "Buy" /\ task'[o].market = m /\ task'[o].outcome = "yes"
  BY DEF Booking, BuysOf, RunningBuys, Running, IsBuy
<1>2. TermsStep(o)
  BY <1>1, TermsKept
<1>3. CASE task[o].pc \in Active /\ SameTerms(o) /\ task[o].pc # "release"
  BY <1>1, <1>3 DEF SameTerms, Booking, BuysOf, RunningBuys, Running, IsBuy
<1>4. ASSUME NEW k \in Markets, Buy(k, o)
      PROVE  /\ Buy(m, o) /\ Kind(m) = "Deciding" /\ Kind(m)' # "Deciding"
             /\ state[m].outcome = "yes" /\ task'[o].size = state[m].amount
  <2>1. task'[o].market = k /\ task'[o].outcome = state[k].outcome /\ task'[o].size = state[k].amount
    BY <1>1, <1>4 DEF Buy, Spawn, TypeOK
  <2>2. Kind(k) = "Deciding" /\ state'[k] = PendingBuy
    BY <1>4 DEF Buy, Become, TypeOK
  <2> QED
    BY <1>1, <1>4, <2>1, <2>2 DEF Kind, PendingBuy, Stopped
<1>5. ASSUME NEW k \in Markets, NEW p \in SellPrices, Sell(k, p, o) PROVE FALSE
  BY <1>1, <1>5 DEF Sell, Spawn, TypeOK
<1> QED
  BY <1>1, <1>2, <1>3, <1>4, <1>5 DEF TermsStep

LEMMA YesQtyType ==
    ASSUME TypeOK, NEW m \in Markets
    PROVE  <<m, "yes">> \in Tokens /\ YesQty(m) \in Int
<1>1. <<m, "yes">> \in Tokens
  BY EngineAssumption DEF Outcomes
<1> QED
  BY <1>1 DEF TypeOK, YesQty

LEMMA BookingTypes ==
    ASSUME TypeOK, NEW m \in Markets
    PROVE  /\ state[m].amount \in Nat
           /\ \A o \in Booking(m) : o \in Orders /\ task[o].size \in Nat
BY TaskFacts DEF TypeOK, StateType, Booking, BuysOf, RunningBuys, Running

\* A decision is made with room under the cap.
LEMMA ConsiderRoom ==
    ASSUME TypeOK, NEW B, LargestTrade(B), MaxExposure > 0, NEW m \in Markets,
           NEW s \in Outcomes, NEW p \in BuyPrices, Consider(m, s, p), state'[m].outcome = "yes"
    PROVE  /\ state'[m].amount \in Nat /\ state'[m].amount <= B
           /\ YesQty(m) + state'[m].amount <= MaxExposure
<1>1. SnipeSize \div p \in Nat /\ MaxExposure \in Nat
  BY EngineAssumption, GuardAssumption
<1>2. state'[m].amount = SnipeSize \div p /\ s = "yes"
  BY DEF Consider, Become, TypeOK, Deciding
<1>3. Magnitude(YesQty(m) + SnipeSize \div p) <= MaxExposure
  BY <1>1, <1>2 DEF Consider, ExposureAllowed, YesQty
<1>4. YesQty(m) \in Int
  BY YesQtyType
<1>5. \A x \in Int : Magnitude(x) <= MaxExposure => x <= MaxExposure
  BY <1>1 DEF Magnitude
<1> QED
  BY <1>1, <1>2, <1>3, <1>4, <1>5 DEF LargestTrade

\* Steps that leave the YES side of the ledger alone.
LEMMA RoomStays ==
    ASSUME TypeOK, TypeOK', [Next]_vars, NEW B, LargestTrade(B), MaxExposure > 0,
           NEW m \in Markets, YesRoom(m, B), YesQty(m)' = YesQty(m)
    PROVE  YesRoom(m, B)'
<1>1. YesQty(m) \in Int /\ MaxExposure \in Nat /\ B \in Nat
  BY YesQtyType, GuardAssumption DEF LargestTrade
<1>2. \A o \in Booking(m)' : /\ task'[o].size <= B
                             /\ YesQty(m)' + task'[o].size <= MaxExposure + B
  BY BookingStep DEF YesRoom
<1>3. ASSUME Kind(m)' = "Deciding", state'[m].outcome = "yes"
      PROVE  /\ state'[m].amount <= B
             /\ YesQty(m)' + state'[m].amount <= MaxExposure + B
             /\ Booking(m)' # {} => YesQty(m)' + state'[m].amount <= MaxExposure
  <2>1. CASE state'[m] = state[m]
    <3>1. Booking(m)' # {} => Booking(m) # {}
      BY <1>3, BookingStep
    <3> QED
      BY <1>3, <2>1, <3>1 DEF YesRoom, Kind
  <2>2. ASSUME NEW s \in Outcomes, NEW p \in BuyPrices, Consider(m, s, p)
        PROVE  /\ state'[m].amount \in Nat /\ state'[m].amount <= B
               /\ YesQty(m) + state'[m].amount <= MaxExposure
    BY <1>3, <2>2, ConsiderRoom
  <2>3. DecidingStep(m)
    BY DecisionsKept
  <2> QED
    BY <1>1, <1>3, <2>1, <2>2, <2>3 DEF DecidingStep
<1> QED
  BY <1>2, <1>3 DEF YesRoom

\* What After books of a buy is within the order, and what it books of a sale only
\* lowers the YES side.
LEMMA AfterBooks ==
    ASSUME TypeOK, FillsBounded, Reliable, NEW o \in Orders, After(o), NEW m \in Markets
    PROVE  \/ YesQty(m)' = YesQty(m)
           \/ ~IsBuy(o) /\ YesQty(m)' <= YesQty(m) /\ YesQty(m)' \in Int
           \/ /\ o \in Booking(m) /\ task'[o].pc = "release"
              /\ YesQty(m)' <= YesQty(m) + task[o].size /\ YesQty(m)' \in Int
<1> DEFINE after == position[Token(o)]
           filled == AtLeastZero(IF IsBuy(o) THEN after - task[o].before
                                             ELSE task[o].before - after)
           delta == IF task[o].side = "Buy" THEN filled ELSE -filled
<1>1. task[o].pc = "after" /\ task[o] \in TaskType
  BY DEF After, TypeOK
<1>2. IF filled = 0
      THEN UNCHANGED inventoryVars
      ELSE ApplyFill(Token(o), TRUE, task[o].side, filled, task[o].price) /\ Goto(o, "release")
  <2>1. PICK p \in {position[Token(o)]} \union {q \in {task[o].before} : "api_failure" \in Faults} :
          LET f == AtLeastZero(IF IsBuy(o) THEN p - task[o].before ELSE task[o].before - p)
          IN  IF f = 0
              THEN /\ RollBack(o, Reserved(o), p)
                   /\ UNCHANGED inventoryVars
              ELSE /\ ApplyFill(Token(o), TRUE, task[o].side, f, task[o].price)
                   /\ IF IsBuy(o) THEN UNCHANGED spend
                                  ELSE ReleaseBudget(task[o].price * f)
                   /\ Report(o, f, p)
                   /\ Goto(o, "release")
                   /\ UNCHANGED slotVars
    BY DEF After
  <2>2. p = after
    BY DEF Reliable
  <2> QED
    BY <2>1, <2>2
<1>3. /\ after \in Nat /\ task[o].before \in Nat /\ task[o].size \in Nat /\ Token(o) \in Tokens
  BY TaskFacts, PositionFacts
<1>4. filled \in Nat
  BY <1>3 DEF AtLeastZero
<1>5. IsBuy(o) => filled <= task[o].size
  <2>1. IsBuy(o) => after <= task[o].before + task[o].size
    BY <1>1 DEF FillsBounded, RunningBuys, Running, Active
  <2> QED
    BY <2>1, <1>3 DEF AtLeastZero
<1> HIDE DEF filled
<1>6. CASE filled = 0 \/ Token(o) # <<m, "yes">>
  <2>1. CASE filled = 0
    BY <1>2, <2>1 DEF inventoryVars, YesQty
  <2>2. CASE filled # 0 /\ Token(o) # <<m, "yes">>
    BY <1>2, <2>2, YesQtyType DEF ApplyFill, YesQty, TypeOK
  <2> QED
    BY <1>6, <2>1, <2>2
<1>7. CASE filled # 0 /\ Token(o) = <<m, "yes">>
  <2>1. YesQty(m)' = YesQty(m) + delta
    <3> DEFINE t == Token(o)
               row == [yes_qty |-> exposures[t].yes_qty + delta, no_qty |-> exposures[t].no_qty + 0]
    <3>1. exposures' = [exposures EXCEPT ![t] = row]
      BY <1>2, <1>7 DEF ApplyFill
    <3>2. exposures'[t] = row
      BY <3>1, <1>3 DEF TypeOK
    <3>3. exposures'[<<m, "yes">>].yes_qty = exposures[<<m, "yes">>].yes_qty + delta
      BY <3>2, <1>7
    <3> QED
      BY <3>3 DEF YesQty
  <2>2. YesQty(m) \in Int
    BY YesQtyType
  <2>3. CASE ~IsBuy(o)
    BY <1>4, <2>1, <2>2, <2>3 DEF IsBuy
  <2>4. CASE IsBuy(o)
    <3>1. o \in Booking(m)
      BY <1>1, <1>7, <2>4 DEF Booking, BuysOf, RunningBuys, Running, Active, Token
    <3>2. task'[o].pc = "release"
      BY <1>1, <1>2, <1>7 DEF Goto, TypeOK, TaskType
    <3> QED
      BY <3>1, <3>2, <1>3, <1>4, <1>5, <2>1, <2>2, <2>4 DEF IsBuy
  <2> QED
    BY <2>3, <2>4
<1> QED
  BY <1>6, <1>7

LEMMA AfterRoom ==
    ASSUME TypeOK, TypeOK', FillsBounded, OneOwner, Reliable, NEW B, LargestTrade(B),
           MaxExposure > 0, [Next]_vars,
           NEW o \in Orders, After(o), NEW m \in Markets, YesRoom(m, B)
    PROVE  YesRoom(m, B)'
<1>1. YesQty(m) \in Int /\ MaxExposure \in Nat /\ B \in Nat
  BY YesQtyType, GuardAssumption DEF LargestTrade
<1>2. state' = state
  BY DEF After
<1>3. /\ \A q \in Booking(m)' : q \in Booking(m) /\ task'[q].size = task[q].size
      /\ \A q \in Booking(m) : task[q].size \in Nat
      /\ state[m].amount \in Nat
  BY <1>2, BookingStep, BookingTypes DEF Kind
<1>4. CASE YesQty(m)' = YesQty(m)
  BY <1>4, RoomStays
<1>5. CASE YesQty(m)' <= YesQty(m) /\ YesQty(m)' \in Int
  BY <1>1, <1>2, <1>3, <1>5 DEF YesRoom, Kind
<1>6. CASE /\ o \in Booking(m) /\ task'[o].pc = "release"
           /\ YesQty(m)' <= YesQty(m) + task[o].size /\ YesQty(m)' \in Int
  <2>1. Booking(m)' = {}
    <3>1. ASSUME NEW q \in Booking(m)' PROVE FALSE
      <4>1. q \in Booking(m) /\ task'[q].pc # "release"
        BY <1>3 DEF Booking
      <4>2. q = o
        BY <1>6, <4>1 DEF OneOwner, Booking, BuysOf
      <4> QED
        BY <1>6, <4>1, <4>2
    <3> QED
      BY <3>1
  <2>2. /\ task[o].size \in Nat /\ task[o].size <= B
        /\ YesQty(m) + task[o].size <= MaxExposure + B
    BY <1>3, <1>6 DEF YesRoom
  <2>3. ASSUME Kind(m)' = "Deciding", state'[m].outcome = "yes"
        PROVE  /\ state'[m].amount <= B
               /\ YesQty(m)' + state'[m].amount <= MaxExposure + B
    <3>1. state[m].amount <= B /\ YesQty(m) + state[m].amount <= MaxExposure
      BY <1>2, <1>6, <2>3 DEF YesRoom, Kind
    <3> QED
      BY <1>1, <1>2, <1>3, <1>6, <2>2, <3>1
  <2> QED
    BY <1>1, <1>6, <2>1, <2>2, <2>3 DEF YesRoom
<1> QED
  BY <1>4, <1>5, <1>6, AfterBooks

LEMMA RoomKept ==
    ASSUME Reliable, NEW B, LargestTrade(B), MaxExposure > 0
    PROVE  TypeOK /\ PoolInv /\ FillsBounded /\ [Next]_vars /\ (\A m \in Markets : YesRoom(m, B))
              => (\A m \in Markets : YesRoom(m, B))'
<1> SUFFICES ASSUME TypeOK, PoolInv, FillsBounded, [Next]_vars,
                    NEW m \in Markets, YesRoom(m, B)
             PROVE  YesRoom(m, B)'
  OBVIOUS
<1>1. TypeOK'
  BY TypesKept
<1>2. ASSUME UNCHANGED exposures PROVE YesRoom(m, B)'
  BY <1>1, <1>2, RoomStays DEF YesQty
<1>3. CASE UNCHANGED vars \/ ExchangeFill
  BY <1>2, <1>3 DEF vars, inventoryVars, ExchangeFill
<1>4. CASE Crash
  <2>1. YesQty(m)' = 0
    BY <1>4, YesQtyType DEF Crash, YesQty
  <2>2. Booking(m)' = {}
    BY <1>4 DEF Crash, Booking, BuysOf, RunningBuys, Running, DoneTask, IdleTask, Active
  <2>3. Kind(m)' # "Deciding"
    BY <1>4 DEF Crash, Kind, Stopped
  <2> QED
    BY <2>1, <2>2, <2>3, GuardAssumption DEF YesRoom, LargestTrade
<1>5. ASSUME NEW k \in Markets, EngineStep(k) PROVE UNCHANGED exposures
  BY <1>5 DEF EngineStep, Start, Stop, GiveUp, CooldownOver, Watchdog, HandleFill, Consider,
              Buy, Sell, inventoryVars
<1>6. ASSUME NEW o \in Orders, TaskStep(o) PROVE YesRoom(m, B)'
  <2>1. CASE After(o)
    BY <1>1, <2>1, AfterRoom DEF PoolInv
  <2>2. CASE Reserve(o) \/ Fire(o) \/ Place(o) \/ Release(o)
    BY <1>2, <2>2 DEF Reserve, Fire, Place, Release, inventoryVars
  <2> QED
    BY <1>6, <2>1, <2>2 DEF TaskStep
<1> QED
  BY <1>2, <1>3, <1>4, <1>5, <1>6 DEF Next

\* Of finitely many sizes of a trade one is the largest.
LEMMA TradeExists == \E B : LargestTrade(B)
<1> DEFINE S == {0} \union {SnipeSize \div p : p \in BuyPrices}
<1>1. S \subseteq 0..SnipeSize
  <2>1. ASSUME NEW p \in BuyPrices PROVE SnipeSize \div p \in 0..SnipeSize
    BY EngineAssumption
  <2> QED
    BY <2>1, EngineAssumption
<1> DEFINE F == {x..SnipeSize : x \in S}
<1>2. PICK T \in F : \A U \in F : U \subseteq T => U = T
  <2>1. IsFiniteSet(0..SnipeSize)
    BY EngineAssumption, FS_Interval
  <2>2. F \subseteq SUBSET (0..SnipeSize)
    BY <1>1, EngineAssumption
  <2>3. F # {}
    OBVIOUS
  <2> DEFINE N == 0..SnipeSize
  <2>4. IsFiniteSet(N) /\ F \subseteq SUBSET N
    BY <2>1, <2>2
  <2> HIDE DEF F, N
  <2> QED
    BY <2>3, <2>4, SmallestSubset
<1>3. PICK B \in S : T = B..SnipeSize
  BY <1>2
<1>4. \A x \in S : x <= B
  <2> SUFFICES ASSUME NEW x \in S, ~(x <= B) PROVE FALSE
    OBVIOUS
  <2>1. x \in Nat /\ B \in Nat /\ B < x /\ x <= SnipeSize
    BY <1>1, EngineAssumption
  <2>2. /\ x..SnipeSize \subseteq B..SnipeSize
        /\ B \in B..SnipeSize /\ B \notin x..SnipeSize
    BY <2>1, EngineAssumption
  <2>3. x..SnipeSize \in F
    OBVIOUS
  <2> QED
    BY <1>2, <1>3, <2>2, <2>3
<1>5. B \in Nat
  BY <1>1
<1> QED
  BY <1>4, <1>5 DEF LargestTrade

\* However engines are stopped and restarted and processes crash, the YES side of
\* a market passes its cap by one trade at most.
THEOREM CapSound ==
    ASSUME Reliable
    PROVE  Spec => []YesSideCapped
<1>1. CASE MaxExposure = 0
  <2>1. YesSideCapped
    BY <1>1 DEF YesSideCapped
  <2> QED
    BY <2>1, PTL
<1>2. CASE MaxExposure > 0
  <2>1. PICK B : LargestTrade(B)
    BY TradeExists
  <2> DEFINE Room == \A m \in Markets : YesRoom(m, B)
  <2>2. Init => Room
    <3> SUFFICES ASSUME Init, NEW m \in Markets PROVE YesRoom(m, B)
      OBVIOUS
    <3>1. YesQty(m) = 0
      BY EngineAssumption DEF Init, InventoryInit, YesQty, Outcomes
    <3>2. Booking(m) = {} /\ Kind(m) # "Deciding"
      BY NothingRuns DEF Booking, BuysOf, RunningBuys, Running
    <3> QED
      BY <2>1, <3>1, <3>2, GuardAssumption DEF YesRoom, LargestTrade
  <2>3. TypeOK /\ PoolInv /\ FillsBounded /\ Room /\ [Next]_vars => Room'
    BY <1>2, <2>1, RoomKept
  <2>4. Room => YesSideCapped
    BY <2>1 DEF YesRoom, LargestTrade, YesSideCapped, YesQty
  <2>5. "watchdog" \notin Faults
    BY DEF Reliable
  <2>6. TypeOK /\ PoolInv /\ [Next]_vars => PoolInv'
    BY <2>5, PoolInvKept
  <2>7. TypeOK /\ PoolInv /\ FillsBounded /\ [Next]_vars => FillsBounded'
    BY BoundedKept
  <2> HIDE DEF Room
  <2> QED
    BY <2>2, <2>3, <2>4, <2>6, <2>7, PoolInitially, BoundedInitially, TypeCorrect, PTL DEF Spec
<1> QED
  BY <1>1, <1>2, GuardAssumption
-----------------------------------------------------------------------------
(***************************************************************************)
(* What is sold is there to be sold, as long as no engine is stopped and   *)
(* every call is answered.  An engine has one order at a time, the task    *)
(* that watches it counts exactly what the exchange filled, and what the   *)
(* state, the reports and the ledger say of a market's shares is what the  *)
(* account holds.                                                          *)
(***************************************************************************)
Working == {o \in Orders : task[o].pc \in Active \ {"release"}}
Waits(side) == IF side = "Buy" THEN "PendingBuy" ELSE "PendingSell"

\* What the exchange has filled of a task's order.
Moved(o) == IF IsBuy(o) THEN position[Token(o)] - task[o].before
                        ELSE task[o].before - position[Token(o)]

Backed(m) == state[m].amount \in 1..position[<<m, state[m].outcome>>]

\* A task at work is the only one of its market, and its engine waits for it;
\* a report in the channel is the only one, and its engine waits for it.
OneAtATime ==
    /\ \A o \in Working : /\ task[o].attached
                          /\ fills[task[o].market] = <<>>
                          /\ Kind(task[o].market) = Waits(task[o].side)
    /\ \A o, q \in Working : task[o].market = task[q].market => o = q
    /\ \A m \in Markets : fills[m] # <<>> =>
          Len(fills[m]) = 1 /\ Kind(m) = Waits(fills[m][1].side)

\* Every open order is watched by the task that posted it, which asked for at
\* least what was filled and what is left.
OrdersWatched ==
    /\ \A r \in openOrders :
          /\ task[r.id].pc = "after"
          /\ r.token = Token(r.id) /\ r.side = task[r.id].side /\ r.price = task[r.id].price
          /\ r.left > 0 /\ Moved(r.id) + r.left <= task[r.id].size
    /\ \A r, s \in openOrders : r.id = s.id => r = s

Attributed == \A o \in Orders :
    /\ task[o].pc = "place" => task[o].before = position[Token(o)]
    /\ task[o].pc = "after" => Moved(o) \in 0..task[o].size

SalesBacked ==
    /\ \A m \in Markets : Kind(m) = "Holding" => Backed(m)
    /\ \A o \in Working : task[o].side = "Sell" =>
          /\ task[o].outcome = state[task[o].market].outcome
          /\ IF task[o].pc = "after" THEN state[task[o].market].amount \in 1..task[o].before
                                     ELSE Backed(task[o].market)

ReportsBacked == \A m \in Markets : fills[m] # <<>> =>
    LET u == fills[m][1]
    IN  IF u.side = "Buy" THEN u.size > 0 => u.size \in 1..position[<<m, u.outcome>>]
        ELSE IF u.size = 0 THEN Backed(m)
        ELSE u.synced = position[<<m, state[m].outcome>>]

\* The ledger has what the account gained since the process started, when it had
\* the shares of base, but for an order that is watched.
LedgerFollows(base) ==
    /\ \A o \in Orders : task[o].pc = "after" =>
          NetExposure(Token(o)) = task[o].before - base[Token(o)]
    /\ \A t \in Tokens : (\A o \in Orders : task[o].pc = "after" => Token(o) # t) =>
          NetExposure(t) = position[t] - base[t]

CalmFrom(base) ==
    /\ OneAtATime
    /\ OrdersWatched
    /\ Attributed
    /\ SalesBacked
    /\ ReportsBacked
    /\ base \in [Tokens -> Nat] /\ LedgerFollows(base)

\* The process that runs is the first.
CalmInv == CalmFrom(InitialPosition)

LEMMA CalmInitially == Init => CalmInv
<1> DEFINE base == InitialPosition
<1> SUFFICES ASSUME Init PROVE CalmFrom(base)
  BY DEF CalmInv
<1>1. Working = {} /\ \A o \in Orders : task[o].pc = "idle"
  BY DEF Init, Working, IdleTask, Active
<1>2. \A m \in Markets : fills[m] = <<>> /\ Kind(m) = "Stopped"
  BY DEF Init, Kind, Stopped
<1>3. openOrders = {} /\ position = InitialPosition
  BY DEF Init, ExchangeInit
<1>4. \A t \in Tokens : NetExposure(t) = 0 /\ position[t] - base[t] = 0
  <2>1. base \in [Tokens -> Nat]
    BY EngineAssumption
  <2> QED
    BY <1>3, <2>1 DEF Init, InventoryInit, NetExposure
<1>5. OneAtATime /\ OrdersWatched /\ Attributed
  BY <1>1, <1>2, <1>3 DEF OneAtATime, OrdersWatched, Attributed
<1>6. SalesBacked /\ ReportsBacked
  BY <1>1, <1>2 DEF SalesBacked, ReportsBacked
<1>7. LedgerFollows(base)
  BY <1>1, <1>4 DEF LedgerFollows
<1> QED
  BY <1>5, <1>6, <1>7, EngineAssumption DEF CalmFrom
-----------------------------------------------------------------------------
(***************************************************************************)
(* What a step does to an order, when nothing goes wrong.                  *)
(***************************************************************************)
moneyVars == <<spend, paid, realizedPnl>>
calmVars  == <<state, fills, task, exposures, position, openOrders, moneyVars>>

\* What the engine will give back when it reads that a buy was filled in part.
Refund(m) ==
    LET u == fills[m][1]
    IN  IF fills[m] # <<>> /\ u.side = "Buy" /\ u.size > 0
        THEN AtLeastZero(u.reserved - u.price * u.size) ELSE 0

\* What a task gives back when it reports that n shares were filled.
Returned(o, n) ==
    IF task[o].pc = "reserve" THEN 0
    ELSE IF n = 0 THEN Reserved(o)
    ELSE IF IsBuy(o) THEN 0 ELSE task[o].price * n

Signed(o, n) == IF IsBuy(o) THEN n ELSE -n

\* The engine of a market that has no task at work goes on.
Rests(m, s) ==
    /\ \A o \in Working : task[o].market # m
    /\ fills' = [fills EXCEPT ![m] = <<>>]
    /\ state' = [state EXCEPT ![m] = s]
    /\ s.kind \notin {"PendingBuy", "PendingSell"}
    /\ s.kind = "Holding" => s.amount \in 1..position[<<m, s.outcome>>]
    /\ spend' = AtLeastZero(spend - Refund(m))
    /\ UNCHANGED <<task, exposures, position, openOrders, paid, realizedPnl>>

\* It spawns a task and waits for it.
Waited(m, o, s) ==
    /\ task[o].pc = "idle"
    /\ Kind(m) \notin {"PendingBuy", "PendingSell"}
    /\ task'[o].pc = "reserve" /\ task'[o].market = m /\ task'[o].attached
    /\ \A q \in Orders \ {o} : task'[q] = task[q]
    /\ state' = [state EXCEPT ![m] = s]
    /\ s.kind = Waits(task'[o].side)
    /\ task'[o].side = "Sell" => /\ s.outcome = task'[o].outcome
                                 /\ s.amount \in 1..position[<<m, s.outcome>>]
    /\ UNCHANGED <<fills, exposures, position, openOrders, moneyVars>>

SameOrder(o) ==
    /\ task'[o].market = task[o].market /\ task'[o].outcome = task[o].outcome
    /\ task'[o].side = task[o].side /\ task'[o].price = task[o].price
    /\ task'[o].size = task[o].size /\ task'[o].attached = task[o].attached

\* A task takes its next step: it has the budget, the position or the order.
Advanced(o) ==
    /\ \A q \in Orders \ {o} : task'[q] = task[q]
    /\ SameOrder(o)
    /\ \/ /\ task[o].pc = "reserve" /\ task'[o].pc = "fire"
          /\ UNCHANGED openOrders
       \/ /\ task[o].pc = "fire" /\ task'[o].pc = "place"
          /\ task'[o].before = position[Token(o)]
          /\ UNCHANGED openOrders
       \/ /\ task[o].pc = "place" /\ task'[o].pc = "after"
          /\ task'[o].before = task[o].before
          /\ \E n \in 1..task[o].size : Post(o, Token(o), task[o].side, task[o].price, n)
    /\ spend' = spend + IF task[o].pc = "reserve" THEN Reserved(o) ELSE 0
    /\ UNCHANGED <<state, fills, exposures, position, paid, realizedPnl>>

\* It reports what was filled of its order, and books it.
Answered(o, n) ==
    /\ o \in Working
    /\ \A q \in Orders \ {o} : task'[q] = task[q]
    /\ task'[o].pc \notin Active \ {"release"}
    /\ n = IF task[o].pc = "after" THEN Moved(o) ELSE 0
    /\ \E s \in Nat : Report(o, n, s) /\ (n > 0 => s = position[Token(o)])
    /\ openOrders' = {r \in openOrders : r.id # o}
    /\ \A t \in Tokens : NetExposure(t)' = NetExposure(t) +
           IF t = Token(o) THEN Signed(o, n) ELSE 0
    /\ realizedPnl' = realizedPnl - Signed(o, n) * task[o].price
    /\ spend' = AtLeastZero(spend - Returned(o, n))
    /\ UNCHANGED <<state, position, paid>>

\* A filled buy that has reported returns its slots.
Over(o) ==
    /\ task[o].pc = "release" /\ task' = [task EXCEPT ![o] = DoneTask]
    /\ UNCHANGED <<state, fills, exposures, position, openOrders, moneyVars>>

CalmStep ==
    \/ UNCHANGED calmVars
    \/ \E m \in Markets, s \in StateType : Rests(m, s)
    \/ \E m \in Markets, s \in StateType, o \in Orders : Waited(m, o, s)
    \/ \E o \in Orders : Advanced(o) \/ Over(o) \/ \E n \in Nat : Answered(o, n)
    \/ ExchangeFill
-----------------------------------------------------------------------------
LEMMA RestsCalm ==
    ASSUME NEW base, TypeOK, CalmFrom(base), NEW m \in Markets, NEW s \in StateType, Rests(m, s)
    PROVE  CalmFrom(base)'
<1> USE DEF CalmFrom
<1>1. Working' = Working /\ \A o \in Orders : Token(o)' = Token(o) /\ Moved(o)' = Moved(o)
  BY DEF Rests, Working, Token, Moved, IsBuy
<1>2. /\ state'[m] = s /\ fills'[m] = <<>>
      /\ \A k \in Markets \ {m} : state'[k] = state[k] /\ fills'[k] = fills[k]
  BY DEF Rests, TypeOK
<1>3. \A k \in Markets : k # m => Kind(k)' = Kind(k) /\ Backed(k)' = Backed(k)
  BY <1>2 DEF Rests, Kind, Backed
<1>4. \A o \in Working : task[o].market \in Markets \ {m}
  BY TaskFacts DEF Rests, Working
<1>5. OneAtATime'
  BY <1>1, <1>2, <1>3, <1>4 DEF OneAtATime, Rests
<1>6. OrdersWatched'
  BY <1>1 DEF OrdersWatched, Rests, Token, Moved, IsBuy
<1>7. Attributed'
  BY <1>1 DEF Attributed, Rests, Token, Moved, IsBuy
<1>8. SalesBacked'
  <2>1. Kind(m)' = "Holding" => Backed(m)'
    BY <1>2 DEF Rests, Kind, Backed
  <2>2. \A k \in Markets : Kind(k)' = "Holding" => Backed(k)'
    BY <1>3, <2>1 DEF SalesBacked
  <2>3. ASSUME NEW o \in Working, task[o].side = "Sell"
        PROVE  state'[task[o].market] = state[task[o].market]
    BY <2>3, <1>2, <1>4
  <2> QED
    BY <1>1, <2>2, <2>3 DEF SalesBacked, Rests, Backed
<1>9. ReportsBacked'
  BY <1>2, <1>3 DEF ReportsBacked, Rests
<1>10. LedgerFollows(base)'
  BY <1>1 DEF LedgerFollows, Rests, NetExposure, Token
<1> QED
  BY <1>5, <1>6, <1>7, <1>8, <1>9, <1>10

LEMMA WaitedCalm ==
    ASSUME NEW base, TypeOK, TypeOK', CalmFrom(base),
           NEW m \in Markets, NEW s \in StateType, NEW o \in Orders, Waited(m, o, s)
    PROVE  CalmFrom(base)'
<1> USE DEF CalmFrom
<1>1. /\ Working' = Working \union {o} /\ o \notin Working
      /\ \A q \in Orders \ {o} : /\ task'[q] = task[q]
                                 /\ Token(q)' = Token(q) /\ Moved(q)' = Moved(q)
  BY DEF Waited, Working, Token, Moved, IsBuy, Active
<1>2. /\ state'[m] = s /\ Kind(m)' = Waits(task'[o].side)
      /\ \A k \in Markets \ {m} : state'[k] = state[k] /\ Kind(k)' = Kind(k)
  BY DEF Waited, TypeOK, Kind
<1>3. \A k \in Markets : k # m => Backed(k)' = Backed(k)
  BY <1>2 DEF Waited, Backed
<1>4. /\ fills[m] = <<>>
      /\ \A q \in Working : q \in Orders \ {o} /\ task[q].market \in Markets \ {m}
  <2>1. \A side : Kind(m) # Waits(side)
    BY DEF Waited, Waits
  <2> QED
    BY <1>1, <2>1, TaskFacts DEF OneAtATime, Working
<1>5. task'[o].pc = "reserve" /\ task'[o].market = m /\ task'[o].attached /\ fills' = fills
  BY DEF Waited
<1>6. OneAtATime'
  <2>1. \A q \in Working' :
          /\ task'[q].attached /\ fills'[task'[q].market] = <<>>
          /\ state'[task'[q].market].kind = Waits(task'[q].side)
    BY <1>1, <1>2, <1>4, <1>5 DEF OneAtATime, Kind
  <2>2. \A p, q \in Working' : task'[p].market = task'[q].market => p = q
    BY <1>1, <1>4, <1>5 DEF OneAtATime
  <2>3. \A k \in Markets : fills'[k] # <<>> =>
          Len(fills'[k]) = 1 /\ Kind(k)' = Waits(fills'[k][1].side)
    BY <1>2, <1>4, <1>5 DEF OneAtATime
  <2> QED
    BY <2>1, <2>2, <2>3 DEF OneAtATime, Kind
<1>7. \A q \in Orders : task'[q].pc \in {"place", "after"} => q # o /\ task'[q] = task[q]
  BY <1>1, <1>5
<1>8. OrdersWatched'
  <2>1. \A r \in openOrders : r.id \in Orders \ {o}
    BY DEF OrdersWatched, Waited, TypeOK, OrderType
  <2> QED
    BY <1>1, <2>1 DEF OrdersWatched, Waited, IsBuy
<1>9. Attributed'
  BY <1>1, <1>7 DEF Attributed, Waited
<1>10. SalesBacked'
  <2>1. Kind(m)' # "Holding"
    BY <1>2 DEF Waits
  <2>2. task'[o].side = "Sell" => task'[o].outcome = state'[m].outcome /\ Backed(m)'
    BY <1>2 DEF Waited, Backed
  <2> QED
    BY <1>1, <1>2, <1>3, <1>4, <1>5, <2>1, <2>2 DEF SalesBacked
<1>11. ReportsBacked'
  BY <1>2, <1>3, <1>4 DEF ReportsBacked, Waited
<1>12. LedgerFollows(base)'
  <2>1. \A t \in Tokens : NetExposure(t)' = NetExposure(t) /\ position'[t] = position[t]
    BY DEF Waited, NetExposure
  <2>2. \A q \in Orders : (task'[q].pc = "after" <=> task[q].pc = "after")
    BY <1>1, <1>5 DEF Waited
  <2>3. \A q \in Orders : task[q].pc = "after" => q # o /\ Token(q) \in Tokens
    BY TaskFacts DEF Waited
  <2> QED
    BY <1>1, <2>1, <2>2, <2>3 DEF LedgerFollows
<1> QED
  BY <1>6, <1>8, <1>9, <1>10, <1>11, <1>12

LEMMA AdvancedCalm ==
    ASSUME NEW base, TypeOK, TypeOK', CalmFrom(base), NEW o \in Orders, Advanced(o)
    PROVE  CalmFrom(base)'
<1> USE DEF CalmFrom
<1>1. /\ Working' = Working /\ o \in Working
      /\ \A q \in Orders : Token(q)' = Token(q) /\ (IsBuy(q)' <=> IsBuy(q)) /\ SameOrder(q)
      /\ \A q \in Orders \ {o} : task'[q] = task[q] /\ Moved(q)' = Moved(q)
  BY DEF Advanced, SameOrder, Working, Token, Moved, IsBuy, Active
<1>2. \A k \in Markets : Kind(k)' = Kind(k) /\ Backed(k)' = Backed(k)
  BY DEF Advanced, Kind, Backed
<1>3. UNCHANGED <<state, fills, exposures, position>>
  BY DEF Advanced
<1>4. task[o].pc = "place" => /\ Moved(o) = 0 /\ Moved(o)' = 0
                              /\ task[o].before = position[Token(o)]
  BY <1>1, TaskFacts, PositionFacts DEF Attributed, Advanced, Moved
<1>11. /\ task[o].pc \in {"reserve", "fire", "place"}
       /\ task'[o].pc = "place" => task'[o].before = position[Token(o)]
       /\ task'[o].pc = "after" => task[o].pc = "place" /\ task'[o].before = task[o].before
  BY DEF Advanced
<1>5. OneAtATime'
  BY <1>1, <1>3 DEF OneAtATime, SameOrder, Kind, Working
<1>6. OrdersWatched'
  <2>1. ASSUME NEW r \in openOrders PROVE r.id \in Orders \ {o}
    BY <2>1 DEF OrdersWatched, Advanced, TypeOK, OrderType
  <2>2. CASE openOrders' = openOrders
    BY <1>1, <2>1, <2>2 DEF OrdersWatched, SameOrder
  <2>3. CASE task'[o].pc = "after" /\ \E n \in 1..task[o].size :
                Post(o, Token(o), task[o].side, task[o].price, n)
    <3>1. PICK n \in 1..task[o].size : Post(o, Token(o), task[o].side, task[o].price, n)
      BY <2>3
    <3> DEFINE new == [id |-> o, token |-> Token(o), side |-> task[o].side,
                       price |-> task[o].price, left |-> n]
    <3>2. n \in Nat \ {0} /\ n <= task[o].size
      BY <3>1, TaskFacts
    <3>3. openOrders' = openOrders \union {new}
      BY <3>1, <3>2 DEF Post
    <3>4. task[o].pc = "place"
      BY <2>3 DEF Advanced
    <3>5. /\ task'[o].pc = "after" /\ new.token = Token(o)'
          /\ new.side = task'[o].side /\ new.price = task'[o].price
          /\ new.id = o /\ new.left > 0 /\ Moved(o)' + new.left <= task'[o].size
      BY <1>1, <1>4, <2>3, <3>2, <3>4 DEF SameOrder
    <3>6. \A r \in openOrders :
            /\ task'[r.id].pc = "after" /\ r.token = Token(r.id)'
            /\ r.side = task'[r.id].side /\ r.price = task'[r.id].price
            /\ r.left > 0 /\ Moved(r.id)' + r.left <= task'[r.id].size
      BY <1>1, <2>1 DEF OrdersWatched, SameOrder
    <3>7. \A r, x \in openOrders' : r.id = x.id => r = x
      BY <2>1, <3>3 DEF OrdersWatched
    <3> HIDE DEF new
    <3>8. \A r \in openOrders' :
            /\ task'[r.id].pc = "after" /\ r.token = Token(r.id)'
            /\ r.side = task'[r.id].side /\ r.price = task'[r.id].price
            /\ r.left > 0 /\ Moved(r.id)' + r.left <= task'[r.id].size
      <4>1. \A r \in openOrders' : r \in openOrders \/ r = new
        BY <3>3
      <4>2. ASSUME NEW r, r = new
            PROVE  /\ task'[r.id].pc = "after" /\ r.token = Token(r.id)'
                   /\ r.side = task'[r.id].side /\ r.price = task'[r.id].price
                   /\ r.left > 0 /\ Moved(r.id)' + r.left <= task'[r.id].size
        <5>1. r.id = o
          BY <3>5, <4>2
        <5> QED
          BY <3>5, <4>2, <5>1 DEF Token, Moved, IsBuy
      <4> QED
        BY <3>6, <4>1, <4>2
    <3> QED
      BY <3>7, <3>8 DEF OrdersWatched, Token, Moved, IsBuy
  <2> QED
    BY <2>2, <2>3 DEF Advanced
<1>7. Attributed'
  <2>1. \A q \in Orders \ {o} :
           /\ task'[q].pc = "place" => task'[q].before = position'[Token(q)']
           /\ task'[q].pc = "after" => Moved(q)' \in 0..task'[q].size
    BY <1>1, <1>3 DEF Attributed
  <2>2. task'[o].pc = "place" => task'[o].before = position'[Token(o)']
    BY <1>1, <1>3, <1>11
  <2>3. task'[o].pc = "after" => Moved(o)' \in 0..task'[o].size
    BY <1>1, <1>4, <1>11, TaskFacts DEF SameOrder
  <2> QED
    BY <2>1, <2>2, <2>3 DEF Attributed
<1>8. SalesBacked'
  <2>1. \A q \in Working : task'[q].pc = "after" /\ task[q].pc # "after" =>
           task'[q].before = position[Token(q)] /\ task[q].pc = "place"
    BY <1>1, <1>4, <1>11 DEF Working
  <2>2. \A q \in Working : task[q].pc = "after" => task'[q] = task[q]
    BY <1>1, <1>11 DEF Working
  <2>3. \A q \in Working : Token(q) = <<task[q].market, task[q].outcome>>
    BY DEF Token
  <2>4. \A k \in Markets : Kind(k)' = "Holding" => Backed(k)'
    BY <1>2 DEF SalesBacked
  <2>5. ASSUME NEW q \in Working, task[q].side = "Sell"
        PROVE  /\ task[q].outcome = state[task[q].market].outcome
               /\ IF task'[q].pc = "after" THEN state[task[q].market].amount \in 1..task'[q].before
                                           ELSE Backed(task[q].market)
    BY <2>5, <2>1, <2>2, <2>3 DEF SalesBacked, Backed
  <2>6. \A q \in Orders : task'[q].market = task[q].market /\ task'[q].side = task[q].side
                          /\ task'[q].outcome = task[q].outcome
    BY <1>1 DEF SameOrder
  <2>7. Working \subseteq Orders
    BY DEF Working
  <2> QED
    BY <1>1, <1>3, <2>4, <2>5, <2>6, <2>7 DEF SalesBacked, Backed
<1>9. ReportsBacked'
  BY <1>2, <1>3 DEF ReportsBacked
<1>10. LedgerFollows(base)'
  <2>1. \A t \in Tokens : NetExposure(t)' = NetExposure(t)
    BY <1>3 DEF NetExposure
  <2>2. \A q \in Working : Token(q) \in Tokens
    BY TaskFacts DEF Working
  <2>3. ASSUME task[o].pc = "place"
        PROVE  NetExposure(Token(o)) = task[o].before - base[Token(o)]
    <3>1. ASSUME NEW q \in Orders, task[q].pc = "after" PROVE Token(q) # Token(o)
      <4>1. q \in Working /\ o \in Working /\ q # o
        BY <2>3, <3>1 DEF Working, Active
      <4> QED
        BY <4>1 DEF OneAtATime, Token
    <3> QED
      BY <1>1, <1>4, <2>2, <2>3, <3>1 DEF LedgerFollows
  <2>4. \A q \in Orders : task'[q].pc = "after" =>
           NetExposure(Token(q)) = task'[q].before - base[Token(q)]
    BY <1>1, <2>3 DEF LedgerFollows, Advanced
  <2>5. \A q \in Orders : task[q].pc = "after" => task'[q].pc = "after"
    BY <1>1 DEF Advanced
  <2>6. \A q \in Orders : task'[q].pc = "after" => q \in Working
    BY <1>1 DEF Working, Active
  <2>7. \A t \in Tokens : (\A q \in Orders : task'[q].pc = "after" => Token(q) # t) =>
           NetExposure(t) = position[t] - base[t]
    BY <2>5 DEF LedgerFollows
  <2> QED
    BY <1>1, <1>3, <2>1, <2>2, <2>4, <2>6, <2>7 DEF LedgerFollows
<1> QED
  BY <1>5, <1>6, <1>7, <1>8, <1>9, <1>10

\* An answer is the only report in its market's channel.
LEMMA AnswerFiled ==
    ASSUME TypeOK, OneAtATime, NEW o \in Orders, NEW n \in Nat, NEW s \in Nat,
           o \in Working, Report(o, n, s)
    PROVE  LET m == task[o].market
               u == [side |-> task[o].side, outcome |-> task[o].outcome,
                     price |-> task[o].price, size |-> n,
                     synced |-> s, reserved |-> Reserved(o)]
           IN  /\ fills'[m] # <<>> /\ Len(fills'[m]) = 1 /\ fills'[m][1] = u
               /\ \A k \in Markets \ {m} : fills'[k] = fills[k]
<1> DEFINE m == task[o].market
           u == [side |-> task[o].side, outcome |-> task[o].outcome,
                 price |-> task[o].price, size |-> n, synced |-> s, reserved |-> Reserved(o)]
<1>1. task[o].attached /\ fills[m] = <<>> /\ m \in Markets
  BY TaskFacts DEF OneAtATime
<1>2. fills' = [fills EXCEPT ![m] = Append(@, u)]
  BY <1>1 DEF Report
<1>3. fills'[m] = Append(<<>>, u) /\ \A k \in Markets \ {m} : fills'[k] = fills[k]
  BY <1>1, <1>2 DEF TypeOK
<1> HIDE DEF u
<1>4. Append(<<>>, u) = <<u>>
  OBVIOUS
<1>5. Len(<<u>>) = 1 /\ <<u>>[1] = u /\ <<u>> # <<>>
  OBVIOUS
<1> QED
  BY <1>3, <1>4, <1>5 DEF u

LEMMA AnsweredCalm ==
    ASSUME NEW base, TypeOK, TypeOK', CalmFrom(base), NEW o \in Orders, NEW n \in Nat, Answered(o, n)
    PROVE  CalmFrom(base)'
<1> USE DEF CalmFrom
<1> DEFINE m == task[o].market
<1>1. /\ Working' = Working \ {o} /\ o \in Working /\ Working \subseteq Orders
      /\ \A q \in Orders \ {o} : task'[q] = task[q]
      /\ task'[o].pc \notin Active \ {"release"}
  BY DEF Answered, Working
<1>2. UNCHANGED <<state, position>>
  BY DEF Answered
<1>3. m \in Markets /\ Kind(m) = Waits(task[o].side)
  BY <1>1, TaskFacts DEF OneAtATime
<1>4. \A q \in Working \ {o} : task[q].market # m /\ Token(q) # Token(o)
  BY <1>1 DEF OneAtATime, Token
<1>5. PICK s \in Nat : Report(o, n, s) /\ (n > 0 => s = position[Token(o)])
  BY DEF Answered
<1> DEFINE u == [side |-> task[o].side, outcome |-> task[o].outcome,
                 price |-> task[o].price, size |-> n, synced |-> s, reserved |-> Reserved(o)]
<1>6. /\ fills'[m] # <<>> /\ Len(fills'[m]) = 1 /\ fills'[m][1] = u
      /\ \A k \in Markets \ {m} : fills'[k] = fills[k]
  BY <1>1, <1>5, AnswerFiled
<1>7. \A q \in Orders : task'[q].pc \in {"place", "after"} => q # o /\ task'[q] = task[q]
  BY <1>1 DEF Active
<1>8. OneAtATime'
  <2>1. \A q \in Working' : /\ task'[q].attached
                            /\ fills'[task'[q].market] = <<>>
                            /\ state'[task'[q].market].kind = Waits(task'[q].side)
    <3>1. \A q \in Working' : q \in Working \ {o} /\ task'[q] = task[q]
      BY <1>1
    <3>2. \A q \in Working' : task[q].market \in Markets \ {m}
      BY <3>1, <1>1, <1>4, TaskFacts
    <3> QED
      BY <3>1, <3>2, <1>2, <1>6 DEF OneAtATime, Kind
  <2>2. \A p, q \in Working' : task'[p].market = task'[q].market => p = q
    BY <1>1 DEF OneAtATime
  <2>3. \A k \in Markets : fills'[k] # <<>> =>
          Len(fills'[k]) = 1 /\ state'[k].kind = Waits(fills'[k][1].side)
    BY <1>2, <1>3, <1>6 DEF OneAtATime, Kind
  <2> QED
    BY <2>1, <2>2, <2>3 DEF OneAtATime, Kind
<1>9. OrdersWatched'
  <2>1. \A r \in openOrders' : /\ r \in openOrders /\ r.id \in Orders \ {o}
                               /\ task'[r.id] = task[r.id]
    BY <1>1 DEF Answered, TypeOK, OrderType
  <2> QED
    BY <2>1, <1>2 DEF OrdersWatched, Token, Moved, IsBuy
<1>10. Attributed'
  BY <1>2, <1>7 DEF Attributed, Token, Moved, IsBuy
<1>11. SalesBacked'
  BY <1>1, <1>2 DEF SalesBacked, Backed, Kind
<1>12. ReportsBacked'
  <2>1. CASE task[o].side = "Buy" /\ n > 0
    <3>1. task[o].pc = "after" /\ n = position[Token(o)] - task[o].before
      BY <2>1 DEF Answered, Moved, IsBuy
    <3>2. n \in 1..position[Token(o)]
      BY <2>1, <3>1, TaskFacts, PositionFacts
    <3> QED
      BY <2>1, <3>2, <1>2, <1>6 DEF ReportsBacked, Backed, Token
  <2>2. CASE task[o].side = "Sell" /\ n = 0
    <3>1. task[o].outcome = state[m].outcome
      BY <2>2, <1>1 DEF SalesBacked
    <3>2. CASE task[o].pc = "after"
      <4>1. task[o].before = position[Token(o)]
        BY <2>2, <3>2, TaskFacts, PositionFacts DEF Answered, Moved, IsBuy
      <4> QED
        BY <2>2, <3>1, <3>2, <4>1, <1>1, <1>2, <1>6 DEF SalesBacked, ReportsBacked, Backed, Token
    <3>3. CASE task[o].pc # "after"
      BY <2>2, <3>3, <1>1, <1>2, <1>6 DEF SalesBacked, ReportsBacked, Backed
    <3> QED
      BY <3>2, <3>3
  <2>3. CASE task[o].side = "Sell" /\ n > 0
    <3>1. s = position[<<m, state[m].outcome>>]
      BY <2>3, <1>1, <1>5 DEF SalesBacked, Token
    <3> QED
      BY <2>3, <3>1, <1>2, <1>6 DEF ReportsBacked, Backed
  <2>4. CASE task[o].side = "Buy" /\ n = 0
    BY <2>4, <1>2, <1>6 DEF ReportsBacked, Backed
  <2> QED
    BY <2>1, <2>2, <2>3, <2>4, TaskFacts
<1>13. LedgerFollows(base)'
  <2> DEFINE delta == Signed(o, n)
  <2>1. \A t \in Tokens : NetExposure(t)' = NetExposure(t) + IF t = Token(o) THEN delta ELSE 0
    BY DEF Answered
  <2>2. /\ \A t \in Tokens : NetExposure(t) \in Int /\ position[t] \in Nat
                           /\ base[t] \in Nat
        /\ \A q \in Orders : Token(q) \in Tokens /\ task[q].before \in Nat
    <3>1. \A t \in Tokens : NetExposure(t) \in Int /\ position[t] \in Nat
      BY DEF TypeOK, NetExposure
    <3>2. \A t \in Tokens : base[t] \in Nat
      OBVIOUS
    <3> QED
      BY <3>1, <3>2, TaskFacts
  <2>3. \A q \in Orders : task'[q].pc = "after" =>
           q \in Working \ {o} /\ task'[q] = task[q]
    BY <1>7 DEF Working, Active
  <2>4. ASSUME NEW q \in Orders, task'[q].pc = "after"
        PROVE  NetExposure(Token(q))' = task'[q].before - base[Token(q)']
    <3>1. task'[q] = task[q] /\ Token(q)' = Token(q) /\ Token(q) # Token(o)
      BY <2>3, <2>4, <1>4 DEF Token
    <3>2. \A t \in Tokens : t # Token(o) => NetExposure(t)' = NetExposure(t)
      BY <2>1, <2>2
    <3>3. NetExposure(Token(q)) = task[q].before - base[Token(q)]
      BY <2>4, <3>1 DEF LedgerFollows
    <3>4. exposures'[Token(q)].yes_qty - exposures'[Token(q)].no_qty = NetExposure(Token(q))
      BY <2>2, <3>1, <3>2 DEF NetExposure
    <3> QED
      BY <3>1, <3>3, <3>4 DEF NetExposure
  <2>5. ASSUME NEW t \in Tokens, \A q \in Orders : task'[q].pc = "after" => Token(q)' # t
        PROVE  NetExposure(t)' = position'[t] - base[t]
    <3>1. \A q \in Orders \ {o} : task[q].pc = "after" => Token(q) # t
      BY <2>5, <1>1 DEF Token
    <3>2. CASE task[o].pc = "after" /\ t = Token(o)
      <4>1. NetExposure(t) = task[o].before - base[t]
        BY <3>2 DEF LedgerFollows
      <4>2. delta = position[t] - task[o].before
        BY <3>2, <2>2 DEF Answered, Moved, Signed
      <4> QED
        BY <4>1, <4>2, <3>2, <2>1, <2>2, <1>2
    <3>3. CASE ~(task[o].pc = "after" /\ t = Token(o))
      <4>1. NetExposure(t) = position[t] - base[t]
        BY <3>1, <3>3 DEF LedgerFollows
      <4>2. NetExposure(t)' = NetExposure(t)
        BY <3>3, <2>1, <2>2 DEF Answered, Signed
      <4> QED
        BY <4>1, <4>2, <1>2
    <3> QED
      BY <3>2, <3>3
  <2> QED
    BY <2>4, <2>5 DEF LedgerFollows
<1> QED
  BY <1>8, <1>9, <1>10, <1>11, <1>12, <1>13

LEMMA OverCalm ==
    ASSUME NEW base, TypeOK, CalmFrom(base), NEW o \in Orders, Over(o)
    PROVE  CalmFrom(base)'
<1> USE DEF CalmFrom
<1>1. \A q \in Orders : /\ q # o => task'[q] = task[q]
                        /\ task[q].pc \in {"place", "after"} => q # o
                        /\ task'[q].pc \in {"place", "after"} => q # o
  BY DEF Over, TypeOK, DoneTask, IdleTask
<1>2. Working' = Working /\ \A q \in Working : q \in Orders /\ q # o /\ task'[q] = task[q]
  BY <1>1 DEF Over, Working, Active, TypeOK, DoneTask, IdleTask
<1>3. UNCHANGED <<state, fills, exposures, position, openOrders>>
  BY DEF Over
<1>4. OneAtATime'
  BY <1>2, <1>3 DEF OneAtATime, Kind
<1>5. OrdersWatched'
  <2>1. \A r \in openOrders : r.id \in Orders /\ task'[r.id] = task[r.id]
    BY <1>1 DEF OrdersWatched, TypeOK, OrderType
  <2> QED
    BY <2>1, <1>3 DEF OrdersWatched, Token, Moved, IsBuy
<1>6. Attributed'
  BY <1>1, <1>3 DEF Attributed, Token, Moved, IsBuy
<1>7. SalesBacked'
  BY <1>2, <1>3 DEF SalesBacked, Kind, Backed
<1>8. ReportsBacked'
  BY <1>3 DEF ReportsBacked, Backed
<1>9. LedgerFollows(base)'
  BY <1>1, <1>3 DEF LedgerFollows, NetExposure, Token
<1> QED
  BY <1>4, <1>5, <1>6, <1>7, <1>8, <1>9

\* What one fill does: the order's task is the only one that watches its token.
LEMMA FillMoves ==
    ASSUME NEW base, TypeOK, CalmFrom(base), NEW r \in openOrders, NEW n \in 1..r.left, Fill(r, n)
    PROVE  LET o == r.id
               d == IF IsBuy(o) THEN n ELSE -n
           IN  /\ o \in Orders /\ o \in Working /\ task[o].pc = "after"
               /\ n \in Nat \ {0} /\ r.left \in Nat /\ n <= r.left
               /\ r.token = Token(o) /\ Token(o) \in Tokens
               /\ \A q \in Working \ {o} : /\ Token(q) # Token(o)
                                           /\ task[q].market # task[o].market
               /\ position'[Token(o)] = position[Token(o)] + d
               /\ position'[Token(o)] \in Nat
               /\ \A t \in Tokens \ {Token(o)} : position'[t] = position[t]
               /\ Moved(o) + r.left <= task[o].size
<1> DEFINE o == r.id
<1>1. r \in OrderType
  BY DEF TypeOK
<1>2. o \in Orders /\ r.left \in Nat /\ n \in Nat \ {0} /\ n <= r.left
  BY <1>1 DEF OrderType
<1>3. /\ task[o].pc = "after" /\ r.token = Token(o) /\ r.side = task[o].side
      /\ Moved(o) + r.left <= task[o].size
  BY DEF CalmFrom, OrdersWatched
<1>4. o \in Working /\ Token(o) \in Tokens
  BY <1>2, <1>3, TaskFacts DEF Working, Active
<1>5. \A q \in Working \ {o} : /\ Token(q) # Token(o) /\ task[q].market # task[o].market
  BY <1>4 DEF CalmFrom, OneAtATime, Token
<1>6. /\ position' = [position EXCEPT ![r.token] = @ + IF r.side = "Buy" THEN n ELSE -n]
      /\ position[r.token] + (IF r.side = "Buy" THEN n ELSE -n) >= 0
  BY DEF Fill
<1>7. /\ position'[Token(o)] = position[Token(o)] + IF IsBuy(o) THEN n ELSE -n
      /\ position'[Token(o)] \in Nat
      /\ \A t \in Tokens \ {Token(o)} : position'[t] = position[t]
  BY <1>2, <1>3, <1>4, <1>6 DEF TypeOK, IsBuy
<1> QED
  BY <1>2, <1>3, <1>4, <1>5, <1>7

LEMMA FilledCalm ==
    ASSUME NEW base, TypeOK, TypeOK', CalmFrom(base), ExchangeFill
    PROVE  CalmFrom(base)'
<1> USE DEF CalmFrom
<1>1. PICK r \in openOrders : \E n \in 1..r.left : Fill(r, n)
  BY DEF ExchangeFill
<1>2. PICK n \in 1..r.left : Fill(r, n)
  BY <1>1
<1> DEFINE o == r.id
           d == IF IsBuy(o) THEN n ELSE -n
<1>3. /\ o \in Orders /\ o \in Working /\ task[o].pc = "after"
      /\ n \in Nat \ {0} /\ r.left \in Nat /\ n <= r.left
      /\ r.token = Token(o) /\ Token(o) \in Tokens
      /\ \A q \in Working \ {o} : Token(q) # Token(o) /\ task[q].market # task[o].market
      /\ position'[Token(o)] = position[Token(o)] + d
      /\ \A t \in Tokens \ {Token(o)} : position'[t] = position[t]
      /\ Moved(o) + r.left <= task[o].size
  BY <1>2, FillMoves
<1>4. UNCHANGED <<state, fills, task, exposures>>
  BY DEF ExchangeFill, engineVars, inventoryVars
<1>5. /\ Moved(o)' = Moved(o) + n
      /\ \A q \in Working \ {o} : Moved(q)' = Moved(q) /\ position'[Token(q)] = position[Token(q)]
      /\ \A q \in Orders : Token(q)' = Token(q)
  <2>1. \A q \in Orders : Token(q)' = Token(q) /\ Token(q) \in Tokens
    BY <1>4, TaskFacts DEF Token
  <2>2. \A q \in Working \ {o} : position'[Token(q)] = position[Token(q)]
    BY <1>3, <2>1 DEF Working
  <2>3. Moved(o)' = Moved(o) + n
    BY <1>3, <1>4, <2>1, TaskFacts, PositionFacts DEF Moved, IsBuy
  <2>4. \A q \in Working \ {o} : Moved(q)' = Moved(q)
    BY <1>4, <2>1, <2>2 DEF Moved, IsBuy, Working
  <2> QED
    BY <2>1, <2>2, <2>3, <2>4
<1>6. \A q \in Orders : task[q].pc \in {"place", "after"} => q \in Working
  BY DEF Working, Active
<1>7. OneAtATime'
  BY <1>4 DEF OneAtATime, Working, Kind
<1>8. OrdersWatched'
  <2>1. openOrders' = (openOrders \ {r}) \union {[r EXCEPT !.left = k] : k \in {r.left - n} \ {0}}
    BY <1>2 DEF Fill
  <2>2. \A x \in openOrders \ {r} : x.id \in Working \ {o}
    BY <1>6 DEF OrdersWatched, TypeOK, OrderType
  <2>3. r \in OrderType
    BY DEF TypeOK
  <2>4. \A x \in openOrders' : \/ x \in openOrders \ {r}
                               \/ /\ x.id = o /\ x.token = r.token /\ x.side = r.side
                                  /\ x.price = r.price /\ x.left = r.left - n /\ r.left - n # 0
    BY <2>1, <2>3 DEF OrderType
  <2>5. ASSUME NEW x \in openOrders'
        PROVE  /\ task'[x.id].pc = "after" /\ x.token = Token(x.id)'
               /\ x.side = task'[x.id].side /\ x.price = task'[x.id].price
               /\ x.left > 0 /\ Moved(x.id)' + x.left <= task'[x.id].size
    <3>1. CASE x \in openOrders \ {r}
      <4>1. Moved(x.id) = Moved(x.id)' /\ x.id \in Orders
        BY <3>1, <2>2, <1>5 DEF Working
      <4> QED
        BY <3>1, <4>1, <1>4 DEF OrdersWatched, Token
    <3>2. CASE x.id = o /\ x.token = r.token /\ x.side = r.side
               /\ x.price = r.price /\ x.left = r.left - n /\ r.left - n # 0
      <4>1. Moved(o)' + x.left <= task[o].size /\ x.left > 0
        BY <3>2, <1>3, <1>5, TaskFacts, PositionFacts DEF Moved
      <4>2. Moved(x.id)' = Moved(o)' /\ Token(x.id)' = Token(o)'
        BY <3>2 DEF Moved, Token, IsBuy
      <4> QED
        BY <3>2, <4>1, <4>2, <1>3, <1>4, <1>5 DEF OrdersWatched
    <3> QED
      BY <2>4, <3>1, <3>2
  <2>6. \A x, y \in openOrders' : x.id = y.id => x = y
    <3>1. \A x \in openOrders' : x \in openOrders \ {r} \/ x = [r EXCEPT !.left = r.left - n]
      BY <2>1
    <3>2. \A x \in openOrders' : x.id = o => x = [r EXCEPT !.left = r.left - n]
      BY <2>2, <3>1
    <3>3. \A x \in openOrders' : x.id # o => x \in openOrders
      BY <2>3, <3>1 DEF OrderType
    <3> QED
      BY <3>2, <3>3 DEF OrdersWatched
  <2> QED
    BY <2>5, <2>6 DEF OrdersWatched, Token, Moved, IsBuy
<1>9. Attributed'
  <2>1. Moved(o)' \in 0..task[o].size
    <3>1. Moved(o) \in 0..task[o].size
      BY <1>3 DEF Attributed
    <3> QED
      BY <3>1, <1>3, <1>5, TaskFacts
  <2>2. \A q \in Orders \ {o} : task'[q].pc = "after" => Moved(q)' \in 0..task'[q].size
    BY <1>4, <1>5, <1>6 DEF Attributed
  <2>3. \A q \in Orders : task'[q].pc = "place" => task'[q].before = position'[Token(q)']
    BY <1>3, <1>4, <1>5, <1>6 DEF Attributed
  <2> QED
    BY <1>4, <2>1, <2>2, <2>3 DEF Attributed, Token, Moved, IsBuy
<1>10. \A k \in Markets : k # task[o].market => Backed(k)' = Backed(k)
  <2>1. ASSUME NEW k \in Markets, k # task[o].market
        PROVE  <<k, state[k].outcome>> \in Tokens \ {Token(o)}
    BY <2>1, EngineAssumption DEF Token, TypeOK, StateType
  <2> QED
    BY <2>1, <1>3, <1>4 DEF Backed
<1>11. \A k \in Markets : Kind(k) = "Holding" \/ fills[k] # <<>> => k # task[o].market
  BY <1>3 DEF OneAtATime, Waits
<1>12. SalesBacked'
  <2>1. \A k \in Markets : Kind(k)' = "Holding" => Backed(k)'
    BY <1>4, <1>10, <1>11 DEF SalesBacked, Kind
  <2>2. \A q \in Working : q # o /\ Backed(task[q].market) =>
            state[task[q].market].amount \in
                1..position'[<<task[q].market, state[task[q].market].outcome>>]
    <3>1. ASSUME NEW q \in Working, q # o, NEW k \in Markets, k = task[q].market, Backed(k)
          PROVE  state[k].amount \in 1..position'[<<k, state[k].outcome>>]
      BY <3>1, <1>3, <1>4, <1>10 DEF Backed
    <3>2. \A q \in Working : task[q].market \in Markets
      BY TaskFacts DEF Working
    <3> QED
      BY <3>1, <3>2
  <2>3. Working' = Working
    BY <1>4 DEF Working
  <2> QED
    BY <1>3, <1>4, <2>1, <2>2, <2>3 DEF SalesBacked, Backed
<1>13. ReportsBacked'
  <2>1. ASSUME NEW k \in Markets, NEW s \in Outcomes, fills[k] # <<>>
        PROVE  position'[<<k, s>>] = position[<<k, s>>]
    <3>1. <<k, s>> \in Tokens \ {Token(o)}
      BY <2>1, <1>11, EngineAssumption DEF Token
    <3> QED
      BY <3>1, <1>3
  <2>2. ASSUME NEW k \in Markets, fills[k] # <<>> PROVE fills[k][1].outcome \in Outcomes
    <3>1. fills[k] \in Seq(UpdateType) /\ Len(fills[k]) = 1
      BY <2>2 DEF OneAtATime, TypeOK
    <3>2. fills[k][1] \in UpdateType
      BY <3>1
    <3> QED
      BY <3>2 DEF UpdateType
  <2>3. \A k \in Markets : state[k].outcome \in Outcomes
    BY DEF TypeOK, StateType
  <2> QED
    BY <1>4, <2>1, <2>2, <2>3 DEF ReportsBacked, Backed
<1>14. LedgerFollows(base)'
  <2>1. \A t \in Tokens : (\A q \in Orders : task[q].pc = "after" => Token(q) # t)
                            => t # Token(o)
    BY <1>3
  <2> QED
    BY <1>3, <1>4, <1>5, <2>1 DEF LedgerFollows, NetExposure, Token
<1> QED
  BY <1>7, <1>8, <1>9, <1>12, <1>13, <1>14
-----------------------------------------------------------------------------
\* No engine leaves its task behind, and every call gets its answer.
Attended == Faults \subseteq {"crash", "cancel_failure"}

LEMMA NothingFails ==
    ASSUME Attended
    PROVE  /\ \A m : ~Stop(m) /\ ~Watchdog(m)
           /\ \A t : Synced(t) \subseteq {position[t]} \/ Synced(t) \subseteq {LocalPosition(t)}
           /\ HasClient => \A t : Synced(t) \subseteq {position[t]}
BY DEF Stop, Watchdog, Attended, Synced

LEMMA HandledRests ==
    ASSUME NEW base, TypeOK, TypeOK', CalmFrom(base), NEW m \in Markets, HandleFill(m)
    PROVE  \E s \in StateType : Rests(m, s)
<1> USE DEF CalmFrom
<1> DEFINE u == Head(fills[m])
<1>1. fills[m] \in Seq(UpdateType) /\ fills[m] # <<>> /\ Len(fills[m]) = 1
  BY DEF TypeOK, HandleFill, OneAtATime
<1>2. u = fills[m][1] /\ u \in UpdateType /\ Tail(fills[m]) = <<>>
  <2>1. u = fills[m][1] /\ u \in UpdateType
    BY <1>1
  <2>2. Tail(fills[m]) \in Seq(UpdateType) /\ Len(Tail(fills[m])) = 0
    BY <1>1
  <2>3. Tail(fills[m]) = <<>>
    BY <2>2, EmptySeq
  <2> QED
    BY <2>1, <2>3
<1>3. Kind(m) = Waits(u.side) /\ u.side \in {"Buy", "Sell"} /\ u.size \in Nat
  BY <1>1, <1>2 DEF OneAtATime, UpdateType
<1>4. \A o \in Working : task[o].market # m
  BY <1>1 DEF OneAtATime
<1>5. /\ fills' = [fills EXCEPT ![m] = <<>>]
      /\ UNCHANGED <<task, exposures, position, openOrders, paid, realizedPnl>>
  BY <1>2 DEF HandleFill, inventoryVars, exchangeVars, TypeOK
<1>6. IF u.side = "Buy" THEN u.size > 0 => u.size \in 1..position[<<m, u.outcome>>]
      ELSE IF u.size = 0 THEN Backed(m) ELSE u.synced = position[<<m, state[m].outcome>>]
  BY <1>1, <1>2 DEF ReportsBacked
<1> DEFINE Handled(s) == /\ state' = [state EXCEPT ![m] = s]
                         /\ s.kind \notin {"PendingBuy", "PendingSell"}
                         /\ s.kind = "Holding" => s.amount \in 1..position[<<m, s.outcome>>]
<1>7. \E s : Handled(s)
  <2>1. CASE Bought(m, u)
    <3>1. u.size \in 1..position[<<m, u.outcome>>]
      BY <2>1, <1>6 DEF Bought
    <3>2. Handled(Holding(u.outcome, u.size))
      BY <2>1, <3>1 DEF Bought, Become, Holding
    <3> HIDE DEF Handled
    <3> QED
      BY <3>2
  <2>2. CASE BuyFailed(m, u)
    <3>1. Handled(Empty)
      BY <2>2 DEF BuyFailed, Become, Empty, Stopped
    <3> HIDE DEF Handled
    <3> QED
      BY <3>1
  <2>3. CASE Sold(m, u)
    <3>1. u.synced = position[<<m, state[m].outcome>>] /\ u.synced \in Nat
      BY <2>3, <1>2, <1>6 DEF Sold, UpdateType
    <3>2. Handled(IF u.synced > 0 THEN Holding(state[m].outcome, u.synced) ELSE Empty)
      BY <2>3, <3>1 DEF Sold, Become, Holding, Empty, Stopped
    <3> HIDE DEF Handled
    <3> QED
      BY <3>2
  <2>4. CASE SellFailed(m, u)
    <3>1. Backed(m)
      BY <2>4, <1>6 DEF SellFailed
    <3>2. Handled(Holding(state[m].outcome, state[m].amount))
      BY <2>4, <3>1 DEF SellFailed, Become, Holding, Backed
    <3> HIDE DEF Handled
    <3> QED
      BY <3>2
  <2>5. ~Ignored(m, u)
    BY <1>3 DEF Ignored, Waits
  <2> HIDE DEF Handled
  <2> QED
    BY <2>1, <2>2, <2>3, <2>4, <2>5 DEF HandleFill
<1>8. PICK s : Handled(s)
  BY <1>7
<1>9. s \in StateType
  BY <1>8 DEF TypeOK
<1>10. spend' = AtLeastZero(spend - Refund(m))
  <2>1. spend - 0 = spend /\ AtLeastZero(spend) = spend
    BY DEF TypeOK, AtLeastZero
  <2>2. CASE Bought(m, u)
    BY <2>2, <1>1, <1>2 DEF Bought, RefundBudgetDelta, Refund
  <2>3. CASE ~Bought(m, u)
    <3>1. spend' = spend /\ ~(u.side = "Buy" /\ u.size > 0)
      BY <2>3, <1>3 DEF HandleFill, BuyFailed, Sold, SellFailed, Ignored, Waits, guardVars
    <3> QED
      BY <2>1, <3>1, <1>2 DEF Refund
  <2> QED
    BY <2>2, <2>3
<1> QED
  BY <1>4, <1>5, <1>8, <1>9, <1>10 DEF Rests

\* An engine that is neither pending nor asked to be has nothing under way.
LEMMA EngineRests ==
    ASSUME NEW base, TypeOK, TypeOK', CalmFrom(base), NEW m \in Markets, NEW s,
           Kind(m) \notin {"PendingBuy", "PendingSell"}, Become(m, s),
           s.kind \notin {"PendingBuy", "PendingSell"},
           s.kind = "Holding" => s.amount \in 1..position[<<m, s.outcome>>],
           UNCHANGED <<fills, task, exposures, position, openOrders, moneyVars>>
    PROVE  \E x \in StateType : Rests(m, x)
<1>1. \A side : Kind(m) # Waits(side)
  BY DEF Waits
<1>2. fills[m] = <<>> /\ \A o \in Working : task[o].market # m
  BY <1>1 DEF CalmFrom, OneAtATime
<1>3. fills' = [fills EXCEPT ![m] = <<>>]
  BY <1>2 DEF TypeOK
<1>4. s \in StateType
  BY DEF Become, TypeOK
<1>5. spend' = AtLeastZero(spend - Refund(m))
  BY <1>2 DEF Refund, AtLeastZero, moneyVars, TypeOK
<1> QED
  BY <1>2, <1>3, <1>4, <1>5 DEF Rests, Become, moneyVars

\* What an engine reads of its account is not more than what is there.
LEMMA SyncedIsThere ==
    ASSUME NEW base, TypeOK, CalmFrom(base), Attended, NEW m \in Markets, NEW s \in Outcomes,
           Kind(m) \notin {"PendingBuy", "PendingSell"}, NEW p \in Synced(<<m, s>>)
    PROVE  p \in 0..position[<<m, s>>]
<1> DEFINE t == <<m, s>>
<1>1. t \in Tokens
  BY EngineAssumption
<1>2. position[t] \in Nat /\ base[t] \in Nat
  BY <1>1, PositionFacts DEF CalmFrom
<1>3. \A side : Kind(m) # Waits(side)
  BY DEF Waits
<1>4. \A o \in Orders : task[o].pc = "after" => Token(o) # t
  <2>1. \A o \in Orders : task[o].pc = "after" => o \in Working
    BY DEF Working, Active
  <2>2. \A o \in Working : task[o].market # m
    BY <1>3 DEF CalmFrom, OneAtATime
  <2> QED
    BY <2>1, <2>2 DEF Token
<1>5. NetExposure(t) = position[t] - base[t]
  BY <1>1, <1>4 DEF CalmFrom, LedgerFollows
<1>6. LocalPosition(t) \in 0..position[t]
  BY <1>2, <1>5 DEF LocalPosition, AtLeastZero
<1> QED
  BY <1>2, <1>6 DEF Synced

LEMMA EngineCalm ==
    ASSUME NEW base, TypeOK, TypeOK', CalmFrom(base), Attended, NEW m \in Markets, EngineStep(m)
    PROVE  CalmStep
<1> USE DEF moneyVars, guardVars, slotVars, inventoryVars, exchangeVars, engineVars
<1>1. state[m] \in StateType /\ state[m].outcome \in Outcomes
  BY DEF TypeOK, StateType
<1>2. CASE Start(m)
  <2>1. PICK yes \in Synced(<<m, "yes">>), no \in Synced(<<m, "no">>) :
           Become(m, IF yes > 0 THEN Holding("yes", yes)
                     ELSE IF no > 0 THEN Holding("no", no) ELSE Empty)
    BY <1>2 DEF Start
  <2>2. yes \in 0..position[<<m, "yes">>] /\ no \in 0..position[<<m, "no">>]
    BY <1>2, SyncedIsThere DEF Start, Outcomes
  <2> DEFINE s == IF yes > 0 THEN Holding("yes", yes)
                  ELSE IF no > 0 THEN Holding("no", no) ELSE Empty
  <2>3. /\ s.kind \notin {"PendingBuy", "PendingSell"}
        /\ s.kind = "Holding" => s.amount \in 1..position[<<m, s.outcome>>]
    BY <2>2 DEF Holding, Empty, Stopped
  <2> HIDE DEF s
  <2>4. \E x \in StateType : Rests(m, x)
    BY <1>2, <2>1, <2>3, EngineRests DEF Start, s
  <2> QED
    BY <2>4 DEF CalmStep
<1>3. CASE GiveUp(m)
  <2>1. \E x \in StateType : Rests(m, x)
    BY <1>3, EngineRests DEF GiveUp, Empty, Stopped
  <2> QED
    BY <2>1 DEF CalmStep
<1>4. CASE CooldownOver(m)
  BY <1>4 DEF CooldownOver, CalmStep, calmVars
<1>5. CASE HandleFill(m)
  BY <1>5, HandledRests DEF CalmStep
<1>6. ASSUME NEW s \in Outcomes, NEW p \in BuyPrices, Consider(m, s, p)
      PROVE  CalmStep
  <2>1. \E x \in StateType : Rests(m, x)
    BY <1>6, EngineRests DEF Consider, Deciding
  <2> QED
    BY <2>1 DEF CalmStep
<1>7. ASSUME NEW o \in Orders, Buy(m, o)
      PROVE  CalmStep
  <2>1. Spawn(o, m, state[m].outcome, "Buy", state[m].price, state[m].amount)
    BY <1>7 DEF Buy
  <2>2. /\ task'[o].pc = "reserve" /\ task'[o].market = m /\ task'[o].attached
        /\ task'[o].side = "Buy"
        /\ \A q \in Orders \ {o} : task'[q] = task[q]
    BY <2>1 DEF Spawn, TypeOK
  <2>3. PendingBuy \in StateType /\ PendingBuy.kind = Waits("Buy")
    BY RecordTypes DEF PendingBuy, Stopped, Waits
  <2>4. Waited(m, o, PendingBuy)
    BY <1>7, <2>2, <2>3 DEF Buy, Waited, Become
  <2> QED
    BY <2>3, <2>4 DEF CalmStep
<1>8. ASSUME NEW o \in Orders, NEW p \in SellPrices, Sell(m, p, o)
      PROVE  CalmStep
  <2>1. PICK n : Spawn(o, m, state[m].outcome, "Sell", p, n)
    BY <1>8 DEF Sell
  <2>2. /\ task'[o].pc = "reserve" /\ task'[o].market = m /\ task'[o].attached
        /\ task'[o].side = "Sell" /\ task'[o].outcome = state[m].outcome
        /\ \A q \in Orders \ {o} : task'[q] = task[q]
    BY <2>1 DEF Spawn, TypeOK
  <2> DEFINE s == PendingSell(state[m].outcome, state[m].amount)
  <2>3. /\ s \in StateType /\ s.kind = Waits("Sell") /\ s.outcome = state[m].outcome
        /\ s.amount = state[m].amount
    BY RecordTypes DEF PendingSell, Waits, TypeOK, StateType
  <2>4. Backed(m)
    BY <1>8 DEF Sell, CalmFrom, SalesBacked
  <2>5. Waited(m, o, s)
    BY <1>8, <2>2, <2>3, <2>4 DEF Sell, Waited, Become, Backed
  <2> QED
    BY <2>3, <2>5 DEF CalmStep
<1> QED
  BY <1>2, <1>3, <1>4, <1>5, <1>6, <1>7, <1>8, NothingFails DEF EngineStep

LEMMA TaskCalm ==
    ASSUME NEW base, TypeOK, TypeOK', CalmFrom(base), Attended, NEW o \in Orders, TaskStep(o)
    PROVE  CalmStep
<1> USE DEF moneyVars, guardVars, slotVars, inventoryVars, exchangeVars, engineVars
<1>1. task[o] \in TaskType /\ task[o].before \in Nat /\ Reserved(o) \in Nat
      /\ Token(o) \in Tokens /\ task[o].price \in Nat
  BY TaskFacts DEF TypeOK
<1>2. LocalPosition(Token(o)) \in Nat /\ position[Token(o)] \in Nat
  BY <1>1, PositionFacts
<1>3. spend \in Nat /\ \A t \in Tokens : NetExposure(t) \in Int
  BY DEF TypeOK, NetExposure
<1>4. ASSUME NEW r, task' = [task EXCEPT ![o] = r]
      PROVE  task'[o] = r /\ \A q \in Orders \ {o} : task'[q] = task[q]
  BY <1>4 DEF TypeOK
<1>5. ASSUME task[o].pc \in {"reserve", "fire", "place"}
      PROVE  o \in Working /\ openOrders = {r \in openOrders : r.id # o}
  BY <1>5 DEF Working, Active, CalmFrom, OrdersWatched
\* A task that fails has booked nothing.
<1>6. ASSUME o \in Working, NEW s \in Nat, NEW b \in Nat, RollBack(o, b, s),
             UNCHANGED <<state, position, paid, inventoryVars>>,
             openOrders' = {r \in openOrders : r.id # o},
             b = IF task[o].pc = "reserve" THEN 0 ELSE Reserved(o),
             task[o].pc = "after" => Moved(o) = 0
      PROVE  CalmStep
  <2>1. task'[o].pc \notin Active \ {"release"} /\ \A q \in Orders \ {o} : task'[q] = task[q]
    BY <1>4, <1>6 DEF RollBack, DoneTask, IdleTask, Active
  <2>2. \A t \in Tokens : NetExposure(t)' = NetExposure(t) +
           IF t = Token(o) THEN Signed(o, 0) ELSE 0
    BY <1>3, <1>6 DEF NetExposure, Signed
  <2>3. realizedPnl' = realizedPnl - Signed(o, 0) * task[o].price
    BY <1>1, <1>6 DEF Signed, TypeOK
  <2>4. spend' = AtLeastZero(spend - Returned(o, 0))
    BY <1>6 DEF RollBack, ReleaseBudget, Returned
  <2>5. Answered(o, 0)
    BY <1>6, <2>1, <2>2, <2>3, <2>4 DEF Answered, RollBack
  <2> QED
    BY <2>5 DEF CalmStep
<1>7. CASE Reserve(o)
  <2>1. CASE RollBack(o, 0, LocalPosition(Token(o)))
    BY <1>2, <1>5, <1>6, <1>7, <2>1 DEF Reserve
  <2>2. CASE ~RollBack(o, 0, LocalPosition(Token(o)))
    <3>1. Goto(o, "fire") /\ task[o].pc = "reserve"
      BY <1>7, <2>2 DEF Reserve
    <3>2. task'[o] = [task[o] EXCEPT !.pc = "fire"]
      BY <3>1 DEF Goto, TypeOK
    <3>3. SameOrder(o) /\ task'[o].pc = "fire"
      BY <1>1, <3>2 DEF SameOrder, TaskType
    <3>4. spend' = spend + Reserved(o)
      BY <1>3, <1>7, <2>2 DEF Reserve, ReserveBudget, Reserved
    <3>5. \A q \in Orders \ {o} : task'[q] = task[q]
      BY <3>1 DEF Goto, TypeOK
    <3>6. Advanced(o)
      BY <1>7, <2>2, <3>1, <3>3, <3>4, <3>5 DEF Reserve, Advanced
    <3> QED
      BY <3>6 DEF CalmStep
  <2> QED
    BY <2>1, <2>2
<1>8. CASE Fire(o)
  <2>1. CASE DryRun \/ ~HasClient
    <3>1. RollBack(o, Reserved(o), LocalPosition(Token(o)))
      BY <1>8, <2>1 DEF Fire
    <3>2. UNCHANGED <<state, position, paid, inventoryVars, openOrders>> /\ task[o].pc = "fire"
      BY <1>8 DEF Fire
    <3> QED
      BY <1>1, <1>2, <1>5, <1>6, <3>1, <3>2
  <2>2. CASE ~(DryRun \/ ~HasClient)
    <3>1. PICK p \in Synced(Token(o)) :
             task' = [task EXCEPT ![o].before = p, ![o].pc = "place"]
      BY <1>8, <2>2 DEF Fire
    <3>2. p = position[Token(o)]
      BY <2>2, <3>1, NothingFails
    <3>3. /\ task'[o] = [task[o] EXCEPT !.before = p, !.pc = "place"]
          /\ \A q \in Orders \ {o} : task'[q] = task[q]
      BY <3>1 DEF TypeOK
    <3>4. SameOrder(o) /\ task'[o].pc = "place" /\ task'[o].before = p
      BY <1>1, <3>3 DEF SameOrder, TaskType
    <3>5. Advanced(o)
      BY <1>3, <1>8, <2>2, <3>2, <3>3, <3>4 DEF Fire, Advanced
    <3> QED
      BY <3>5 DEF CalmStep
  <2> QED
    BY <2>1, <2>2
<1>9. CASE Place(o)
  <2>1. PICK n \in Acceptable(o) :
        \/ /\ n > 0
           /\ Post(o, Token(o), task[o].side, task[o].price, n)
           /\ Goto(o, "after")
           /\ UNCHANGED <<spend, slotVars, fills>>
        \/ /\ Post(o, Token(o), task[o].side, task[o].price, 0)
           /\ RollBack(o, Reserved(o), LocalPosition(Token(o)))
    BY <1>9 DEF Place, Attended
  <2>2. n \in 0..task[o].size
    BY <2>1, TaskFacts DEF Acceptable
  <2>3. task[o].pc = "place" /\ UNCHANGED <<inventoryVars, position, paid, state>>
    BY <1>9 DEF Place
  <2>4. CASE /\ n > 0 /\ Post(o, Token(o), task[o].side, task[o].price, n)
             /\ Goto(o, "after") /\ UNCHANGED <<spend, slotVars, fills>>
    <3>1. /\ task'[o] = [task[o] EXCEPT !.pc = "after"]
          /\ \A q \in Orders \ {o} : task'[q] = task[q]
      BY <2>4 DEF Goto, TypeOK
    <3>2. SameOrder(o) /\ task'[o].pc = "after" /\ task'[o].before = task[o].before
      BY <1>1, <3>1 DEF SameOrder, TaskType
    <3>3. n \in 1..task[o].size
      BY <2>2, <2>4
    <3>4. Advanced(o)
      BY <1>3, <2>3, <2>4, <3>1, <3>2, <3>3 DEF Advanced
    <3> QED
      BY <3>4 DEF CalmStep
  <2>5. CASE /\ Post(o, Token(o), task[o].side, task[o].price, 0)
             /\ RollBack(o, Reserved(o), LocalPosition(Token(o)))
    <3>1. openOrders' = openOrders
      BY <2>5 DEF Post
    <3> QED
      BY <1>1, <1>2, <1>5, <1>6, <2>3, <2>5, <3>1
  <2> QED
    BY <2>1, <2>4, <2>5
<1>10. CASE After(o)
  <2> DEFINE filled == AtLeastZero(IF IsBuy(o) THEN position[Token(o)] - task[o].before
                                               ELSE task[o].before - position[Token(o)])
  <2>1. task[o].pc = "after" /\ o \in Working
    BY <1>10 DEF After, Working, Active
  <2>2. filled = Moved(o) /\ filled \in Nat
    <3>1. Moved(o) \in 0..task[o].size
      BY <2>1 DEF CalmFrom, Attributed
    <3> QED
      BY <3>1, TaskFacts DEF Moved, AtLeastZero
  <2>3. IF filled = 0
        THEN RollBack(o, Reserved(o), position[Token(o)]) /\ UNCHANGED inventoryVars
        ELSE /\ ApplyFill(Token(o), TRUE, task[o].side, filled, task[o].price)
             /\ IF IsBuy(o) THEN UNCHANGED spend ELSE ReleaseBudget(task[o].price * filled)
             /\ Report(o, filled, position[Token(o)])
             /\ Goto(o, "release")
    <3>1. PICK after \in {position[Token(o)]} \union
                         {p \in {task[o].before} : "api_failure" \in Faults} :
            LET f == AtLeastZero(IF IsBuy(o) THEN after - task[o].before
                                             ELSE task[o].before - after)
            IN  IF f = 0
                THEN /\ RollBack(o, Reserved(o), after)
                     /\ UNCHANGED inventoryVars
                ELSE /\ ApplyFill(Token(o), TRUE, task[o].side, f, task[o].price)
                     /\ IF IsBuy(o) THEN UNCHANGED spend
                                    ELSE ReleaseBudget(task[o].price * f)
                     /\ Report(o, f, after)
                     /\ Goto(o, "release")
                     /\ UNCHANGED slotVars
      BY <1>10 DEF After
    <3>2. after = position[Token(o)]
      BY DEF Attended
    <3> QED
      BY <3>1, <3>2
  <2>4. /\ openOrders' = {r \in openOrders : r.id # o}
        /\ UNCHANGED <<position, paid, state>>
    BY <1>10 DEF After, Expire, Attended
  <2> HIDE DEF filled
  <2>5. CASE filled = 0
    BY <1>1, <1>2, <1>6, <2>1, <2>2, <2>3, <2>4, <2>5
  <2>6. CASE filled # 0
    <3>1. task'[o].pc = "release" /\ \A q \in Orders \ {o} : task'[q] = task[q]
      <4>1. task' = [task EXCEPT ![o] = [task[o] EXCEPT !.pc = "release"]]
        BY <2>3, <2>6 DEF Goto, TypeOK
      <4>2. [task[o] EXCEPT !.pc = "release"].pc = "release"
        BY <1>1 DEF TaskType
      <4> QED
        BY <1>4, <4>1, <4>2
    <3>2. ApplyFill(Token(o), TRUE, task[o].side, filled, task[o].price)
      BY <2>3, <2>6
    <3>3. realizedPnl' = realizedPnl - Signed(o, filled) * task[o].price
      BY <3>2 DEF ApplyFill, Signed, IsBuy
    <3>4. \A t \in Tokens : NetExposure(t)' = NetExposure(t) +
             IF t = Token(o) THEN Signed(o, filled) ELSE 0
      <4> DEFINE row == [yes_qty |-> exposures[Token(o)].yes_qty + Signed(o, filled),
                         no_qty |-> exposures[Token(o)].no_qty + 0]
      <4>1. exposures' = [exposures EXCEPT ![Token(o)] = row]
        BY <3>2 DEF ApplyFill, Signed, IsBuy
      <4>2. Signed(o, filled) \in Int
        BY <2>2 DEF Signed
      <4>3. /\ exposures[Token(o)].yes_qty \in Int /\ exposures[Token(o)].no_qty \in Int
            /\ exposures'[Token(o)] = row
            /\ \A t \in Tokens \ {Token(o)} : exposures'[t] = exposures[t]
        BY <1>1, <4>1 DEF TypeOK
      <4>4. ASSUME NEW t \in Tokens, t = Token(o)
            PROVE  NetExposure(t)' = NetExposure(t) + Signed(o, filled)
        BY <4>2, <4>3, <4>4 DEF NetExposure
      <4>5. \A t \in Tokens : t # Token(o) => NetExposure(t)' = NetExposure(t) + 0
        BY <1>3, <4>3 DEF NetExposure
      <4> QED
        BY <4>4, <4>5
    <3>5. spend' = AtLeastZero(spend - Returned(o, filled))
      <4>1. CASE IsBuy(o)
        BY <4>1, <1>3, <2>1, <2>3, <2>6 DEF Returned, AtLeastZero
      <4>2. CASE ~IsBuy(o)
        BY <4>2, <2>1, <2>3, <2>6 DEF Returned, ReleaseBudget
      <4> QED
        BY <4>1, <4>2
    <3>6. Answered(o, filled)
      BY <1>2, <2>1, <2>2, <2>3, <2>4, <2>6, <3>1, <3>3, <3>4, <3>5 DEF Answered
    <3> QED
      BY <2>2, <3>6 DEF CalmStep
  <2> QED
    BY <2>5, <2>6
<1>11. CASE Release(o)
  BY <1>11 DEF Release, Over, CalmStep
<1> QED
  BY <1>7, <1>8, <1>9, <1>10, <1>11 DEF TaskStep

LEMMA NextIsCalm ==
    ASSUME Attended, NEW base
    PROVE  TypeOK /\ TypeOK' /\ CalmFrom(base) /\ [Next]_vars => CalmStep \/ Crash
<1>1. UNCHANGED vars => CalmStep
  BY DEF vars, CalmStep, calmVars, moneyVars, guardVars, inventoryVars, exchangeVars, engineVars
<1>2. ExchangeFill => CalmStep
  BY DEF CalmStep
<1> QED
  BY <1>1, <1>2, EngineCalm, TaskCalm, NothingFails DEF Next

LEMMA CalmKept ==
    ASSUME NEW base, TypeOK, TypeOK', CalmFrom(base), CalmStep
    PROVE  CalmFrom(base)'
<1>1. CASE UNCHANGED calmVars
  BY <1>1 DEF calmVars, CalmFrom, OneAtATime, OrdersWatched, Attributed, SalesBacked,
              ReportsBacked, LedgerFollows, Working, Token, Moved, IsBuy, Backed, Kind, NetExposure
<1> QED
  BY <1>1, RestsCalm, WaitedCalm, AdvancedCalm, AnsweredCalm, OverCalm, FilledCalm DEF CalmStep

LEMMA StaysCalm ==
    ASSUME Faults = {}
    PROVE  TypeOK /\ CalmInv /\ [Next]_vars => TypeOK' /\ CalmStep /\ CalmInv'
<1>1. Attended /\ ~Crash
  BY DEF Attended, Crash
<1> QED
  BY <1>1, TypesKept, NextIsCalm, CalmKept DEF CalmInv

\* After a crash nothing is under way, and the ledger starts from what the account has.
LEMMA CrashCalm ==
    ASSUME TypeOK, Attended, Crash, NEW base \in [Tokens -> Nat], base = position
    PROVE  CalmFrom(base)'
<1>1. Working' = {} /\ \A o \in Orders : task'[o].pc \notin Active
  BY DEF Crash, Working, DoneTask, Active
<1>2. \A m \in Markets : fills'[m] = <<>> /\ Kind(m)' = "Stopped"
  BY DEF Crash, Kind, Stopped
<1>3. openOrders' = {} /\ position' = position
  BY DEF Crash, Attended
<1>4. \A t \in Tokens : NetExposure(t)' = 0 /\ position'[t] - base[t] = 0
  BY <1>3 DEF Crash, NetExposure, TypeOK
<1>5. OneAtATime' /\ OrdersWatched' /\ Attributed'
  BY <1>1, <1>2, <1>3 DEF OneAtATime, OrdersWatched, Attributed, Active
<1>6. SalesBacked' /\ ReportsBacked'
  BY <1>1, <1>2 DEF SalesBacked, ReportsBacked
<1>7. LedgerFollows(base)'
  BY <1>1, <1>4 DEF LedgerFollows, Active
<1> QED
  BY <1>5, <1>6, <1>7 DEF CalmFrom

\* As long as no engine is stopped and every call is answered, what an engine
\* believes to hold can be sold: the amount of its state is in the account, after
\* partial fills too, and after a crash whatever it found.
THEOREM HoldingSound ==
    ASSUME Attended
    PROVE  Spec => []HoldingIsBacked
<1> DEFINE Calm == \E base \in [Tokens -> Nat] : CalmFrom(base)
<1>1. Init => Calm
  BY CalmInitially, EngineAssumption DEF CalmInv
<1>2. TypeOK /\ TypeOK' /\ Calm /\ [Next]_vars => Calm'
  <2> SUFFICES ASSUME TypeOK, TypeOK', NEW base \in [Tokens -> Nat], CalmFrom(base), [Next]_vars
               PROVE  \E b \in [Tokens -> Nat] : CalmFrom(b)'
    OBVIOUS
  <2>1. CASE CalmStep
    BY <2>1, CalmKept
  <2>2. CASE Crash
    <3>1. PICK b \in [Tokens -> Nat] : b = position
      BY DEF TypeOK
    <3> QED
      BY <2>2, <3>1, CrashCalm
  <2> QED
    BY <2>1, <2>2, NextIsCalm
<1>3. Calm => HoldingIsBacked
  BY DEF CalmFrom, SalesBacked, Backed, HoldingIsBacked
<1> HIDE DEF Calm
<1> QED
  BY <1>1, <1>2, <1>3, TypeCorrect, PTL DEF Spec
-----------------------------------------------------------------------------
(***************************************************************************)
(* The money, as long as nothing goes wrong.  An order that is watched may *)
(* have been filled but not booked; a reservation is due until it is paid, *)
(* given back, or left to the engine's refund.  Both are sums over the     *)
(* orders, and a step changes one term of each.                            *)
(***************************************************************************)
\* What was paid, or got, for an order and is not in the ledger yet.
Unbooked(o) ==
    IF task[o].pc = "after" THEN task[o].price * (position[Token(o)] - task[o].before) ELSE 0

\* What is reserved for an order and not paid yet, or what it sold for.
Due(o) == IF task[o].pc \in {"fire", "place", "after"} THEN Reserved(o) - Unbooked(o) ELSE 0

UnbookedSum == SumFunctionOnSet([o \in Orders |-> Unbooked(o)], Orders)
DueSum      == SumFunctionOnSet([o \in Orders |-> Due(o)], Orders)
RefundSum   == SumFunctionOnSet([m \in Markets |-> Refund(m)], Markets)

BooksAgree == realizedPnl = UnbookedSum - paid

LEMMA MoneyTypes ==
    ASSUME TypeOK, CalmInv
    PROVE  /\ \A o \in Orders : Unbooked(o) \in Int /\ Due(o) \in Nat
           /\ \A m \in Markets : Refund(m) \in Nat
<1>1. ASSUME NEW o \in Orders PROVE Unbooked(o) \in Int /\ Due(o) \in Nat
  <2> DEFINE x == position[Token(o)] - task[o].before
  <2>1. /\ x \in Int /\ task[o].price \in Nat /\ task[o].size \in Nat
        /\ Reserved(o) \in Nat
    BY TaskFacts, PositionFacts
  <2>2. task[o].price * x \in Int
    BY <2>1, ProductInt
  <2>3. Unbooked(o) \in Int
    BY <2>2 DEF Unbooked
  <2>4. ASSUME task[o].pc = "after" PROVE task[o].price * x <= Reserved(o)
    <3>1. Moved(o) \in 0..task[o].size
      BY <2>4 DEF CalmInv, CalmFrom, Attributed
    <3>2. CASE IsBuy(o)
      <4>1. x <= task[o].size
        BY <3>1, <3>2, <2>1 DEF Moved
      <4> HIDE DEF x
      <4> QED
        BY <4>1, <2>1, <3>2, ProductOrder DEF Reserved, Notional
    <3>3. CASE ~IsBuy(o)
      <4>1. x <= 0
        BY <3>1, <3>3, TaskFacts, PositionFacts DEF Moved
      <4>2. task[o].price * 0 = 0
        BY <2>1, ProductLaws
      <4> HIDE DEF x
      <4>3. task[o].price * x <= task[o].price * 0
        BY <4>1, <2>1, ProductOrder
      <4> QED
        BY <4>2, <4>3, <2>1, <2>2
    <3> QED
      BY <3>2, <3>3
  <2> HIDE DEF x
  <2>5. Due(o) \in Nat
    BY <2>1, <2>2, <2>3, <2>4 DEF Due, Unbooked, x
  <2> QED
    BY <2>3, <2>5
<1>2. ASSUME NEW m \in Markets PROVE Refund(m) \in Nat
  <2>1. CASE fills[m] = <<>>
    BY <2>1 DEF Refund
  <2>2. CASE fills[m] # <<>>
    <3>1. fills[m] \in Seq(UpdateType) /\ Len(fills[m]) = 1
      BY <2>2 DEF CalmInv, CalmFrom, OneAtATime, TypeOK
    <3>2. fills[m][1] \in UpdateType
      BY <3>1
    <3>3. /\ fills[m][1].reserved \in Nat
          /\ fills[m][1].price * fills[m][1].size \in Nat
      BY <3>2, ProductNat DEF UpdateType
    <3> QED
      BY <3>3 DEF Refund, AtLeastZero
  <2> QED
    BY <2>1, <2>2
<1> QED
  BY <1>1, <1>2

SameMoney(O, M) ==
    /\ \A q \in O : Unbooked(q)' = Unbooked(q) /\ Due(q)' = Due(q)
    /\ \A k \in M : Refund(k)' = Refund(k)

\* The engine of m has read a report.
Refunded(m) ==
    /\ SameMoney(Orders, Markets \ {m}) /\ Refund(m)' = 0
    /\ spend' = AtLeastZero(spend - Refund(m))
    /\ UNCHANGED <<paid, realizedPnl>>

\* Order o of market m takes a step; what it gives back stops at zero.
OrderMoves(o, m) ==
    /\ SameMoney(Orders \ {o}, Markets \ {m})
    /\ realizedPnl' + paid' = realizedPnl + paid + (Unbooked(o)' - Unbooked(o))
    /\ spend' = AtLeastZero(spend + (paid' - paid) + (Due(o)' - Due(o)) + (Refund(m)' - Refund(m)))

MoneyStep ==
    \/ SameMoney(Orders, Markets) /\ UNCHANGED moneyVars
    \/ \E m \in Markets : Refunded(m)
    \/ \E o \in Orders, m \in Markets : OrderMoves(o, m)

\* A task that neither moves nor has its token moved keeps its money.
LEMMA TaskMoney ==
    ASSUME NEW q, task'[q] = task[q],
           task[q].pc = "after" => position'[Token(q)] = position[Token(q)]
    PROVE  Unbooked(q)' = Unbooked(q) /\ Due(q)' = Due(q)
BY DEF Unbooked, Due, Token, Reserved, Notional, IsBuy

LEMMA ReportMoney ==
    ASSUME NEW k, fills'[k] = fills[k]
    PROVE  Refund(k)' = Refund(k)
BY DEF Refund

LEMMA RestsMoney ==
    ASSUME TypeOK, CalmInv, NEW m \in Markets, NEW s \in StateType, Rests(m, s)
    PROVE  Refunded(m)
<1>1. \A q \in Orders : Unbooked(q)' = Unbooked(q) /\ Due(q)' = Due(q)
  BY TaskMoney DEF Rests
<1>2. fills'[m] = <<>> /\ \A k \in Markets \ {m} : fills'[k] = fills[k]
  BY DEF Rests, TypeOK
<1>3. \A k \in Markets \ {m} : Refund(k)' = Refund(k)
  BY <1>2, ReportMoney
<1>4. Refund(m)' = 0
  BY <1>2 DEF Refund
<1> QED
  BY <1>1, <1>3, <1>4 DEF Refunded, SameMoney, Rests

LEMMA AdvancedMoney ==
    ASSUME TypeOK, TypeOK', CalmInv, NEW o \in Orders, Advanced(o),
           NEW m \in Markets, m = task[o].market
    PROVE  OrderMoves(o, m)
<1>1. \A q \in Orders \ {o} : Unbooked(q)' = Unbooked(q) /\ Due(q)' = Due(q)
  BY TaskMoney DEF Advanced
<1>2. \A k \in Markets : Refund(k)' = Refund(k)
  BY ReportMoney DEF Advanced
<1>3. Reserved(o)' = Reserved(o) /\ Token(o)' = Token(o)
  BY DEF Advanced, SameOrder, Reserved, Notional, IsBuy, Token
<1>4. /\ task[o].pc \in {"reserve", "fire", "place"}
      /\ task[o].pc = "reserve" => task'[o].pc = "fire"
      /\ task[o].pc = "fire" => task'[o].pc = "place"
      /\ task[o].pc = "place" => task'[o].pc = "after" /\ task'[o].before = position[Token(o)]
      /\ UNCHANGED <<position, paid, realizedPnl>>
      /\ spend' = spend + IF task[o].pc = "reserve" THEN Reserved(o) ELSE 0
  BY DEF Advanced, CalmInv, CalmFrom, Attributed
<1>5. Unbooked(o) = 0 /\ Unbooked(o)' = 0
  <2>1. task'[o].price * (position[Token(o)] - position[Token(o)]) = 0
    <3>1. task'[o].price \in Int
      BY DEF TypeOK, TaskType
    <3>2. position[Token(o)] - position[Token(o)] = 0
      BY TaskFacts, PositionFacts
    <3> QED
      BY <3>1, <3>2, ProductLaws
  <2> QED
    BY <2>1, <1>3, <1>4 DEF Unbooked
<1>6. Due(o)' - Due(o) = IF task[o].pc = "reserve" THEN Reserved(o) ELSE 0
  BY <1>3, <1>4, <1>5, TaskFacts DEF Due
<1>7. /\ Refund(m) \in Nat /\ Refund(m)' = Refund(m)
      /\ spend \in Nat /\ paid \in Int /\ realizedPnl \in Int /\ Reserved(o) \in Nat
  <2>1. spend \in Nat /\ paid \in Int /\ realizedPnl \in Int
    BY DEF TypeOK
  <2>2. Reserved(o) \in Nat
    BY TaskFacts
  <2> QED
    BY <1>2, <2>1, <2>2, MoneyTypes
<1> QED
  BY <1>1, <1>2, <1>4, <1>5, <1>6, <1>7 DEF OrderMoves, SameMoney, AtLeastZero

LEMMA AnsweredMoney ==
    ASSUME TypeOK, TypeOK', CalmInv, NEW o \in Orders, NEW n \in Nat, Answered(o, n),
           NEW m \in Markets, m = task[o].market
    PROVE  OrderMoves(o, m)
<1> DEFINE cost == task[o].price * n
<1>1. \A q \in Orders \ {o} : Unbooked(q)' = Unbooked(q) /\ Due(q)' = Due(q)
  BY TaskMoney DEF Answered
<1>2. PICK s \in Nat : Report(o, n, s)
  BY DEF Answered
<1>3. /\ fills'[m] # <<>>
      /\ fills'[m][1] = [side |-> task[o].side, outcome |-> task[o].outcome,
                         price |-> task[o].price, size |-> n,
                         synced |-> s, reserved |-> Reserved(o)]
      /\ \A k \in Markets \ {m} : fills'[k] = fills[k]
  BY <1>2, AnswerFiled DEF Answered, CalmInv, CalmFrom
<1>4. \A k \in Markets \ {m} : Refund(k)' = Refund(k)
  BY <1>3, ReportMoney
<1>5. Refund(m) = 0
  BY DEF Refund, CalmInv, CalmFrom, OneAtATime, Answered
<1>6. Refund(m)' = IF IsBuy(o) /\ n > 0 THEN AtLeastZero(Reserved(o) - cost) ELSE 0
  <2>1. /\ fills'[m][1].side = task[o].side /\ fills'[m][1].size = n
        /\ fills'[m][1].price = task[o].price /\ fills'[m][1].reserved = Reserved(o)
    BY <1>3
  <2>2. Refund(m)' = IF fills'[m] # <<>> /\ fills'[m][1].side = "Buy" /\ fills'[m][1].size > 0
                     THEN AtLeastZero(fills'[m][1].reserved - fills'[m][1].price * fills'[m][1].size)
                     ELSE 0
    BY DEF Refund
  <2> QED
    BY <1>3, <2>1, <2>2 DEF IsBuy
<1>7. /\ task[o].pc \in {"reserve", "fire", "place", "after"}
      /\ task'[o].pc \notin {"reserve", "fire", "place", "after"}
      /\ n = IF task[o].pc = "after" THEN Moved(o) ELSE 0
      /\ spend' = AtLeastZero(spend - Returned(o, n))
      /\ realizedPnl' = realizedPnl - Signed(o, n) * task[o].price
      /\ paid' = paid
  BY DEF Answered, Working, Active
<1>8. Unbooked(o)' = 0 /\ Due(o)' = 0
  BY <1>7 DEF Unbooked, Due
<1>9. /\ task[o].price \in Nat /\ cost \in Nat /\ Reserved(o) \in Nat
      /\ spend \in Nat /\ paid \in Int /\ realizedPnl \in Int
      /\ position[Token(o)] \in Nat /\ task[o].before \in Nat /\ task[o].size \in Nat
  BY TaskFacts, PositionFacts, ProductNat DEF TypeOK
<1>10. Signed(o, n) * task[o].price = Unbooked(o) /\ Unbooked(o) = Signed(o, cost)
  <2>1. Signed(o, n) \in Int
    BY DEF Signed
  <2>2. Signed(o, n) * task[o].price = task[o].price * Signed(o, n)
    BY <2>1, <1>9, ProductLaws
  <2>3. task[o].price * Signed(o, n) = Signed(o, cost)
    BY <1>9, ProductLaws DEF Signed
  <2>4. CASE task[o].pc = "after"
    <3>1. Signed(o, n) = position[Token(o)] - task[o].before
      BY <2>4, <1>7, <1>9 DEF Signed, Moved
    <3> QED
      BY <2>2, <2>3, <2>4, <3>1 DEF Unbooked
  <2>5. CASE task[o].pc # "after"
    <3>1. n = 0 /\ cost = 0
      BY <2>5, <1>7, <1>9, ProductLaws
    <3>2. Signed(o, cost) = 0
      BY <3>1 DEF Signed
    <3> QED
      BY <2>2, <2>3, <2>5, <3>2 DEF Unbooked
  <2> QED
    BY <2>4, <2>5
<1>11. realizedPnl' + paid' = realizedPnl + paid + (Unbooked(o)' - Unbooked(o))
  <2>1. Unbooked(o) \in Int
    BY MoneyTypes
  <2> QED
    BY <2>1, <1>7, <1>8, <1>9, <1>10
<1>12. IsBuy(o) => cost <= Reserved(o)
  <2>1. n <= task[o].size
    BY <1>7, <1>9 DEF CalmInv, CalmFrom, Attributed
  <2>2. cost <= task[o].price * task[o].size
    BY <2>1, <1>9, ProductOrder
  <2> QED
    BY <2>2 DEF Reserved, Notional
<1>13. Returned(o, n) = Due(o) - Refund(m)'
  <2> HIDE DEF cost
  <2>1. CASE task[o].pc = "reserve"
    <3>1. n = 0
      BY <2>1, <1>7
    <3> QED
      BY <2>1, <3>1, <1>6 DEF Returned, Due
  <2>2. CASE task[o].pc # "reserve" /\ n = 0
    <3>1. cost = 0
      BY <2>2, <1>9, ProductLaws DEF cost
    <3>2. Due(o) = Reserved(o)
      BY <2>2, <3>1, <1>7, <1>9, <1>10 DEF Due, Signed
    <3> QED
      BY <2>2, <3>2, <1>6, <1>9 DEF Returned
  <2>3. CASE task[o].pc # "reserve" /\ n > 0 /\ IsBuy(o)
    <3>1. Due(o) = Reserved(o) - cost
      BY <2>3, <1>7, <1>10 DEF Due, Signed
    <3>2. Refund(m)' = Reserved(o) - cost
      BY <2>3, <1>6, <1>9, <1>12 DEF AtLeastZero
    <3> QED
      BY <2>3, <3>1, <3>2, <1>9 DEF Returned
  <2>4. CASE task[o].pc # "reserve" /\ n > 0 /\ ~IsBuy(o)
    <3>1. Due(o) = cost
      BY <2>4, <1>7, <1>9, <1>10 DEF Due, Signed, Reserved
    <3> QED
      BY <2>4, <3>1, <1>6, <1>9 DEF Returned, cost
  <2> QED
    BY <2>1, <2>2, <2>3, <2>4
<1>14. spend - Returned(o, n)
         = spend + (paid' - paid) + (Due(o)' - Due(o)) + (Refund(m)' - Refund(m))
  <2>1. Due(o) \in Nat /\ Refund(m)' \in Int
    BY <1>6, <1>9, MoneyTypes DEF AtLeastZero
  <2> QED
    BY <2>1, <1>5, <1>7, <1>8, <1>9, <1>13
<1> QED
  BY <1>1, <1>4, <1>7, <1>11, <1>14 DEF OrderMoves, SameMoney

LEMMA FilledMoney ==
    ASSUME TypeOK, TypeOK', CalmInv, ExchangeFill
    PROVE  \E o \in Orders, m \in Markets : OrderMoves(o, m)
<1>1. PICK r \in openOrders : \E n \in 1..r.left : Fill(r, n)
  BY DEF ExchangeFill
<1>2. PICK n \in 1..r.left : Fill(r, n)
  BY <1>1
<1> DEFINE o == r.id
           p == task[o].price
           d == IF IsBuy(o) THEN n ELSE -n
           x == position[Token(o)] - task[o].before
<1>3. /\ o \in Orders /\ o \in Working /\ task[o].pc = "after"
      /\ n \in Nat \ {0}
      /\ \A q \in Working \ {o} : Token(q) # Token(o) /\ task[q].market # task[o].market
      /\ position'[Token(o)] = position[Token(o)] + d
      /\ \A t \in Tokens \ {Token(o)} : position'[t] = position[t]
  BY <1>2, FillMoves DEF CalmInv
<1>4. UNCHANGED <<fills, task, spend, realizedPnl>>
  BY DEF ExchangeFill, engineVars, inventoryVars, guardVars
<1>5. \A q \in Orders \ {o} : Unbooked(q)' = Unbooked(q) /\ Due(q)' = Due(q)
  <2>1. \A q \in Orders \ {o} : task[q].pc = "after" => position'[Token(q)] = position[Token(q)]
    BY <1>3, TaskFacts DEF Working, Active
  <2> QED
    BY <2>1, <1>4, TaskMoney
<1>6. \A k \in Markets : Refund(k)' = Refund(k) /\ Refund(k) \in Nat
  BY <1>4, ReportMoney, MoneyTypes
<1>7. /\ p \in Nat /\ x \in Int /\ d \in Int /\ Reserved(o) \in Nat
      /\ spend \in Nat /\ paid \in Int /\ realizedPnl \in Int
  <2>1. spend \in Nat /\ paid \in Int /\ realizedPnl \in Int
    BY DEF TypeOK
  <2>2. /\ p \in Nat /\ Token(o) \in Tokens /\ Reserved(o) \in Nat /\ task[o].before \in Nat
    BY <1>3, TaskFacts
  <2>3. position[Token(o)] \in Nat
    BY <2>2 DEF TypeOK
  <2> QED
    BY <1>3, <2>1, <2>2, <2>3
<1>8. paid' = paid + p * d
  <2>1. paid' = paid + d * p
    BY <1>2, <1>3 DEF Fill, CalmInv, CalmFrom, OrdersWatched, IsBuy
  <2> QED
    BY <2>1, <1>7, ProductLaws
<1>9. Unbooked(o) = p * x /\ Unbooked(o)' = p * x + p * d
  <2>1. Unbooked(o) = p * x
    BY <1>3 DEF Unbooked
  <2>2. Token(o)' = Token(o)
    BY <1>4 DEF Token
  <2>3. position'[Token(o)] - task[o].before = x + d
    BY <1>3, <1>7, TaskFacts, PositionFacts
  <2>4. Unbooked(o)' = p * (x + d)
    BY <1>3, <1>4, <2>2, <2>3 DEF Unbooked
  <2> HIDE DEF p, x, d
  <2> QED
    BY <2>1, <2>4, <1>7, ProductLaws
<1> HIDE DEF x, d
<1>10. p * x \in Int /\ p * d \in Int
  BY <1>7, ProductInt
<1>11. Due(o) = Reserved(o) - Unbooked(o) /\ Due(o)' = Reserved(o) - Unbooked(o)'
  BY <1>3, <1>4 DEF Due, Reserved, Notional, IsBuy
<1>12. ASSUME NEW m \in Markets PROVE OrderMoves(o, m)
  <2>1. realizedPnl' + paid' = realizedPnl + paid + (Unbooked(o)' - Unbooked(o))
    BY <1>4, <1>7, <1>8, <1>9, <1>10
  <2>2. spend' = AtLeastZero(spend + (paid' - paid) + (Due(o)' - Due(o)) + (Refund(m)' - Refund(m)))
    BY <1>4, <1>6, <1>7, <1>8, <1>9, <1>10, <1>11 DEF AtLeastZero
  <2> QED
    BY <2>1, <2>2, <1>5, <1>6 DEF OrderMoves, SameMoney
<1>13. Markets # {}
  BY EngineAssumption
<1> QED
  BY <1>3, <1>12, <1>13

LEMMA CalmMoney == TypeOK /\ TypeOK' /\ CalmInv /\ CalmStep => MoneyStep
<1> SUFFICES ASSUME TypeOK, TypeOK', CalmInv, CalmStep PROVE MoneyStep
  OBVIOUS
<1>1. CASE UNCHANGED calmVars
  BY <1>1 DEF calmVars, moneyVars, MoneyStep, SameMoney, Unbooked, Due, Refund, Token,
              Reserved, Notional, IsBuy
<1>2. CASE \E m \in Markets, s \in StateType : Rests(m, s)
  BY <1>2, RestsMoney DEF MoneyStep
<1>3. ASSUME NEW m \in Markets, NEW s \in StateType, NEW o \in Orders, Waited(m, o, s)
      PROVE  MoneyStep
  <2>1. \A q \in Orders \ {o} : Unbooked(q)' = Unbooked(q) /\ Due(q)' = Due(q)
    BY <1>3, TaskMoney DEF Waited
  <2>2. Unbooked(o)' = 0 /\ Due(o)' = 0 /\ Unbooked(o) = 0 /\ Due(o) = 0
    BY <1>3 DEF Waited, Unbooked, Due
  <2>3. \A k \in Markets : Refund(k)' = Refund(k)
    BY <1>3, ReportMoney DEF Waited
  <2> QED
    BY <1>3, <2>1, <2>2, <2>3 DEF MoneyStep, SameMoney, Waited
<1>4. ASSUME NEW o \in Orders, Advanced(o) PROVE MoneyStep
  BY <1>4, AdvancedMoney, TaskFacts DEF MoneyStep
<1>5. ASSUME NEW o \in Orders, Over(o) PROVE MoneyStep
  <2>1. /\ task'[o] = DoneTask /\ task[o].pc = "release"
        /\ \A q \in Orders \ {o} : task'[q] = task[q]
    BY <1>5 DEF Over, TypeOK
  <2>2. \A q \in Orders \ {o} : Unbooked(q)' = Unbooked(q) /\ Due(q)' = Due(q)
    BY <1>5, <2>1, TaskMoney DEF Over
  <2>3. Unbooked(o)' = 0 /\ Due(o)' = 0 /\ Unbooked(o) = 0 /\ Due(o) = 0
    BY <2>1 DEF DoneTask, IdleTask, Unbooked, Due
  <2>4. \A k \in Markets : Refund(k)' = Refund(k)
    BY <1>5, ReportMoney DEF Over
  <2> QED
    BY <1>5, <2>2, <2>3, <2>4 DEF MoneyStep, SameMoney, Over
<1>6. ASSUME NEW o \in Orders, NEW n \in Nat, Answered(o, n) PROVE MoneyStep
  BY <1>6, AnsweredMoney, TaskFacts DEF MoneyStep
<1>7. CASE ExchangeFill
  BY <1>7, FilledMoney DEF MoneyStep
<1> QED
  BY <1>1, <1>2, <1>3, <1>4, <1>5, <1>6, <1>7 DEF CalmStep
-----------------------------------------------------------------------------
(***************************************************************************)
(* The sums follow the steps.                                              *)
(***************************************************************************)
MoneyTyped ==
    /\ \A o \in Orders : Unbooked(o) \in Int /\ Due(o) \in Nat
    /\ \A m \in Markets : Refund(m) \in Nat
    /\ UnbookedSum \in Int /\ DueSum \in Nat /\ RefundSum \in Nat

LEMMA SumsType ==
    /\ TypeOK /\ CalmInv => MoneyTyped
    /\ TypeOK' /\ CalmInv' => MoneyTyped'
<1>1. TypeOK /\ CalmInv => MoneyTyped
  BY MoneyTypes, EngineAssumption, SumType, SumNat DEF UnbookedSum, DueSum, RefundSum, MoneyTyped
<1> QED
  BY <1>1, PTL

LEMMA SumsRest ==
    ASSUME TypeOK, CalmInv
    PROVE  /\ (\A q \in Orders : Unbooked(q)' = Unbooked(q) /\ Due(q)' = Due(q))
                 => UnbookedSum' = UnbookedSum /\ DueSum' = DueSum
           /\ (\A m \in Markets : Refund(m)' = Refund(m)) => RefundSum' = RefundSum
BY DEF UnbookedSum, DueSum, RefundSum

LEMMA OrderSums ==
    ASSUME TypeOK, TypeOK', CalmInv, CalmInv', NEW o \in Orders,
           \A q \in Orders \ {o} : Unbooked(q)' = Unbooked(q) /\ Due(q)' = Due(q)
    PROVE  /\ UnbookedSum' = UnbookedSum + Unbooked(o)' - Unbooked(o)
           /\ DueSum' = DueSum + Due(o)' - Due(o)
<1> DEFINE u == [q \in Orders |-> Unbooked(q)]
           v == [q \in Orders |-> Unbooked(q)']
           d == [q \in Orders |-> Due(q)]
           e == [q \in Orders |-> Due(q)']
<1>1. /\ \A q \in Orders : Unbooked(q) \in Int /\ Due(q) \in Int
      /\ \A q \in Orders : Unbooked(q)' \in Int /\ Due(q)' \in Int
  BY SumsType DEF MoneyTyped
<1>2. /\ \A q \in Orders : u[q] \in Int /\ v[q] \in Int /\ d[q] \in Int /\ e[q] \in Int
      /\ \A q \in Orders \ {o} : v[q] = u[q] /\ e[q] = d[q]
      /\ u[o] = Unbooked(o) /\ v[o] = Unbooked(o)' /\ d[o] = Due(o) /\ e[o] = Due(o)'
  BY <1>1
<1>3. /\ UnbookedSum = SumFunctionOnSet(u, Orders) /\ UnbookedSum' = SumFunctionOnSet(v, Orders)
      /\ DueSum = SumFunctionOnSet(d, Orders) /\ DueSum' = SumFunctionOnSet(e, Orders)
  BY DEF UnbookedSum, DueSum
<1> HIDE DEF u, v, d, e
<1>4. SumFunctionOnSet(v, Orders) = SumFunctionOnSet(u, Orders) + v[o] - u[o]
  BY <1>2, EngineAssumption, SumChange
<1>5. SumFunctionOnSet(e, Orders) = SumFunctionOnSet(d, Orders) + e[o] - d[o]
  BY <1>2, EngineAssumption, SumChange
<1> QED
  BY <1>2, <1>3, <1>4, <1>5

LEMMA RefundSums ==
    ASSUME TypeOK, TypeOK', CalmInv, CalmInv', NEW m \in Markets,
           \A k \in Markets \ {m} : Refund(k)' = Refund(k)
    PROVE  RefundSum' = RefundSum + Refund(m)' - Refund(m)
<1> DEFINE r == [k \in Markets |-> Refund(k)]
           s == [k \in Markets |-> Refund(k)']
<1>1. (\A k \in Markets : Refund(k) \in Int) /\ (\A k \in Markets : Refund(k)' \in Int)
  BY SumsType DEF MoneyTyped
<1>2. /\ \A k \in Markets : r[k] \in Int /\ s[k] \in Int
      /\ \A k \in Markets \ {m} : s[k] = r[k]
      /\ r[m] = Refund(m) /\ s[m] = Refund(m)'
  BY <1>1
<1>3. RefundSum = SumFunctionOnSet(r, Markets) /\ RefundSum' = SumFunctionOnSet(s, Markets)
  BY DEF RefundSum
<1> HIDE DEF r, s
<1>4. SumFunctionOnSet(s, Markets) = SumFunctionOnSet(r, Markets) + s[m] - r[m]
  BY <1>2, EngineAssumption, SumChange
<1> QED
  BY <1>2, <1>3, <1>4

\* The money that is spoken for: paid, due, or to be refunded.
Spoken == paid + DueSum + RefundSum

\* The ledger moves with the sums, and the spend with what is spoken for, except
\* that the spend stops at zero.
LEMMA SumsFollow ==
    ASSUME TypeOK, TypeOK', CalmInv, CalmInv', MoneyStep
    PROVE  /\ BooksAgree => BooksAgree'
           /\ spend' = AtLeastZero(spend + (Spoken' - Spoken))
<1>1. /\ spend \in Nat /\ spend' \in Nat /\ paid \in Int /\ paid' \in Int
      /\ realizedPnl \in Int /\ realizedPnl' \in Int
  BY DEF TypeOK
<1>2. /\ UnbookedSum \in Int /\ DueSum \in Nat /\ RefundSum \in Nat
      /\ UnbookedSum' \in Int /\ DueSum' \in Nat /\ RefundSum' \in Nat
  BY SumsType DEF MoneyTyped
<1>3. CASE SameMoney(Orders, Markets) /\ UNCHANGED moneyVars
  <2>1. UnbookedSum' = UnbookedSum /\ DueSum' = DueSum /\ RefundSum' = RefundSum
    BY <1>3, SumsRest DEF SameMoney
  <2>2. spend' = spend /\ paid' = paid /\ realizedPnl' = realizedPnl
    BY <1>3 DEF moneyVars
  <2>3. Spoken' - Spoken = 0
    BY <2>1, <2>2, <1>1, <1>2 DEF Spoken
  <2> QED
    BY <2>1, <2>2, <2>3, <1>1 DEF BooksAgree, AtLeastZero
<1>4. ASSUME NEW m \in Markets, Refunded(m)
      PROVE  /\ BooksAgree => BooksAgree'
             /\ spend' = AtLeastZero(spend + (Spoken' - Spoken))
  <2>1. UnbookedSum' = UnbookedSum /\ DueSum' = DueSum
    BY <1>4, SumsRest DEF Refunded, SameMoney
  <2>2. RefundSum' = RefundSum - Refund(m)
    <3>1. RefundSum' = RefundSum + Refund(m)' - Refund(m)
      BY <1>4, RefundSums DEF Refunded, SameMoney
    <3>2. Refund(m)' = 0 /\ Refund(m) \in Nat
      BY <1>4, MoneyTypes DEF Refunded
    <3> QED
      BY <3>1, <3>2, <1>2
  <2>3. Refund(m) \in Nat
    BY MoneyTypes
  <2>4. spend' = AtLeastZero(spend - Refund(m)) /\ paid' = paid /\ realizedPnl' = realizedPnl
    BY <1>4 DEF Refunded
  <2>5. BooksAgree => BooksAgree'
    BY <2>1, <2>4 DEF BooksAgree
  <2>6. Spoken' - Spoken = -Refund(m)
    BY <2>1, <2>2, <2>3, <2>4, <1>1, <1>2 DEF Spoken
  <2> QED
    BY <2>3, <2>4, <2>5, <2>6, <1>1
<1>5. ASSUME NEW o \in Orders, NEW m \in Markets, OrderMoves(o, m)
      PROVE  /\ BooksAgree => BooksAgree'
             /\ spend' = AtLeastZero(spend + (Spoken' - Spoken))
  <2>1. /\ UnbookedSum' = UnbookedSum + Unbooked(o)' - Unbooked(o)
        /\ DueSum' = DueSum + Due(o)' - Due(o)
    BY <1>5, OrderSums DEF OrderMoves, SameMoney
  <2>2. RefundSum' = RefundSum + Refund(m)' - Refund(m)
    BY <1>5, RefundSums DEF OrderMoves, SameMoney
  <2>3. /\ Unbooked(o) \in Int /\ Unbooked(o)' \in Int /\ Due(o) \in Int /\ Due(o)' \in Int
        /\ Refund(m) \in Int /\ Refund(m)' \in Int
    BY SumsType DEF MoneyTyped
  <2>4. /\ realizedPnl' + paid' = realizedPnl + paid + (Unbooked(o)' - Unbooked(o))
        /\ spend' = AtLeastZero(spend + (paid' - paid) + (Due(o)' - Due(o))
                                      + (Refund(m)' - Refund(m)))
    BY <1>5 DEF OrderMoves
  <2>5. BooksAgree => BooksAgree'
    BY <2>1, <2>3, <2>4, <1>1, <1>2 DEF BooksAgree
  <2>6. Spoken' - Spoken = (paid' - paid) + (Due(o)' - Due(o)) + (Refund(m)' - Refund(m))
    BY <2>1, <2>2, <2>3, <1>1, <1>2 DEF Spoken
  <2>7. Spoken \in Int /\ Spoken' \in Int
    BY <1>1, <1>2 DEF Spoken
  <2> HIDE DEF Spoken
  <2> QED
    BY <2>3, <2>4, <2>5, <2>6, <2>7, <1>1
<1> QED
  BY <1>3, <1>4, <1>5 DEF MoneyStep

\* Orders that are over and engines without a report have no money pending.
LEMMA NothingDue ==
    ASSUME \A o \in Orders : task[o].pc \notin {"fire", "place", "after"},
           \A m \in Markets : fills[m] = <<>>
    PROVE  UnbookedSum = 0 /\ DueSum = 0 /\ RefundSum = 0
<1>1. \A o \in Orders : Unbooked(o) = 0 /\ Due(o) = 0
  BY DEF Unbooked, Due
<1>2. \A m \in Markets : Refund(m) = 0
  BY DEF Refund
<1> QED
  BY <1>1, <1>2, EngineAssumption, SumZero DEF UnbookedSum, DueSum, RefundSum

LEMMA MoneyInitially == Init => BooksAgree /\ Spoken = 0 /\ spend = 0 /\ paid = 0
<1> SUFFICES ASSUME Init PROVE BooksAgree /\ Spoken = 0 /\ spend = 0 /\ paid = 0
  OBVIOUS
<1>1. /\ \A o \in Orders : task[o].pc = "idle"
      /\ \A m \in Markets : fills[m] = <<>>
      /\ spend = 0 /\ paid = 0 /\ realizedPnl = 0
  BY DEF Init, IdleTask, GuardInit, InventoryInit, ExchangeInit
<1> QED
  BY <1>1, NothingDue DEF BooksAgree, Spoken

MoneyInv ==
    /\ BooksAgree
    /\ Spoken <= spend

LEMMA MoneyKept ==
    ASSUME Faults = {}
    PROVE  /\ Init => CalmInv /\ MoneyInv
           /\ TypeOK /\ CalmInv /\ MoneyInv /\ [Next]_vars => CalmInv' /\ MoneyInv'
<1>1. Init => CalmInv /\ MoneyInv
  BY CalmInitially, MoneyInitially DEF MoneyInv
<1>2. ASSUME TypeOK, CalmInv, MoneyInv, [Next]_vars PROVE CalmInv' /\ MoneyInv'
  <2>1. TypeOK' /\ CalmStep
    BY <1>2, StaysCalm
  <2>2. CalmInv'
    BY <1>2, StaysCalm
  <2>3. (BooksAgree => BooksAgree') /\ spend' = AtLeastZero(spend + (Spoken' - Spoken))
    BY <1>2, <2>1, <2>2, CalmMoney, SumsFollow
  <2>4. /\ spend \in Nat /\ paid \in Int /\ paid' \in Int /\ MoneyTyped /\ MoneyTyped'
    BY <1>2, <2>1, <2>2, SumsType DEF TypeOK
  <2>5. Spoken \in Int /\ Spoken' \in Int
    BY <2>4 DEF Spoken, MoneyTyped
  <2>6. Spoken' <= spend'
    <3>1. Spoken <= spend
      BY <1>2 DEF MoneyInv
    <3>2. spend' = AtLeastZero(spend + (Spoken' - Spoken)) /\ spend \in Int
      BY <2>3, <2>4
    <3>3. \A a, b, c \in Int : b <= a => c <= AtLeastZero(a + (c - b))
      BY DEF AtLeastZero
    <3>4. Spoken' <= AtLeastZero(spend + (Spoken' - Spoken))
      BY <2>5, <3>1, <3>2, <3>3
    <3> QED
      BY <3>2, <3>4
  <2> QED
    BY <1>2, <2>2, <2>3, <2>6 DEF MoneyInv
<1> QED
  BY <1>1, <1>2

\* As long as nothing goes wrong, the money that is out never exceeds the budget
\* that is used: every order is paid from its own reservation, whatever the order
\* in which reservations, payments and refunds of many tasks come.
THEOREM SpendSound ==
    ASSUME Faults = {}
    PROVE  Spec => []SpendCoversPaid
<1>1. TypeOK /\ CalmInv /\ MoneyInv => SpendCoversPaid
  BY SumsType DEF MoneyTyped, MoneyInv, Spoken, SpendCoversPaid, TypeOK
<1> QED
  BY <1>1, MoneyKept, TypeCorrect, PTL DEF Spec

\* As long as nothing goes wrong, the account never pays more than MAX_BUDGET
\* beyond what it got for sales.
THEOREM PaymentsSound ==
    ASSUME Faults = {}
    PROVE  Spec => []PaidWithinBudget
<1>1. TypeOK /\ SpendCoversPaid /\ SpendWithinBudget => PaidWithinBudget
  BY GuardAssumption DEF SpendCoversPaid, SpendWithinBudget, PaidWithinBudget, TypeOK
<1> QED
  BY <1>1, SpendSound, BudgetSound, TypeCorrect, PTL

\* As long as nothing goes wrong, the books balance whenever nothing is under way:
\* shares and money of the ledger are those of the account, and no slot is held.
THEOREM BooksSound ==
    ASSUME Faults = {}
    PROVE  Spec => []BooksBalance
<1>1. TypeOK /\ CalmInv /\ MoneyInv /\ SlotsAccounted /\ NoOrphanSlot => BooksBalance
  <2> SUFFICES ASSUME TypeOK, CalmInv, MoneyInv, SlotsAccounted, NoOrphanSlot, Settled
               PROVE  /\ \A t \in Tokens : NetExposure(t) = position[t] - InitialPosition[t]
                      /\ realizedPnl = -paid
                      /\ buyCount = 0 /\ tokenPendingBuy = {}
    BY DEF BooksBalance
  <2>1. /\ \A o \in Orders : task[o].pc \notin Active
        /\ \A m \in Markets : fills[m] = <<>>
    BY DEF Settled, Running
  <2>2. \A t \in Tokens : NetExposure(t) = position[t] - InitialPosition[t]
    BY <2>1 DEF CalmInv, CalmFrom, LedgerFollows, Active
  <2>3. realizedPnl = -paid
    <3>1. UnbookedSum = 0
      BY <2>1, NothingDue DEF Active
    <3> QED
      BY <3>1 DEF MoneyInv, BooksAgree, TypeOK
  <2>4. RunningBuys = {} /\ \A m \in Markets : BuysOf(m) = {}
    BY DEF Settled, RunningBuys, BuysOf
  <2>5. buyCount = 0 /\ tokenPendingBuy = {}
    BY <2>4, FS_EmptySet DEF SlotsAccounted, NoOrphanSlot, TypeOK
  <2> QED
    BY <2>2, <2>3, <2>5
<1> QED
  BY <1>1, MoneyKept, SlotsSound, OrphansNever, TypeCorrect, PTL DEF Spec
-----------------------------------------------------------------------------
(***************************************************************************)
(* The budget comes back in full when no share is sold above what any share*)
(* was bought for: the account then never got more than it paid, what is   *)
(* spoken for is never negative, and no refund is cut off at zero.         *)
(***************************************************************************)
LEMMA OnlyFillsPay == [Next]_vars => ExchangeFill \/ UNCHANGED <<position, paid>>
<1>1. \A m \in Markets : EngineStep(m) => UNCHANGED <<position, paid>>
  BY DEF EngineStep, Start, Stop, GiveUp, CooldownOver, Watchdog, HandleFill, Consider, Buy, Sell,
         exchangeVars
<1>2. \A o \in Orders : TaskStep(o) => UNCHANGED <<position, paid>>
  BY DEF TaskStep, Reserve, Fire, Place, After, Release, exchangeVars
<1>3. Crash => UNCHANGED <<position, paid>>
  BY DEF Crash
<1> QED
  BY <1>1, <1>2, <1>3 DEF Next, vars, exchangeVars

Shares == SumFunctionOnSet(position, Tokens)

LEMMA SharesType == TypeOK => Shares \in Nat /\ IsFiniteSet(Tokens)
<1>1. IsFiniteSet(Tokens)
  <2>1. IsFiniteSet(Outcomes)
    <3>1. IsFiniteSet({"yes"} \union {"no"})
      BY FS_Singleton, FS_AddElement
    <3> QED
      BY <3>1 DEF Outcomes
  <2> QED
    BY <2>1, EngineAssumption, FS_Product
<1> QED
  BY <1>1, SumNat DEF Shares, TypeOK

\* The shares were bought for P or more each, and sold for P or less.
PaidFor(P) == P * Shares <= paid

Between(P) ==
    /\ P \in Nat
    /\ \A q \in BuyPrices : P <= q
    /\ \A p \in SellPrices : p <= P

LEMMA PaidForKept ==
    ASSUME NEW P, Between(P), TypeOK, TypeOK', CalmInv, PricesMet, PaidFor(P), [Next]_vars
    PROVE  PaidFor(P)'
<1>1. CASE UNCHANGED <<position, paid>>
  BY <1>1 DEF PaidFor, Shares
<1>2. CASE ExchangeFill
  <2>1. PICK r \in openOrders : \E n \in 1..r.left : Fill(r, n)
    BY <1>2 DEF ExchangeFill
  <2>2. PICK n \in 1..r.left : Fill(r, n)
    BY <2>1
  <2> DEFINE o == r.id
             p == task[o].price
             d == IF IsBuy(o) THEN n ELSE -n
             t == Token(o)
  <2>3. /\ o \in Orders /\ task[o].pc = "after" /\ n \in Nat \ {0}
        /\ position'[Token(o)] = position[Token(o)] + d
        /\ \A u \in Tokens \ {Token(o)} : position'[u] = position[u]
    BY <2>2, FillMoves DEF CalmInv
  <2>4. p \in Nat /\ d \in Int /\ P \in Nat /\ paid \in Int /\ t \in Tokens
    BY <2>3, TaskFacts DEF Between, TypeOK
  <2>5. paid' = paid + p * d
    <3>1. paid' = paid + d * p
      BY <2>2, <2>3 DEF Fill, CalmInv, CalmFrom, OrdersWatched, IsBuy
    <3> QED
      BY <3>1, <2>4, ProductLaws
  <2>6. Shares' = Shares + d
    <3>1. \A u \in Tokens : position[u] \in Int /\ position'[u] \in Int
      BY DEF TypeOK
    <3>2. Shares' = Shares + position'[t] - position[t]
      BY <3>1, <2>3, <2>4, SharesType, SumChange DEF Shares
    <3>3. Shares \in Nat /\ position[t] \in Int
      BY <2>4, <3>1, SharesType
    <3> HIDE DEF d
    <3> QED
      BY <2>3, <2>4, <3>2, <3>3
  <2>7. P * d <= p * d
    <3>1. CASE IsBuy(o)
      <4>1. P <= p
        BY <3>1, <2>3 DEF PricesMet, Between, Active
      <4>2. n * P <= n * p
        BY <4>1, <2>3, <2>4, ProductOrder
      <4> QED
        BY <3>1, <4>2, <2>3, <2>4, ProductLaws
    <3>2. CASE ~IsBuy(o)
      <4>1. p <= P
        BY <3>2, <2>3 DEF PricesMet, Between, Active
      <4>2. n * p <= n * P
        BY <4>1, <2>3, <2>4, ProductOrder
      <4>3. P * (-n) = -(n * P) /\ p * (-n) = -(n * p) /\ n * p \in Int /\ n * P \in Int
        BY <2>3, <2>4, ProductLaws, ProductInt
      <4> QED
        BY <3>2, <4>2, <4>3
    <3> QED
      BY <3>1, <3>2
  <2> HIDE DEF d, p
  <2>8. Shares \in Nat
    BY SharesType
  <2>9. P * (Shares + d) = P * Shares + P * d /\ P * Shares \in Int /\ P * d \in Int /\ p * d \in Int
    BY <2>4, <2>8, ProductLaws, ProductInt
  <2>10. P * Shares <= paid
    BY DEF PaidFor
  <2> QED
    BY <2>4, <2>5, <2>6, <2>7, <2>9, <2>10 DEF PaidFor
<1> QED
  BY <1>1, <1>2, OnlyFillsPay

\* The spend is exactly what is spoken for.
Exact == BooksAgree /\ spend = Spoken

LEMMA ExactKept ==
    ASSUME Faults = {}, NEW P, Between(P)
    PROVE  /\ TypeOK /\ CalmInv /\ PricesMet /\ PaidFor(P) /\ Exact /\ [Next]_vars
              => CalmInv' /\ PaidFor(P)' /\ Exact'
<1> SUFFICES ASSUME TypeOK, CalmInv, PricesMet, PaidFor(P), Exact, [Next]_vars
             PROVE  CalmInv' /\ PaidFor(P)' /\ Exact'
  OBVIOUS
<1>1. TypeOK' /\ CalmStep
  BY StaysCalm
<1>2. CalmInv'
  BY StaysCalm
<1>3. PaidFor(P)'
  BY <1>1, PaidForKept
<1>4. BooksAgree' /\ spend' = AtLeastZero(spend + (Spoken' - Spoken))
  BY <1>1, <1>2, CalmMoney, SumsFollow DEF Exact
<1>5. Spoken \in Int /\ Spoken' \in Nat
  <2>1. paid' >= 0
    <3>1. Shares' \in Nat
      BY <1>1, SumNat, SharesType DEF Shares, TypeOK
    <3>2. P * Shares' \in Nat
      BY <3>1, ProductNat DEF Between
    <3> QED
      BY <1>1, <1>3, <3>2 DEF PaidFor, TypeOK
  <2>2. MoneyTyped /\ MoneyTyped' /\ paid \in Int /\ paid' \in Int
    BY <1>1, <1>2, SumsType DEF TypeOK
  <2> QED
    <3>1. /\ DueSum \in Nat /\ RefundSum \in Nat /\ DueSum' \in Nat /\ RefundSum' \in Nat
      BY <2>2 DEF MoneyTyped
    <3>2. Spoken = paid + DueSum + RefundSum /\ Spoken' = paid' + DueSum' + RefundSum'
      BY DEF Spoken
    <3>3. paid \in Int /\ paid' \in Nat
      BY <2>1, <2>2
    <3>4. Spoken \in Int
      BY <3>1, <3>2, <3>3
    <3>5. Spoken' \in Nat
      <4>1. \A a, b, c \in Nat : a + b + c \in Nat
        OBVIOUS
      <4>2. paid' + DueSum' + RefundSum' \in Nat
        BY <3>1, <3>3, <4>1
      <4> QED
        BY <3>2, <4>2
    <3> QED
      BY <3>4, <3>5
<1>6. spend' = Spoken'
  <2>1. spend = Spoken
    BY DEF Exact
  <2>2. \A a, b \in Int : b >= 0 => AtLeastZero(a + (b - a)) = b
    BY DEF AtLeastZero
  <2> QED
    BY <1>4, <1>5, <2>1, <2>2
<1> QED
  BY <1>2, <1>3, <1>4, <1>6 DEF Exact

\* An account that starts without shares, and sells none above what it bought for,
\* has the whole budget back when nothing is under way but what is out.
THEOREM BudgetBack ==
    ASSUME Faults = {}, BuyPrices # {}, \A t \in Tokens : InitialPosition[t] = 0
    PROVE  Spec => []BudgetReturned
<1> DEFINE Even == \A p \in SellPrices, q \in BuyPrices : p <= q
<1>1. CASE ~Even
  <2>1. BudgetReturned
    BY <1>1 DEF BudgetReturned
  <2> QED
    BY <2>1, PTL
<1>2. CASE Even
  <2>1. PICK P \in BuyPrices : \A q \in BuyPrices : P <= q
    BY EngineAssumption, SmallestOf
  <2>2. Between(P)
    BY <1>2, <2>1, EngineAssumption DEF Between
  <2>3. Init => PaidFor(P)
    <3> SUFFICES ASSUME Init PROVE PaidFor(P)
      OBVIOUS
    <3>1. Shares = 0
      BY SharesType, TypesInitially, SumZero DEF Shares, Init, ExchangeInit
    <3> QED
      BY <3>1, <2>2, MoneyInitially DEF PaidFor, Between
  <2>4. Init => Exact
    BY MoneyInitially DEF Exact
  <2>5. TypeOK /\ CalmInv /\ Exact => BudgetReturned
    <3> SUFFICES ASSUME TypeOK, Exact, Settled PROVE spend = paid
      BY DEF BudgetReturned
    <3>1. DueSum = 0 /\ RefundSum = 0
      BY NothingDue DEF Settled, Running, Active
    <3> QED
      BY <3>1 DEF Exact, Spoken, TypeOK
  <2> QED
    BY <2>2, <2>3, <2>4, <2>5, ExactKept, PricesInitially, PricesKept, CalmInitially, TypeCorrect,
       PTL DEF Spec
<1> QED
  BY <1>1, <1>2
=============================================================================
