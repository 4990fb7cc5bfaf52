------------------------ MODULE CircuitBreakerProofs ------------------------
(***************************************************************************)
(* The breaker for any number of engines, orders, prices and trades: types,*)
(* the purchases that slip past a freeze, the freeze that stays, and what  *)
(* exact and stale totals can make of the breaker.                         *)
(***************************************************************************)
EXTENDS CircuitBreaker, Sums, TLAPS

TaskType == [pc : {"idle", "spawned", "placed", "filled", "failed"}, market : Markets,
             side : Sides, size : Nat, before : Nat, orphan : BOOLEAN, rest : BOOLEAN]
FoldType == [left : SUBSET Markets, sum : Int, next : {"Empty", "Holding"}]

LEMMA IdleIsTask == IdleTask \in TaskType
<1> QED BY BreakerAssumption DEF IdleTask, TaskType, Sides

LEMMA NoFoldIsFold == NoFold \in FoldType
<1> QED BY DEF NoFold, FoldType

\* What an engine or a task may read as a position.
LEMMA PositionsAreNat == ASSUME TypeOK, NEW m \in Markets PROVE Positions(m) \subseteq Nat
<1>1. shares[m] \in Nat /\ net[m] \in Int
    BY DEF TypeOK
<1>2. (IF net[m] > 0 THEN net[m] ELSE 0) \in Nat
    BY <1>1
<1> QED BY <1>1, <1>2 DEF Positions

LEMMA BreakerInitTypes == Init => TypeOK
<1> SUFFICES ASSUME Init PROVE TypeOK
    OBVIOUS
<1>1. task \in [Orders -> TaskType] /\ fold \in [Markets -> FoldType]
    BY IdleIsTask, NoFoldIsFold DEF Init
<1>2. trades \in 0..MaxTrades
    BY BreakerAssumption DEF Init
<1>3. engine \in [Markets -> EngineStates]
    BY DEF Init, EngineStates
<1>4. /\ realizedPnl \in [Markets -> Int] /\ net \in [Markets -> Int]
      /\ shares \in [Markets -> Nat] /\ late \in [Markets -> Nat]
    BY DEF Init
<1>5. resting \in [Markets -> [Sides -> Nat]]
    BY DEF Init
<1>6. frozen \in BOOLEAN /\ sold \in BOOLEAN /\ exact \in BOOLEAN /\ fresh \subseteq Markets
    BY DEF Init
<1> QED
    BY <1>1, <1>2, <1>3, <1>4, <1>5, <1>6 DEF TypeOK, TaskType, FoldType

\* Every step keeps the types: the engines' steps first, then the tasks' and the exchange's.
LEMMA BreakerStepTypes == ASSUME TypeOK, [Next]_vars PROVE TypeOK'
<1> USE DEF TypeOK, ledger, account, history
<1>2. ASSUME NEW m \in Markets,
             Clear(m) \/ Decline(m) \/ Watchdog(m) \/ Start(m)
      PROVE TypeOK'
    <2>1. engine' \in [Markets -> EngineStates]
        BY <1>2 DEF Clear, Decline, Watchdog, Start, Become, EngineStates
    <2> QED BY <1>2, <2>1 DEF Clear, Decline, Watchdog, Start
<1>3. ASSUME NEW m \in Markets, Stop(m) PROVE TypeOK'
    <2>1. engine' \in [Markets -> EngineStates]
        BY <1>3 DEF Stop, Become, EngineStates
    <2>2. task' \in [Orders -> TaskType]
        <3>1. ASSUME NEW o \in Orders PROVE [task[o] EXCEPT !.orphan = TRUE] \in TaskType
            BY DEF TaskType
        <3>2. task \in [Orders -> TaskType]
            BY DEF TaskType
        <3> QED BY <1>3, <3>1, <3>2 DEF Stop
    <2>3. resting' \in [Markets -> [Sides -> Nat]]
        <3>1. PICK b \in 0..resting[m]["Buy"], s \in 0..resting[m]["Sell"] :
                  resting' = [resting EXCEPT ![m] = [Buy |-> b, Sell |-> s]]
            BY <1>3 DEF Stop
        <3>2. [Buy |-> b, Sell |-> s] \in [Sides -> Nat]
            BY DEF Sides
        <3> QED BY <3>1, <3>2
    <2> QED BY <1>3, <2>1, <2>2, <2>3 DEF Stop, TaskType
<1>4. ASSUME NEW m \in Markets, NEW o \in Orders, Buy(m, o) \/ Sell(m, o) PROVE TypeOK'
    <2>1. engine' \in [Markets -> EngineStates]
        BY <1>4 DEF Buy, Sell, Become, EngineStates
    <2>2. PICK s \in Sides, n \in Nat : Fire(m, o, s, n)
        BY <1>4, PositionsAreNat DEF Buy, Sell, Sides
    <2>3. [IdleTask EXCEPT !.pc = "spawned", !.market = m, !.side = s, !.size = n] \in TaskType
        BY IdleIsTask DEF TaskType
    <2>4. task' \in [Orders -> TaskType]
        BY <2>2, <2>3 DEF Fire, TaskType
    <2>5. trades' \in 0..MaxTrades
        BY <2>2, BreakerAssumption DEF Fire
    <2>6. late' \in [Markets -> Nat]
        <3>1. late' \in {late, [late EXCEPT ![m] = @ + 1]}
            BY <1>4 DEF Buy, Sell
        <3> QED BY <3>1
    <2> QED BY <2>1, <2>2, <2>4, <2>5, <2>6 DEF Fire, TaskType
<1>5. ASSUME NEW m \in Markets, NEW o \in Orders, HearFill(m, o) PROVE TypeOK'
    <2>1. engine' \in [Markets -> EngineStates]
        BY <1>5 DEF HearFill, Become, EngineStates
    <2>2. task' \in [Orders -> TaskType]
        BY <1>5, IdleIsTask DEF HearFill, Receive, Heard, TaskType
    <2>3. fold' \in [Markets -> FoldType]
        BY <1>5 DEF HearFill, FoldType
    <2> QED BY <1>5, <2>1, <2>2, <2>3 DEF HearFill, TaskType, FoldType
<1>6. ASSUME NEW m \in Markets, NEW o \in Orders, Ignore(m, o) \/ HearFailure(m, o)
      PROVE TypeOK'
    <2>1. engine' \in [Markets -> EngineStates]
        BY <1>6 DEF Ignore, HearFailure, Become, EngineStates
    <2>2. task' \in [Orders -> TaskType]
        BY <1>6, IdleIsTask DEF Ignore, HearFailure, Receive, Heard, TaskType
    <2> QED BY <1>6, <2>1, <2>2 DEF Ignore, HearFailure, TaskType
<1>7. ASSUME NEW m \in Markets, NEW n \in Markets, Add(m, n) PROVE TypeOK'
    <2>1. [fold[m] EXCEPT !.left = @ \ {n}, !.sum = @ + realizedPnl[n]] \in FoldType
        <3>1. fold[m] \in FoldType /\ realizedPnl[n] \in Int
            BY DEF FoldType
        <3> DEFINE s == fold[m].sum + realizedPnl[n]
                   l == fold[m].left \ {n}
        <3>2. s \in Int /\ l \in SUBSET Markets
            BY <3>1 DEF FoldType
        <3> HIDE DEF s, l
        <3>3. [fold[m] EXCEPT !.left = l, !.sum = s] \in FoldType
            BY <3>1, <3>2 DEF FoldType
        <3> QED BY <3>3 DEF s, l
    <2>2. fold' = [fold EXCEPT ![m] = [fold[m] EXCEPT !.left = @ \ {n}, !.sum = @ + realizedPnl[n]]]
        BY <1>7 DEF Add
    <2>3. fold' \in [Markets -> FoldType]
        BY <2>1, <2>2 DEF FoldType
    <2> QED BY <1>7, <2>3 DEF Add, FoldType
<1>8. ASSUME NEW m \in Markets, Update(m) PROVE TypeOK'
    <2>1. engine' \in [Markets -> EngineStates]
        BY <1>8 DEF Update, Become, EngineStates
    <2>2. fold' \in [Markets -> FoldType]
        BY <1>8, NoFoldIsFold DEF Update, FoldType
    <2>3. frozen' \in BOOLEAN /\ exact' \in BOOLEAN
        <3>1. Tripped(-fold[m].sum) \in BOOLEAN
            <4>1. CASE frozen
                BY <4>1 DEF Tripped
            <4>2. CASE ~frozen
                BY <4>2 DEF Tripped
            <4> QED BY <4>1, <4>2
        <3> QED BY <1>8, <3>1 DEF Update
    <2>4. late' \in [Markets -> Nat]
        BY <1>8 DEF Update
    <2> QED BY <1>8, <2>1, <2>2, <2>3, <2>4 DEF Update, FoldType
<1>9. ASSUME NEW o \in Orders, FillBuy(o) \/ FillSell(o) PROVE TypeOK'
    <2>1. PICK lots \in Int, cash \in Int : Booked(o, lots, cash)
        <3>1. shares[task[o].market] \in Nat /\ task[o].before \in Nat
            OBVIOUS
        <3>2. CASE FillBuy(o)
            <4> DEFINE filled == shares[task[o].market] - task[o].before
            <4>1. PICK c \in Costs : Booked(o, filled, -(c * filled))
                BY <3>2 DEF FillBuy
            <4>2. filled \in Int /\ c \in Int
                BY <3>1, BreakerAssumption
            <4> HIDE DEF filled
            <4>3. -(c * filled) \in Int
                BY <4>2
            <4> QED BY <4>1, <4>2, <4>3
        <3>3. CASE FillSell(o)
            <4> DEFINE filled == task[o].before - shares[task[o].market]
            <4>1. PICK p \in Proceeds : Booked(o, -filled, p * filled)
                BY <3>3 DEF FillSell
            <4>2. filled \in Int /\ p \in Int
                BY <3>1, BreakerAssumption
            <4> HIDE DEF filled
            <4>3. p * filled \in Int /\ -filled \in Int
                BY <4>2
            <4> QED BY <4>1, <4>2, <4>3
        <3> QED BY <1>9, <3>2, <3>3
    <2>2. realizedPnl' \in [Markets -> Int] /\ net' \in [Markets -> Int]
        BY <2>1 DEF Booked
    <2>3. task' \in [Orders -> TaskType]
        <3> DEFINE t == [task[o] EXCEPT !.pc = "filled", !.rest = shares[task[o].market] > 0]
        <3>1. (shares[task[o].market] > 0) \in BOOLEAN
            OBVIOUS
        <3>2. t \in TaskType
            BY <3>1 DEF TaskType
        <3>3. task' = [task EXCEPT ![o] = t]
            BY <2>1 DEF Booked
        <3> HIDE DEF t
        <3> QED BY <3>2, <3>3 DEF TaskType
    <2>4. sold' \in BOOLEAN
        BY <1>9 DEF FillBuy, FillSell
    <2> QED BY <2>1, <2>2, <2>3, <2>4 DEF Booked, TaskType
<1>10. ASSUME NEW o \in Orders, Unfilled(o) \/ Unheard(o) PROVE TypeOK'
    <2>1. task' \in [Orders -> TaskType]
        <3>1. CASE Unfilled(o)
            <4>1. [task[o] EXCEPT !.pc = "failed"] \in TaskType
                BY DEF TaskType
            <4>2. task \in [Orders -> TaskType]
                BY DEF TaskType
            <4> QED BY <3>1, <4>1, <4>2 DEF Unfilled
        <3>2. CASE Unheard(o)
            BY <3>2, IdleIsTask DEF Unheard, Heard, TaskType
        <3> QED BY <1>10, <3>1, <3>2
    <2> QED BY <1>10, <2>1 DEF Unfilled, Unheard, TaskType
<1>11. ASSUME NEW o \in Orders, Post(o) \/ NotPlaced(o) PROVE TypeOK'
    <2>1. PICK n \in Nat, pc \in {"placed", "failed"}, before \in Nat : Send(o, n, pc, before)
        <3>1. task[o].size \in Nat /\ Positions(task[o].market) \subseteq Nat
            BY PositionsAreNat
        <3> QED BY <1>11, <3>1 DEF Post, NotPlaced
    <2>2. task' \in [Orders -> TaskType]
        <3> DEFINE t == [task[o] EXCEPT !.pc = pc, !.before = before]
        <3>1. t \in TaskType
            BY DEF TaskType
        <3>2. task' = [task EXCEPT ![o] = t] /\ task \in [Orders -> TaskType]
            BY <2>1 DEF Send, TaskType
        <3> HIDE DEF t
        <3> QED BY <3>1, <3>2
    <2>3. resting' \in [Markets -> [Sides -> Nat]]
        BY <2>1 DEF Send
    <2> QED BY <2>1, <2>2, <2>3 DEF Send, TaskType
<1>12. ASSUME NEW m \in Markets, NEW s \in Sides, ExchangeFill(m, s) PROVE TypeOK'
    <2>1. resting' \in [Markets -> [Sides -> Nat]]
        BY <1>12 DEF ExchangeFill
    <2>2. shares' \in [Markets -> Nat]
        BY <1>12 DEF ExchangeFill, Sides
    <2> QED BY <1>12, <2>1, <2>2 DEF ExchangeFill
<1>13. CASE UNCHANGED vars
    BY <1>13 DEF vars
<1> QED
    BY <1>2, <1>3, <1>4, <1>5, <1>6, <1>7, <1>8, <1>9, <1>10, <1>11, <1>12, <1>13
       DEF Next, EngineStep, TaskStep

\* Type correctness of the breaker, its readers, the order tasks and the account: no
\* open order sells more than is held.
THEOREM BreakerTypes == Spec => []TypeOK
<1> QED BY BreakerInitTypes, BreakerStepTypes, PTL DEF Spec
-----------------------------------------------------------------------------
\* While the breaker is frozen, an engine that is cleared has not fired yet.
LateInv == frozen => \A m \in Markets :
    late[m] <= 1 /\ (engine[m] = "Cleared" => late[m] = 0)

LEMMA LateStep == ASSUME TypeOK, LateInv, [Next]_vars PROVE LateInv'
<1> USE DEF TypeOK, LateInv, Become
<1>1. ASSUME NEW m \in Markets, Clear(m) PROVE LateInv'
    BY <1>1 DEF Clear
<1>2. ASSUME NEW m \in Markets, NEW o \in Orders, Buy(m, o) PROVE LateInv'
    BY <1>2 DEF Buy, Fire
<1>3. ASSUME NEW m \in Markets, NEW o \in Orders,
             Sell(m, o) \/ HearFill(m, o) \/ Ignore(m, o) PROVE LateInv'
    BY <1>3 DEF Sell, Fire, HearFill, Ignore
<1>4. ASSUME NEW m \in Markets, NEW o \in Orders, HearFailure(m, o) PROVE LateInv'
    BY <1>4 DEF HearFailure
<1>5. ASSUME NEW m \in Markets, Decline(m) \/ Watchdog(m) \/ Stop(m) \/ Start(m) PROVE LateInv'
    BY <1>5 DEF Decline, Watchdog, Stop, Start
<1>6. ASSUME NEW m \in Markets, NEW n \in Markets, Add(m, n) PROVE LateInv'
    BY <1>6 DEF Add
<1>7. ASSUME NEW m \in Markets, Update(m) PROVE LateInv'
    <2>1. fold[m].next # "Cleared"
        OBVIOUS
    <2>2. CASE frozen
        BY <1>7, <2>1, <2>2 DEF Update
    <2>3. CASE ~frozen /\ frozen'
        <3>1. late' = [n \in Markets |-> 0]
            BY <1>7, <2>3 DEF Update
        <3> QED BY <3>1
    <2> QED BY <2>2, <2>3
<1>8. ASSUME NEW o \in Orders, TaskStep(o) PROVE LateInv'
    BY <1>8 DEF TaskStep, Post, NotPlaced, Send, Unfilled, FillBuy, FillSell, Booked, Unheard
<1>9. ASSUME NEW m \in Markets, NEW s \in Sides, ExchangeFill(m, s) PROVE LateInv'
    BY <1>9 DEF ExchangeFill
<1>10. CASE UNCHANGED vars
    BY <1>10 DEF vars
<1> QED
    BY <1>1, <1>2, <1>3, <1>4, <1>5, <1>6, <1>7, <1>8, <1>9, <1>10 DEF Next, EngineStep

\* However the engines, reports, watchdogs and restarts interleave, each engine
\* fires at most one purchase while a freeze lasts.
THEOREM FewSlipThrough == Spec => []LateBuysBounded
<1>1. Init => LateInv
    BY DEF Init, LateInv
<1>2. TypeOK /\ LateInv => LateBuysBounded
    BY DEF LateInv, LateBuysBounded
<1> QED BY <1>1, <1>2, BreakerTypes, LateStep, PTL DEF Spec
-----------------------------------------------------------------------------
LEMMA FrozenStep ==
    ASSUME TypeOK, [Next]_vars, frozen, Quiet PROVE frozen' /\ Quiet'
<1> USE DEF TypeOK, Quiet, Become, ledger, account
<1>0. ASSUME NEW m \in Markets PROVE Positions(m) = {0}
    BY DEF Positions
<1>1. ASSUME NEW m \in Markets, Watchdog(m) PROVE frozen' /\ Quiet'
    BY <1>1 DEF Watchdog
<1>2. ASSUME NEW m \in Markets, Start(m) PROVE frozen' /\ Quiet'
    BY <1>0, <1>2 DEF Start
<1>3. ASSUME NEW m \in Markets, Stop(m) PROVE frozen' /\ Quiet'
    <2>1. PICK b \in 0..resting[m]["Buy"], s \in 0..resting[m]["Sell"] :
              resting' = [resting EXCEPT ![m] = [Buy |-> b, Sell |-> s]]
        BY <1>3 DEF Stop
    <2>2. resting[m]["Buy"] = 0 /\ resting[m]["Sell"] = 0
        BY DEF Sides
    <2>3. b = 0 /\ s = 0
        BY <2>2
    <2>4. \A n \in Markets : \A t \in Sides : resting'[n][t] = 0
        BY <2>1, <2>3 DEF Sides
    <2>5. \A o \in Orders : task'[o].pc = "idle"
        BY <1>3 DEF Stop
    <2> QED BY <1>3, <2>4, <2>5 DEF Stop
<1>4. ASSUME NEW m \in Markets, Clear(m) \/ Decline(m) \/ Update(m) PROVE FALSE
    BY <1>4 DEF Clear, Decline, Update
<1>5. ASSUME NEW m \in Markets, NEW n \in Markets, Add(m, n) PROVE FALSE
    BY <1>5 DEF Add
<1>6. ASSUME NEW m \in Markets, NEW o \in Orders,
             Buy(m, o) \/ Sell(m, o) \/ HearFill(m, o) \/ Ignore(m, o) \/ HearFailure(m, o)
      PROVE FALSE
    <2>1. ~Buy(m, o)
        BY DEF Buy
    <2>2. ~Sell(m, o)
        BY <1>0 DEF Sell
    <2>3. task[o].pc = "idle"
        OBVIOUS
    <2> QED BY <1>6, <2>1, <2>2, <2>3 DEF HearFill, Ignore, HearFailure, Receive
<1>7. ASSUME NEW o \in Orders, TaskStep(o) PROVE FALSE
    BY <1>7 DEF TaskStep, Post, NotPlaced, Send, Unfilled, FillBuy, FillSell, Unheard
<1>8. ASSUME NEW m \in Markets, NEW s \in Sides, ExchangeFill(m, s) PROVE FALSE
    BY <1>8 DEF ExchangeFill
<1>9. CASE UNCHANGED vars
    BY <1>9 DEF vars
<1> QED
    BY <1>1, <1>2, <1>3, <1>4, <1>5, <1>6, <1>7, <1>8, <1>9 DEF Next, EngineStep

\* A breaker that froze is never thawed once nothing is held, ordered or open at the
\* exchange, neither by stopping and starting engines nor by anything else the
\* program does.
THEOREM FrozenStays == Spec => FrozenForGood
<1>1. TypeOK /\ [Next]_vars => [frozen /\ Quiet => frozen' /\ Quiet']_vars
    BY FrozenStep
<1> QED BY <1>1, BreakerTypes, PTL DEF Spec, FrozenForGood
-----------------------------------------------------------------------------
(***************************************************************************)
(* What the engines that add up the P&L have in hand and still before them *)
(* is the total if nothing was booked since they began, and no less than   *)
(* the total if only purchases were.                                       *)
(***************************************************************************)
Total(left) == SumFunctionOnSet(realizedPnl, left)
Promised(m) == fold[m].sum + Total(fold[m].left)
Feeding     == {m \in Markets : engine[m] = "Feeding"}

FreshExact   == \A m \in fresh : m \in Feeding /\ Promised(m) = Total(Markets)
NeverTooLate == ~sold => \A m \in Feeding : Promised(m) >= Total(Markets)

FoldInv == FreshExact /\ NeverTooLate /\ HysteresisExact /\ FreezeEarned

\* Sums of the P&L of some tokens are numbers.
LEMMA TotalType == ASSUME TypeOK, NEW S \in SUBSET Markets PROVE Total(S) \in Int /\ IsFiniteSet(S)
<1>1. IsFiniteSet(S) /\ \A x \in S : realizedPnl[x] \in Int
    BY BreakerAssumption, FS_Subset DEF TypeOK
<1> QED BY <1>1, SumType DEF Total

LEMMA FoldInitially == Init => FoldInv
<1> SUFFICES ASSUME Init PROVE FoldInv
    OBVIOUS
<1>1. Total(Markets) = 0
    BY BreakerAssumption, SumZero DEF Init, Total
<1>2. HysteresisExact /\ FreezeEarned
    BY <1>1 DEF Init, HysteresisExact, FreezeEarned, DrawDown, Total,
                FREEZE_THRESHOLD, THAW_THRESHOLD
<1>3. FreshExact /\ NeverTooLate
    BY DEF Init, FreshExact, NeverTooLate, Feeding
<1> QED BY <1>2, <1>3 DEF FoldInv

\* Nothing that FoldInv speaks of changes.
LEMMA FoldFrame ==
    ASSUME FoldInv, UNCHANGED <<frozen, realizedPnl, fold, history>>, Feeding' = Feeding
    PROVE  FoldInv'
BY DEF FoldInv, FreshExact, NeverTooLate, HysteresisExact, FreezeEarned, DrawDown, Total,
       Promised, history, FREEZE_THRESHOLD, THAW_THRESHOLD

\* Visiting a token moves it from what is left to the sum.
LEMMA AddKeeps ==
    ASSUME TypeOK, NEW m \in Markets, NEW n \in Markets, Add(m, n)
    PROVE  \A k \in Markets : Promised(k)' = Promised(k)
<1> USE DEF TypeOK
<1> DEFINE left == fold[m].left
<1>1. left \in SUBSET Markets /\ n \in left
    BY DEF Add
<1>2. \A S : Total(S)' = Total(S)
    BY DEF Add, Total, ledger
<1>3. Total(left) = realizedPnl[n] + Total(left \ {n})
    <2>1. IsFiniteSet(left) /\ \A x \in left : realizedPnl[x] \in Int
        BY <1>1, TotalType
    <2> HIDE DEF left, TypeOK
    <2>2. SumFunctionOnSet(realizedPnl, left)
              = realizedPnl[n] + SumFunctionOnSet(realizedPnl, left \ {n})
        BY <1>1, <2>1, SumRemove
    <2> QED BY <2>2 DEF Total
<1>4. Total(left \ {n}) \in Int /\ realizedPnl[n] \in Int /\ fold[m].sum \in Int
    BY TotalType
<1>5. fold'[m].left = left \ {n} /\ fold'[m].sum = fold[m].sum + realizedPnl[n]
    BY DEF Add
<1>6. Promised(m)' = Promised(m)
    <2>1. Promised(m)' = fold'[m].sum + Total(left \ {n})
        BY <1>2, <1>5 DEF Promised
    <2>2. Promised(m) = fold[m].sum + Total(left)
        BY DEF Promised
    <2> HIDE DEF left
    <2> QED BY <1>3, <1>4, <1>5, <2>1, <2>2
<1>7. \A k \in Markets \ {m} : fold'[k] = fold[k]
    BY DEF Add
<1> QED BY <1>2, <1>6, <1>7 DEF Promised

\* A purchase lowers what is still to be visited by no more than the total.
LEMMA BuyLowers ==
    ASSUME TypeOK, NEW o \in Orders, FillBuy(o), NEW S \in SUBSET Markets
    PROVE  /\ Total(S)' \in Int /\ Total(Markets)' \in Int
           /\ Total(Markets)' <= Total(Markets)
           /\ Total(S)' - Total(S) >= Total(Markets)' - Total(Markets)
<1> DEFINE m == task[o].market
           filled == shares[m] - task[o].before
<1>1. m \in Markets /\ filled \in Nat
    BY DEF FillBuy, TypeOK
<1>2. PICK c \in Costs : Booked(o, filled, -(c * filled))
    BY DEF FillBuy
<1>3. PICK d \in Nat : realizedPnl' = [realizedPnl EXCEPT ![m] = @ - d]
    <2>1. \A a, b \in Nat : a * b \in Nat
        OBVIOUS
    <2>2. c \in Nat
        BY BreakerAssumption
    <2> HIDE DEF filled
    <2>3. c * filled \in Nat
        BY <1>1, <2>1, <2>2
    <2>4. \A x \in Int : \A y \in Nat : x + (-y) = x - y
        OBVIOUS
    <2>5. realizedPnl' = [realizedPnl EXCEPT ![m] = @ + (-(c * filled))]
        BY <1>2 DEF Booked
    <2>6. realizedPnl[m] \in Int
        BY <1>1 DEF TypeOK
    <2> QED BY <2>3, <2>4, <2>5, <2>6
<1>4. ASSUME NEW T \in SUBSET Markets
      PROVE  Total(T)' = IF m \in T THEN Total(T) - d ELSE Total(T)
    <2>1. IsFiniteSet(T) /\ \A x \in T : realizedPnl[x] \in Int /\ realizedPnl'[x] \in Int
        BY <1>1, <1>3, TotalType DEF TypeOK
    <2>2. \A x \in T \ {m} : realizedPnl'[x] = realizedPnl[x]
        BY <1>3 DEF TypeOK
    <2>3. Total(T)' = SumFunctionOnSet(realizedPnl', T) /\ Total(T) \in Int
        BY TotalType DEF Total
    <2>4. CASE m \in T
        <3>1. realizedPnl'[m] = realizedPnl[m] - d
            BY <1>1, <1>3 DEF TypeOK
        <3>2. Total(T)' = Total(T) + realizedPnl'[m] - realizedPnl[m]
            BY <2>1, <2>2, <2>3, <2>4, SumChange DEF Total
        <3>3. realizedPnl[m] \in Int
            BY <2>1, <2>4
        <3> QED BY <2>3, <2>4, <3>1, <3>2, <3>3
    <2>5. CASE m \notin T
        <3>1. \A x \in T : realizedPnl[x] \in Int /\ realizedPnl'[x] = realizedPnl[x]
            BY <2>1, <2>2, <2>5
        <3>2. SumFunctionOnSet(realizedPnl', T) = SumFunctionOnSet(realizedPnl, T)
            BY <2>1, <3>1, SumSame
        <3> QED BY <2>3, <2>5, <3>2 DEF Total
    <2> QED BY <2>4, <2>5
<1>5. Total(S) \in Int /\ Total(Markets) \in Int
    BY TotalType
<1>6. Total(Markets)' = Total(Markets) - d
    BY <1>1, <1>4
<1>7. Total(S)' \in {Total(S), Total(S) - d}
    BY <1>4
<1> QED BY <1>5, <1>6, <1>7

\* The breaker that is updated has heard of the whole loss, or of no more than it.
LEMMA UpdateDecides ==
    ASSUME TypeOK, FoldInv, NEW m \in Markets, Update(m)
    PROVE  FoldInv'
<1> USE DEF TypeOK, FREEZE_THRESHOLD, THAW_THRESHOLD
<1> DEFINE sum == fold[m].sum
           total == Total(Markets)
<1>1. m \in Feeding /\ sum \in Int /\ total \in Int
    BY TotalType DEF Update, Feeding
<1>2. \A S : Total(S)' = Total(S)
    BY DEF Update, Total, ledger
<1>3. Promised(m) = sum
    <2>1. Total({}) = 0
        BY SumEmpty DEF Total
    <2>2. Promised(m) = sum + Total({})
        BY DEF Promised, Update
    <2> QED BY <1>1, <2>1, <2>2
<1>4. DrawDown' = -total /\ DrawDown = -total
    BY <1>2 DEF DrawDown, Total
<1>5. frozen' = Tripped(-sum) /\ sold' = sold
    BY DEF Update
<1>6. Feeding' = Feeding \ {m} /\ \A k \in Feeding' : fold'[k] = fold[k]
    BY DEF Feeding, Update, Become
<1>7. \A k \in Feeding' : Promised(k)' = Promised(k)
    BY <1>2, <1>6 DEF Promised
<1>8. FreshExact' /\ NeverTooLate'
    <2>1. fresh' = fresh \ {m}
        BY DEF Update
    <2> QED BY <1>2, <1>5, <1>6, <1>7, <2>1 DEF FoldInv, FreshExact, NeverTooLate
<1>9. HysteresisExact'
    <2>1. SUFFICES ASSUME m \in fresh PROVE HysteresisExact'
        BY DEF Update, HysteresisExact
    <2>2. sum = total
        BY <1>3, <2>1 DEF FoldInv, FreshExact
    <2> HIDE DEF sum, total
    <2>3. /\ -total >= 20 => Tripped(-total)
          /\ -total <= 15 => ~Tripped(-total)
        BY <1>1 DEF Tripped
    <2> QED BY <1>4, <1>5, <2>2, <2>3 DEF HysteresisExact
<1>10. FreezeEarned'
    <2>1. SUFFICES ASSUME ~sold, Tripped(-sum) PROVE -total >= 20
        BY <1>4, <1>5 DEF FreezeEarned
    <2>2. sum >= total
        BY <1>1, <1>3, <2>1 DEF FoldInv, NeverTooLate
    <2>3. CASE frozen
        BY <1>4, <2>1, <2>3 DEF FoldInv, FreezeEarned
    <2>4. CASE ~frozen
        <3> HIDE DEF sum, total
        <3>1. -sum >= 20
            BY <2>1, <2>4 DEF Tripped
        <3> QED BY <1>1, <2>2, <3>1
    <2> QED BY <2>3, <2>4
<1> QED BY <1>8, <1>9, <1>10 DEF FoldInv

LEMMA FoldStep == ASSUME TypeOK, FoldInv, [Next]_vars PROVE FoldInv'
<1> USE DEF TypeOK, Become, ledger, account, Feeding
<1>1. ASSUME NEW m \in Markets, Clear(m) \/ Decline(m) \/ Watchdog(m) \/ Start(m)
      PROVE  FoldInv'
    <2>1. Feeding' = Feeding
        BY <1>1 DEF Clear, Decline, Watchdog, Start
    <2> QED BY <1>1, <2>1, FoldFrame DEF Clear, Decline, Watchdog, Start
<1>2. ASSUME NEW m \in Markets, Stop(m) PROVE FoldInv'
    <2>1. Feeding' = Feeding
        BY <1>2 DEF Stop, Selecting
    <2> QED BY <1>2, <2>1, FoldFrame DEF Stop
<1>3. ASSUME NEW m \in Markets, NEW o \in Orders, Buy(m, o) \/ Sell(m, o) PROVE FoldInv'
    <2>1. Feeding' = Feeding
        BY <1>3 DEF Buy, Sell
    <2>2. UNCHANGED <<frozen, realizedPnl, fold, history>>
        BY <1>3 DEF Buy, Sell, Fire
    <2> QED BY <2>1, <2>2, FoldFrame
<1>4. ASSUME NEW m \in Markets, NEW o \in Orders, HearFill(m, o) PROVE FoldInv'
    <2>1. \A S : Total(S)' = Total(S)
        BY <1>4 DEF HearFill, Total
    <2>2. Promised(m)' = Total(Markets)
        <3>1. fold'[m].sum = 0 /\ fold'[m].left = Markets
            BY <1>4 DEF HearFill
        <3>2. Total(Markets) \in Int
            BY TotalType
        <3> QED BY <2>1, <3>1, <3>2 DEF Promised
    <2>3. Feeding' = Feeding \cup {m} /\ m \notin Feeding
        BY <1>4 DEF HearFill, Receive, Selecting
    <2>4. \A k \in Feeding : Promised(k)' = Promised(k)
        <3>1. \A k \in Feeding : fold'[k] = fold[k]
            BY <1>4, <2>3 DEF HearFill
        <3> QED BY <2>1, <3>1 DEF Promised
    <2>5. FreshExact' /\ NeverTooLate'
        <3>1. fresh' = fresh \cup {m} /\ sold' = sold /\ Total(Markets) \in Int
            BY <1>4, TotalType DEF HearFill
        <3> HIDE DEF TypeOK, Feeding
        <3> QED BY <2>1, <2>2, <2>3, <2>4, <3>1 DEF FoldInv, FreshExact, NeverTooLate
    <2>6. HysteresisExact' /\ FreezeEarned'
        BY <1>4 DEF HearFill, FoldInv, HysteresisExact, FreezeEarned, DrawDown,
                    FREEZE_THRESHOLD, THAW_THRESHOLD
    <2> QED BY <2>5, <2>6 DEF FoldInv
<1>5. ASSUME NEW m \in Markets, NEW o \in Orders, HearFailure(m, o) \/ Ignore(m, o) PROVE FoldInv'
    <2>1. Feeding' = Feeding
        BY <1>5 DEF HearFailure, Ignore, Receive, Selecting
    <2> QED BY <1>5, <2>1, FoldFrame DEF HearFailure, Ignore
<1>6. ASSUME NEW m \in Markets, NEW n \in Markets, Add(m, n) PROVE FoldInv'
    <2>1. \A k \in Markets : Promised(k)' = Promised(k)
        BY <1>6, AddKeeps
    <2>2. Feeding' = Feeding /\ UNCHANGED <<frozen, realizedPnl, history>>
        BY <1>6 DEF Add
    <2>3. FreshExact' /\ NeverTooLate'
        BY <2>1, <2>2 DEF FoldInv, FreshExact, NeverTooLate, Total, history
    <2>4. HysteresisExact' /\ FreezeEarned'
        BY <2>2 DEF FoldInv, HysteresisExact, FreezeEarned, DrawDown, history,
                    FREEZE_THRESHOLD, THAW_THRESHOLD
    <2> QED BY <2>3, <2>4 DEF FoldInv
<1>7. ASSUME NEW m \in Markets, Update(m) PROVE FoldInv'
    BY <1>7, UpdateDecides
<1>8. ASSUME NEW o \in Orders, FillBuy(o) PROVE FoldInv'
    <2>1. fresh' = {} /\ exact' = FALSE /\ UNCHANGED <<frozen, engine, fold, sold>>
        BY <1>8 DEF FillBuy, Booked
    <2>2. ~sold => \A k \in Feeding : Promised(k)' >= Total(Markets)'
        <3> SUFFICES ASSUME ~sold, NEW k \in Feeding PROVE Promised(k)' >= Total(Markets)'
            OBVIOUS
        <3>1. PICK left \in SUBSET Markets : left = fold[k].left /\ fold[k].sum \in Int
            OBVIOUS
        <3>2. /\ Total(left)' \in Int /\ Total(Markets)' \in Int
              /\ Total(left)' - Total(left) >= Total(Markets)' - Total(Markets)
            BY <1>8, <3>1, BuyLowers
        <3>3. Promised(k)' = fold[k].sum + Total(left)' /\ Promised(k) = fold[k].sum + Total(left)
            BY <2>1, <3>1 DEF Promised, Total
        <3>4. Total(left) \in Int /\ Total(Markets) \in Int
            BY <3>1, TotalType
        <3>5. Promised(k) >= Total(Markets)
            BY DEF FoldInv, NeverTooLate
        <3> QED BY <3>1, <3>2, <3>3, <3>4, <3>5
    <2>3. NeverTooLate' /\ FreshExact'
        BY <2>1, <2>2 DEF NeverTooLate, FreshExact
    <2>4. HysteresisExact'
        BY <2>1 DEF HysteresisExact
    <2>5. FreezeEarned'
        <3>1. Total(Markets)' \in Int /\ Total(Markets)' <= Total(Markets) /\ Total(Markets) \in Int
            BY <1>8, BuyLowers, TotalType
        <3>2. DrawDown' = -(Total(Markets)') /\ DrawDown = -Total(Markets)
            BY DEF DrawDown, Total
        <3>3. FREEZE_THRESHOLD' = FREEZE_THRESHOLD /\ FREEZE_THRESHOLD \in Int
            BY DEF FREEZE_THRESHOLD
        <3> QED BY <2>1, <3>1, <3>2, <3>3 DEF FoldInv, FreezeEarned
    <2> QED BY <2>3, <2>4, <2>5 DEF FoldInv
<1>9. ASSUME NEW o \in Orders, FillSell(o) PROVE FoldInv'
    <2>1. sold' = TRUE /\ fresh' = {} /\ exact' = FALSE
        BY <1>9 DEF FillSell, Booked
    <2> QED BY <2>1 DEF FoldInv, FreshExact, NeverTooLate, HysteresisExact, FreezeEarned
<1>10. ASSUME NEW o \in Orders, Post(o) \/ NotPlaced(o) \/ Unfilled(o) \/ Unheard(o) PROVE FoldInv'
    <2>1. Feeding' = Feeding /\ UNCHANGED <<frozen, realizedPnl, fold, history>>
        BY <1>10 DEF Post, NotPlaced, Send, Unfilled, Unheard
    <2> QED BY <2>1, FoldFrame
<1>11. ASSUME NEW m \in Markets, NEW s \in Sides, ExchangeFill(m, s) PROVE FoldInv'
    <2>1. Feeding' = Feeding /\ UNCHANGED <<frozen, realizedPnl, fold, history>>
        BY <1>11 DEF ExchangeFill
    <2> QED BY <2>1, FoldFrame
<1>12. CASE UNCHANGED vars
    <2>1. Feeding' = Feeding /\ UNCHANGED <<frozen, realizedPnl, fold, history>>
        BY <1>12 DEF vars
    <2> QED BY <2>1, FoldFrame
<1> QED
    BY <1>1, <1>2, <1>3, <1>4, <1>5, <1>6, <1>7, <1>8, <1>9, <1>10, <1>11, <1>12
       DEF Next, EngineStep, TaskStep

LEMMA FoldsSound == Spec => []FoldInv
<1> QED BY BreakerTypes, FoldInitially, FoldStep, PTL DEF Spec

\* However many engines add up the P&L at once, each in an order of its own, an update
\* whose walk began after the last fill leaves the breaker frozen from 20% and open up
\* to 15%, whatever stale totals decided before.
THEOREM HysteresisSound == Spec => []HysteresisExact
<1>1. FoldInv => HysteresisExact
    BY DEF FoldInv
<1> QED BY <1>1, FoldsSound, PTL

\* However stale the totals are, none freezes the breaker before the drawdown is 20%,
\* as long as only purchases were booked.
THEOREM FreezeSound == Spec => []FreezeEarned
<1>1. FoldInv => FreezeEarned
    BY DEF FoldInv
<1> QED BY <1>1, FoldsSound, PTL
=============================================================================
