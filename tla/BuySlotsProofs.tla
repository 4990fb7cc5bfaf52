--------------------------- MODULE BuySlotsProofs ---------------------------
(***************************************************************************)
(* The BUY slots keep their promise for every set of overlapping attempts  *)
(* that fits the width of the counter, every assignment of markets to      *)
(* attempts and every MaxConcurrentBuys.                                   *)
(***************************************************************************)
EXTENDS BuySlots, FiniteSetTheorems, TLAPS

\* The conjunction is inductive.  GlobalCap alone is not: that an attempt may
\* win when the counter reads less than MaxConcurrentBuys says something of the
\* winners only because the counter counts all of them.
IInv == TypeOK /\ CounterExact /\ GlobalCap /\ TokenExclusive

\* The sets of attempts the invariants count are finite, and smaller than the
\* counter is wide.
LEMMA CountedFinite ==
    /\ IsFiniteSet(Counted) /\ Cardinality(Counted) \in Nat
    /\ Cardinality(Counted) < CounterModulus
    /\ IsFiniteSet(Winners) /\ Cardinality(Winners) \in Nat
    /\ Cardinality(Winners) <= Cardinality(Counted)
<1>1. Counted \subseteq Attempts /\ Winners \subseteq Counted
  BY DEF Counted, Winners
<1>2. /\ IsFiniteSet(Counted)
      /\ Cardinality(Counted) <= Cardinality(Attempts)
  BY <1>1, FS_Subset, AttemptsAssumption
<1>3. /\ IsFiniteSet(Winners)
      /\ Cardinality(Winners) <= Cardinality(Counted)
  BY <1>1, <1>2, FS_Subset
<1>4. /\ Cardinality(Counted) \in Nat
      /\ Cardinality(Winners) \in Nat
      /\ Cardinality(Attempts) \in Nat
  BY <1>2, <1>3, FS_CardinalityType, AttemptsAssumption
<1> QED
  BY <1>2, <1>3, <1>4, WidthAssumption

\* A fetch_add counts its attempt, and one that wins saw a free slot.
LEMMA FetchAddPreserves ==
    ASSUME IInv, NEW a \in Attempts, FetchAdd(a)
    PROVE  IInv'
<1> USE DEF IInv, TypeOK, FetchAdd, Goto, PCs
<1>1. Counted' = Counted \union {a} /\ a \notin Counted
  BY DEF Counted
<1>2. Cardinality(Counted') = Cardinality(Counted) + 1
  BY <1>1, CountedFinite, FS_AddElement
<1>3. Cardinality(Counted') < CounterModulus
  <2>1. Counted' \subseteq Attempts
    BY DEF Counted
  <2>2. Cardinality(Counted') <= Cardinality(Attempts)
    BY <2>1, FS_Subset, AttemptsAssumption
  <2> QED
    BY <2>2, <1>2, CountedFinite, WidthAssumption, AttemptsAssumption, FS_CardinalityType
<1>4. CounterExact' /\ TypeOK'
  BY <1>2, <1>3, CountedFinite, WidthAssumption DEF CounterExact
<1>5. GlobalCap'
  <2>1. CASE pendingBuyCount >= MaxConcurrentBuys
    <3>1. Winners' = Winners
      BY <2>1 DEF Winners
    <3> QED
      BY <3>1 DEF GlobalCap
  <2>2. CASE ~(pendingBuyCount >= MaxConcurrentBuys)
    <3>1. Winners' = Winners \union {a} /\ a \notin Winners
      BY <2>2 DEF Winners
    <3>2. Cardinality(Winners') = Cardinality(Winners) + 1
      BY <3>1, CountedFinite, FS_AddElement
    <3> QED
      BY <2>2, <3>2, CountedFinite, SlotsAssumption DEF GlobalCap, CounterExact
  <2> QED
    BY <2>1, <2>2
<1>6. Holders' = Holders
  BY DEF Holders
<1>7. TokenExclusive'
  BY <1>6 DEF TokenExclusive
<1> QED
  BY <1>4, <1>5, <1>7

\* A fetch_sub is done by a counted attempt, so it cannot go below zero.
LEMMA FetchSubPreserves ==
    ASSUME IInv, NEW a \in Attempts, NEW from, NEW to, FetchSub(a, from, to),
           \/ from \in {"undo", "full"} /\ to = "idle"
           \/ from = "dropGlobal" /\ to = "dropToken"
    PROVE  IInv'
<1> USE DEF IInv, TypeOK, FetchSub, Goto, PCs
<1>1. Counted' = Counted \ {a} /\ a \in Counted
  BY DEF Counted
<1>2. Cardinality(Counted') = Cardinality(Counted) - 1
  BY <1>1, CountedFinite, FS_RemoveElement
<1>3. Cardinality(Counted) # 0
  BY <1>1, CountedFinite, FS_EmptySet
<1>4. CounterExact' /\ TypeOK'
  BY <1>2, <1>3, CountedFinite, WidthAssumption DEF CounterExact
<1>5. Winners' \subseteq Winners
  BY DEF Winners
<1>6. Cardinality(Winners') <= Cardinality(Winners) /\ Cardinality(Winners') \in Nat
  BY <1>5, CountedFinite, FS_Subset, FS_CardinalityType
<1>7. GlobalCap'
  BY <1>6, CountedFinite, SlotsAssumption DEF GlobalCap
<1>8. Holders' = Holders
  BY DEF Holders
<1>9. TokenExclusive'
  BY <1>8 DEF TokenExclusive
<1> QED
  BY <1>4, <1>7, <1>9

\* The steps that leave the counter alone keep who is counted.
LEMMA OtherStepsKeepCount ==
    ASSUME IInv, NEW a \in Attempts,
           InsertToken(a) \/ CheckAfford(a) \/ Finish(a) \/ ReleaseToken(a)
    PROVE  /\ TypeOK' /\ CounterExact' /\ GlobalCap'
<1> USE DEF IInv, TypeOK, InsertToken, CheckAfford, Finish, ReleaseToken, Goto, PCs
<1>1. Counted' = Counted /\ Winners' = Winners
  BY DEF Counted, Winners
<1>2. UNCHANGED pendingBuyCount
  OBVIOUS
<1>3. TypeOK'
  BY AttemptsAssumption
<1> QED
  BY <1>1, <1>2, <1>3 DEF CounterExact, GlobalCap

\* The set keeps naming the markets of its owners, each owner alone.
LEMMA OtherStepsKeepTokens ==
    ASSUME IInv, NEW a \in Attempts,
           InsertToken(a) \/ CheckAfford(a) \/ Finish(a) \/ ReleaseToken(a)
    PROVE  TokenExclusive'
<1> USE DEF IInv, TypeOK, TokenExclusive, Goto
<1>1. CASE InsertToken(a)
  <2>1. CASE MarketOf[a] \in tokenPendingBuy
    <3>1. Holders' = Holders /\ UNCHANGED tokenPendingBuy
      BY <1>1, <2>1 DEF Holders, InsertToken
    <3> QED
      BY <3>1
  <2>2. CASE MarketOf[a] \notin tokenPendingBuy
    <3>1. /\ Holders' = Holders \union {a}
          /\ tokenPendingBuy' = tokenPendingBuy \union {MarketOf[a]}
      BY <1>1, <2>2 DEF Holders, InsertToken
    <3> QED
      BY <3>1, <2>2
  <2> QED
    BY <2>1, <2>2
<1>2. CASE CheckAfford(a) \/ Finish(a)
  <2>1. Holders' = Holders /\ UNCHANGED tokenPendingBuy
    BY <1>2 DEF Holders, CheckAfford, Finish
  <2> QED
    BY <2>1
<1>3. CASE ReleaseToken(a)
  <2>1. /\ Holders' = Holders \ {a} /\ a \in Holders
        /\ tokenPendingBuy' = tokenPendingBuy \ {MarketOf[a]}
    BY <1>3 DEF Holders, ReleaseToken
  <2> QED
    BY <2>1
<1> QED
  BY <1>1, <1>2, <1>3

LEMMA Initially == Init => IInv
<1> SUFFICES ASSUME Init PROVE IInv
  OBVIOUS
<1>1. Counted = {} /\ Winners = {} /\ Holders = {}
  BY DEF Init, Counted, Winners, Holders
<1>2. Cardinality({}) = 0
  BY FS_EmptySet
<1>3. 0 < CounterModulus
  BY WidthAssumption, AttemptsAssumption, FS_CardinalityType
<1> QED
  BY <1>1, <1>2, <1>3, WidthAssumption, SlotsAssumption
     DEF Init, IInv, TypeOK, PCs, CounterExact, GlobalCap, TokenExclusive

LEMMA Inductive == IInv /\ [Next]_vars => IInv'
<1> SUFFICES ASSUME IInv, [Next]_vars PROVE IInv'
  OBVIOUS
<1>1. ASSUME NEW a \in Attempts, Step(a) PROVE IInv'
  <2>1. CASE FetchAdd(a)
    BY <2>1, FetchAddPreserves
  <2>2. CASE Undo(a) \/ GiveBack(a) \/ ReleaseGlobal(a)
    BY <2>2, FetchSubPreserves DEF Undo, GiveBack, ReleaseGlobal
  <2>3. CASE InsertToken(a) \/ CheckAfford(a) \/ Finish(a) \/ ReleaseToken(a)
    BY <2>3, OtherStepsKeepCount, OtherStepsKeepTokens DEF IInv
  <2> QED
    BY <1>1, <2>1, <2>2, <2>3 DEF Step
<1>2. CASE UNCHANGED vars
  BY <1>2 DEF vars, IInv, TypeOK, CounterExact, GlobalCap, TokenExclusive,
              Counted, Winners, Holders
<1> QED
  BY <1>1, <1>2 DEF Next

\* The type invariant, the exactness of the counter, the cap on concurrent buys
\* and the exclusiveness of the market slots, for every value of the constants.
THEOREM SlotsSafe == Spec => [](TypeOK /\ CounterExact /\ GlobalCap /\ TokenExclusive)
<1>1. Init => IInv
  BY Initially
<1>2. IInv /\ [Next]_vars => IInv'
  BY Inductive
<1>3. IInv => TypeOK /\ CounterExact /\ GlobalCap /\ TokenExclusive
  BY DEF IInv
<1> QED
  BY <1>1, <1>2, <1>3, PTL DEF Spec

\* The atomic counter stays in the range of its type: it never wraps, up or down.
THEOREM CounterInRange == Spec => []TypeOK
BY SlotsSafe, PTL

\* fetch_add and fetch_sub are paired on every path of evaluate_and_act and
\* try_fire: the counter is the number of attempts between the two.
THEOREM CounterIsExact == Spec => []CounterExact
BY SlotsSafe, PTL

\* Refused attempts overshoot the counter and still no more than
\* MaxConcurrentBuys attempts own a global slot.
THEOREM CapIsKept == Spec => []GlobalCap
BY SlotsSafe, PTL

\* The per-market set names the markets of its owners, one owner each.
THEOREM MarketsAreExclusive == Spec => []TokenExclusive
BY SlotsSafe, PTL
-----------------------------------------------------------------------------
\* An attempt about to fly is one winner more than those that fly already.
LEMMA RoomToFly ==
    ASSUME IInv, NEW a \in Attempts, pc[a] = "afford"
    PROVE  Cardinality(InFlight) < MaxConcurrentBuys
<1> DEFINE f == [b \in Flying |-> <<b, MarketOf[b]>>]
<1>1. Flying \union {a} \subseteq Winners /\ a \notin Flying
  BY DEF Flying, Winners
<1>2. IsFiniteSet(Flying)
  BY <1>1, CountedFinite, FS_Subset
<1>3. Cardinality(Flying) + 1 <= Cardinality(Winners)
  <2>1. Cardinality(Flying \union {a}) = Cardinality(Flying) + 1
    BY <1>1, <1>2, FS_AddElement
  <2>2. Cardinality(Flying \union {a}) <= Cardinality(Winners)
    BY <1>1, CountedFinite, FS_Subset
  <2> QED
    BY <2>1, <2>2
<1>4. IsFiniteSet(InFlight) /\ Cardinality(InFlight) <= Cardinality(Flying)
  <2>1. f \in Surjection(Flying, InFlight)
    BY DEF Surjection, InFlight
  <2> QED
    BY <2>1, <1>2, FS_Surjection
<1>5. /\ Cardinality(InFlight) \in Nat
      /\ Cardinality(Flying) \in Nat
      /\ Cardinality(Winners) \in Nat
  BY <1>2, <1>4, CountedFinite, FS_CardinalityType
<1> QED
  BY <1>3, <1>4, <1>5, SlotsAssumption DEF IInv, GlobalCap

\* Only CheckAfford and Finish change which buys are in flight: the first is an
\* Acquire of the pool, the second a Release, every other step a stutter.
LEMMA StepSimulation == IInv /\ [Next]_vars => [Pool!Next]_InFlight
<1> SUFFICES ASSUME IInv, [Next]_vars PROVE [Pool!Next]_InFlight
  OBVIOUS
<1> USE DEF IInv, TypeOK, Goto
<1>1. ASSUME NEW a \in Attempts, CheckAfford(a), pc'[a] = "flying"
      PROVE  Pool!Acquire(a, MarketOf[a])
  <2>1. pc[a] = "afford" /\ Flying' = Flying \union {a} /\ a \notin Flying
    BY <1>1 DEF CheckAfford, Flying
  <2>2. InFlight' = InFlight \union {<<a, MarketOf[a]>>}
    BY <2>1 DEF InFlight
  <2>3. \A b \in Flying : MarketOf[b] # MarketOf[a]
    <3>1. a \in Holders /\ Flying \subseteq Holders
      BY <2>1 DEF Holders, Flying
    <3> QED
      BY <3>1, <2>1 DEF TokenExclusive
  <2>4. \A other \in InFlight : other[1] # a /\ other[2] # MarketOf[a]
    BY <2>1, <2>3 DEF InFlight
  <2>5. Cardinality(InFlight) < MaxConcurrentBuys
    BY <2>1, RoomToFly
  <2> QED
    BY <2>2, <2>4, <2>5 DEF Pool!Acquire, Pool!Cardinality, Cardinality
<1>2. ASSUME NEW a \in Attempts, Finish(a)
      PROVE  Pool!Release(a, MarketOf[a])
  <2>1. Flying' = Flying \ {a} /\ a \in Flying
    BY <1>2 DEF Finish, Flying
  <2>2. InFlight' = InFlight \ {<<a, MarketOf[a]>>} /\ <<a, MarketOf[a]>> \in InFlight
    BY <2>1 DEF InFlight
  <2> QED
    BY <2>2 DEF Pool!Release
<1>3. ASSUME NEW a \in Attempts, Step(a), ~Finish(a),
             ~(CheckAfford(a) /\ pc'[a] = "flying")
      PROVE  InFlight' = InFlight
  <2>1. Flying' = Flying
    BY <1>3 DEF Step, FetchAdd, Undo, GiveBack, ReleaseGlobal, FetchSub, InsertToken,
                CheckAfford, ReleaseToken, Flying
  <2> QED
    BY <2>1 DEF InFlight
<1>4. CASE UNCHANGED vars
  BY <1>4 DEF vars, InFlight, Flying
<1>5. ASSUME NEW a \in Attempts, Step(a) PROVE [Pool!Next]_InFlight
  <2>1. MarketOf[a] \in Markets
    BY AttemptsAssumption
  <2> QED
    BY <2>1, <1>1, <1>2, <1>3, <1>5 DEF Pool!Next
<1> QED
  BY <1>4, <1>5 DEF Next

\* The atomic counter and the concurrent set implement the abstract pool: to
\* the buys that go through, taking and returning the slots looks atomic.
THEOREM SlotsImplementPool == Spec => PoolSpec
<1>1. Init => Pool!Init
  BY DEF Init, Pool!Init, InFlight, Flying
<1>2. Init => IInv
  BY Initially
<1>3. IInv /\ [Next]_vars => IInv'
  BY Inductive
<1>4. IInv /\ [Next]_vars => [Pool!Next]_InFlight
  BY StepSimulation
<1> QED
  BY <1>1, <1>2, <1>3, <1>4, PTL DEF Spec, PoolSpec, Pool!Spec
=============================================================================
