-------------------------------- MODULE Sums --------------------------------
(***************************************************************************)
(* What a sum over a finite set does, for any set and any terms: the order *)
(* does not matter, it is an integer, it grows with its terms, and one     *)
(* term changes it by as much as it changes.                               *)
(*                                                                         *)
(* SumFunctionOnSet is defined by recursion over the subsets of the set.   *)
(* The induction is done with smallest counterexamples: a set of subsets   *)
(* that is not empty has a smallest member (SmallestSubset).               *)
(***************************************************************************)
EXTENDS Integers, Functions, FiniteSets, FiniteSetTheorems, WellFoundedInduction, TLAPS

\* A nonempty set of subsets of a finite set has a member that contains no other.
LEMMA SmallestSubset ==
    ASSUME NEW S, IsFiniteSet(S), NEW B, B \subseteq SUBSET S, B # {}
    PROVE  \E T \in B : \A U \in B : U \subseteq T => U = T
<1>1. IsWellFoundedOn(StrictSubsetOrdering(S), FiniteSubsetsOf(S))
    BY FS_StrictSubsetOrderingWellFounded
<1>2. B \subseteq FiniteSubsetsOf(S)
    BY FS_FiniteSubsetsOfFinite
<1>3. PICK T \in B : \A U \in B : ~ (<<U, T>> \in StrictSubsetOrdering(S))
    BY <1>1, <1>2, WFMin
<1>4. \A U \in B : U \subseteq T => U = T
    BY <1>3 DEF StrictSubsetOrdering
<1> QED BY <1>4

\* The element the library's fold takes first.
Pick(s) == CHOOSE x \in s : TRUE

\* g adds f up over every subset of S, one picked element after the other.
Adds(g, f, S) ==
    g = [s \in SUBSET S |-> IF s = {} THEN 0 ELSE f[Pick(s)] + g[s \ {Pick(s)}]]

\* The library's sum is what the function that adds f up gives for the whole set.
LEMMA SumUnfolds ==
    ASSUME NEW f, NEW S
    PROVE  SumFunctionOnSet(f, S) = (CHOOSE g : Adds(g, f, S))[S]
BY DEF SumFunctionOnSet, FoldFunctionOnSet, MapThenFoldSet, Adds, Pick

\* The picked element is one of the set.
LEMMA PickIsIn == ASSUME NEW s, s # {} PROVE Pick(s) \in s
BY DEF Pick

\* Two functions that add f up agree wherever both are defined.
LEMMA SumUnique ==
    ASSUME NEW f, NEW S, NEW T, IsFiniteSet(S), IsFiniteSet(T), NEW g, NEW h,
           Adds(g, f, S), Adds(h, f, T), NEW V \in SUBSET S, V \in SUBSET T
    PROVE  g[V] = h[V]
<1> DEFINE B == {U \in SUBSET S : U \in SUBSET T /\ g[U] # h[U]}
<1>1. SUFFICES ASSUME B # {} PROVE FALSE
    OBVIOUS
<1>2. PICK U \in B : \A W \in B : W \subseteq U => W = U
    <2>1. B \subseteq SUBSET S OBVIOUS
    <2> HIDE DEF B
    <2> QED BY <1>1, <2>1, SmallestSubset
<1>3. U \in SUBSET S /\ U \in SUBSET T /\ g[U] # h[U]
    OBVIOUS
<1>4. CASE U = {}
    BY <1>3, <1>4 DEF Adds
<1>5. CASE U # {}
    <2> DEFINE W == U \ {Pick(U)}
    <2>1. W \in SUBSET S /\ W \in SUBSET T /\ W # U /\ W \subseteq U
        BY <1>3, <1>5, PickIsIn
    <2>2. g[W] = h[W]
        BY <1>2, <2>1
    <2>3. g[U] = f[Pick(U)] + g[W]
        BY <1>3, <1>5 DEF Adds
    <2>4. h[U] = f[Pick(U)] + h[W]
        BY <1>3, <1>5 DEF Adds
    <2> QED BY <1>3, <2>2, <2>3, <2>4
<1> QED BY <1>4, <1>5

\* There is a function that adds f up, so the recursion is well defined.
LEMMA SumExists ==
    ASSUME NEW f, NEW S, IsFiniteSet(S)
    PROVE  \E g : Adds(g, f, S)
<1> DEFINE B == {U \in SUBSET S : ~ \E g : Adds(g, f, U)}
<1>1. SUFFICES ASSUME B # {} PROVE FALSE
    OBVIOUS
<1>2. PICK T \in B : \A U \in B : U \subseteq T => U = T
    <2>1. B \subseteq SUBSET S OBVIOUS
    <2> HIDE DEF B
    <2> QED BY <1>1, <2>1, SmallestSubset
<1>3. T \in SUBSET S /\ IsFiniteSet(T) /\ ~ \E g : Adds(g, f, T)
    BY FS_Subset
<1> DEFINE G(U) == CHOOSE g : Adds(g, f, U)
<1>4. ASSUME NEW U \in SUBSET T, U # T PROVE Adds(G(U), f, U)
    <2>1. \E g : Adds(g, f, U)
        BY <1>2, <1>3, <1>4
    <2> QED BY <2>1
<1> DEFINE Rest(s) == s \ {Pick(s)}
           h == [s \in SUBSET T |-> IF s = {} THEN 0 ELSE f[Pick(s)] + G(Rest(s))[Rest(s)]]
<1>5. ASSUME NEW s \in SUBSET T, s # {} PROVE h[Rest(s)] = G(Rest(s))[Rest(s)]
    <2> DEFINE U == Rest(s)
    <2>1. U \in SUBSET T /\ U # T
        BY <1>5, PickIsIn
    <2>2. Adds(G(U), f, U)
        BY <2>1, <1>4
    <2>3. CASE U = {}
        <3>1. G(U)[U] = 0
            BY <2>2, <2>3 DEF Adds
        <3>2. h[U] = 0
            BY <2>3
        <3> QED BY <3>1, <3>2
    <2>4. CASE U # {}
        <3> DEFINE V == Rest(U)
        <3>1. V \in SUBSET T /\ V # T /\ V \in SUBSET U
            BY <2>1
        <3>2. Adds(G(V), f, V)
            BY <3>1, <1>4
        <3>3. G(U)[U] = f[Pick(U)] + G(U)[V]
            <4> HIDE DEF G
            <4> QED BY <2>2, <2>4 DEF Adds
        <3>4. h[U] = f[Pick(U)] + G(V)[V]
            <4> HIDE DEF G
            <4> QED BY <2>1, <2>4
        <3>5. IsFiniteSet(U) /\ IsFiniteSet(V)
            BY <1>3, <2>1, <3>1, FS_Subset
        <3>6. G(U)[V] = G(V)[V]
            <4> HIDE DEF G, V
            <4>1. V \in SUBSET V OBVIOUS
            <4> QED BY <2>2, <3>1, <3>2, <3>5, <4>1, SumUnique
        <3> QED BY <3>3, <3>4, <3>6
    <2> QED BY <2>3, <2>4
<1>6. Adds(h, f, T)
    <2>1. h = [s \in SUBSET T |-> IF s = {} THEN 0 ELSE f[Pick(s)] + h[Rest(s)]]
        <3> HIDE DEF G
        <3>1. \A s \in SUBSET T : h[s] = IF s = {} THEN 0 ELSE f[Pick(s)] + h[Rest(s)]
            <4> TAKE s \in SUBSET T
            <4>1. h[s] = IF s = {} THEN 0 ELSE f[Pick(s)] + G(Rest(s))[Rest(s)]
                OBVIOUS
            <4> QED BY <4>1, <1>5
        <3>2. h = [s \in SUBSET T |-> h[s]]
            OBVIOUS
        <3> HIDE DEF h
        <3> QED BY <3>1, <3>2
    <2> HIDE DEF h
    <2> QED BY <2>1 DEF Adds
<1> QED BY <1>3, <1>6

\* One function gives the sums over all subsets.
LEMMA SumAdds ==
    ASSUME NEW f, NEW S, IsFiniteSet(S)
    PROVE  \E g : Adds(g, f, S) /\ \A T \in SUBSET S : SumFunctionOnSet(f, T) = g[T]
<1>1. PICK g : Adds(g, f, S)
    BY SumExists
<1>2. ASSUME NEW T \in SUBSET S PROVE SumFunctionOnSet(f, T) = g[T]
    <2> DEFINE h == CHOOSE h : Adds(h, f, T)
    <2>1. IsFiniteSet(T)
        BY FS_Subset
    <2>2. Adds(h, f, T)
        BY <2>1, SumExists
    <2>3. SumFunctionOnSet(f, T) = h[T]
        BY SumUnfolds
    <2>4. T \in SUBSET T
        OBVIOUS
    <2> HIDE DEF h
    <2> QED BY <1>1, <2>1, <2>2, <2>3, <2>4, SumUnique
<1> QED BY <1>1, <1>2

\* The sum of no terms.
LEMMA SumEmpty == ASSUME NEW f PROVE SumFunctionOnSet(f, {}) = 0
<1>1. PICK g : Adds(g, f, {}) /\ SumFunctionOnSet(f, {}) = g[{}]
    BY FS_EmptySet, SumAdds
<1> QED BY <1>1 DEF Adds

\* The equation of the recursion.
LEMMA SumPick ==
    ASSUME NEW f, NEW S, IsFiniteSet(S), S # {}
    PROVE  SumFunctionOnSet(f, S) = f[Pick(S)] + SumFunctionOnSet(f, S \ {Pick(S)})
<1>1. PICK g : Adds(g, f, S) /\ \A T \in SUBSET S : SumFunctionOnSet(f, T) = g[T]
    BY SumAdds
<1>2. SumFunctionOnSet(f, S) = g[S] /\ SumFunctionOnSet(f, S \ {Pick(S)}) = g[S \ {Pick(S)}]
    BY <1>1
<1>3. g[S] = f[Pick(S)] + g[S \ {Pick(S)}]
    BY <1>1 DEF Adds
<1> QED BY <1>2, <1>3

\* A sum of integers is an integer.
LEMMA SumType ==
    ASSUME NEW f, NEW S, IsFiniteSet(S), \A x \in S : f[x] \in Int
    PROVE  SumFunctionOnSet(f, S) \in Int
<1> DEFINE B == {U \in SUBSET S : SumFunctionOnSet(f, U) \notin Int}
<1>1. SUFFICES ASSUME B # {} PROVE FALSE
    OBVIOUS
<1>2. PICK T \in B : \A U \in B : U \subseteq T => U = T
    <2>1. B \subseteq SUBSET S OBVIOUS
    <2> HIDE DEF B
    <2> QED BY <1>1, <2>1, SmallestSubset
<1>3. T \in SUBSET S /\ IsFiniteSet(T) /\ SumFunctionOnSet(f, T) \notin Int
    BY FS_Subset
<1>4. T # {}
    BY <1>3, SumEmpty
<1> DEFINE U == T \ {Pick(T)}
<1>5. Pick(T) \in T /\ U \in SUBSET S /\ U \subseteq T /\ U # T
    BY <1>3, <1>4, PickIsIn
<1>6. SumFunctionOnSet(f, U) \in Int
    BY <1>2, <1>5
<1>7. SumFunctionOnSet(f, T) = f[Pick(T)] + SumFunctionOnSet(f, U)
    BY <1>3, <1>4, SumPick
<1>8. f[Pick(T)] \in Int
    BY <1>5, <1>3
<1> QED BY <1>3, <1>6, <1>7, <1>8

\* The order does not matter: any element can be added last.
LEMMA SumRemove ==
    ASSUME NEW f, NEW S, IsFiniteSet(S), \A x \in S : f[x] \in Int, NEW y \in S
    PROVE  SumFunctionOnSet(f, S) = f[y] + SumFunctionOnSet(f, S \ {y})
<1> DEFINE Bad(U) == \E x \in U : SumFunctionOnSet(f, U) # f[x] + SumFunctionOnSet(f, U \ {x})
           B == {U \in SUBSET S : Bad(U)}
<1>1. SUFFICES ASSUME B # {} PROVE FALSE
    OBVIOUS
<1>2. PICK T \in B : \A U \in B : U \subseteq T => U = T
    <2>1. B \subseteq SUBSET S OBVIOUS
    <2> HIDE DEF B
    <2> QED BY <1>1, <2>1, SmallestSubset
<1>3. T \in SUBSET S /\ IsFiniteSet(T) /\ Bad(T)
    BY FS_Subset
<1>4. PICK x \in T : SumFunctionOnSet(f, T) # f[x] + SumFunctionOnSet(f, T \ {x})
    BY <1>3
<1> DEFINE c == Pick(T)
           C == T \ {c}
           X == T \ {x}
           R == T \ {c, x}
<1>5. c \in T
    BY <1>4, PickIsIn
<1>6. SumFunctionOnSet(f, T) = f[c] + SumFunctionOnSet(f, C)
    BY <1>3, <1>4, SumPick
<1>7. x # c
    BY <1>4, <1>6
<1>8. SumFunctionOnSet(f, C) = f[x] + SumFunctionOnSet(f, R)
    <2>1. C \in SUBSET S /\ C \subseteq T /\ C # T /\ x \in C /\ C \ {x} = R
        BY <1>3, <1>4, <1>5, <1>7
    <2>2. ~ Bad(C)
        BY <1>2, <2>1
    <2> HIDE DEF C, R
    <2> QED BY <2>1, <2>2
<1>9. SumFunctionOnSet(f, X) = f[c] + SumFunctionOnSet(f, R)
    <2>1. X \in SUBSET S /\ X \subseteq T /\ X # T /\ c \in X /\ X \ {c} = R
        BY <1>3, <1>4, <1>5, <1>7
    <2>2. ~ Bad(X)
        BY <1>2, <2>1
    <2> HIDE DEF X, R, c
    <2> QED BY <2>1, <2>2
<1>10. IsFiniteSet(R) /\ f[x] \in Int /\ f[c] \in Int /\ \A r \in R : f[r] \in Int
    BY <1>3, <1>4, <1>5, FS_Subset
<1>11. SumFunctionOnSet(f, R) \in Int
    BY <1>10, SumType
<1> HIDE DEF C, X, R, c
<1> QED BY <1>4, <1>6, <1>8, <1>9, <1>10, <1>11 DEF X

\* Sums are compared element by element.
LEMMA SumMonotonic ==
    ASSUME NEW f, NEW g, NEW S, IsFiniteSet(S),
           \A x \in S : f[x] \in Int /\ g[x] \in Int /\ f[x] <= g[x]
    PROVE  SumFunctionOnSet(f, S) <= SumFunctionOnSet(g, S)
<1> DEFINE B == {U \in SUBSET S : ~ (SumFunctionOnSet(f, U) <= SumFunctionOnSet(g, U))}
<1>1. SUFFICES ASSUME B # {} PROVE FALSE
    OBVIOUS
<1>2. PICK T \in B : \A U \in B : U \subseteq T => U = T
    <2>1. B \subseteq SUBSET S OBVIOUS
    <2> HIDE DEF B
    <2> QED BY <1>1, <2>1, SmallestSubset
<1>3. T \in SUBSET S /\ IsFiniteSet(T) /\ ~ (SumFunctionOnSet(f, T) <= SumFunctionOnSet(g, T))
    BY FS_Subset
<1>4. T # {}
    BY <1>3, SumEmpty
<1> DEFINE c == Pick(T)
           U == T \ {c}
<1>5. c \in T /\ U \in SUBSET S /\ U \subseteq T /\ U # T /\ IsFiniteSet(U)
    BY <1>3, <1>4, PickIsIn, FS_Subset
<1>6. SumFunctionOnSet(f, U) <= SumFunctionOnSet(g, U)
    BY <1>2, <1>5
<1>7. /\ SumFunctionOnSet(f, T) = f[c] + SumFunctionOnSet(f, U)
      /\ SumFunctionOnSet(g, T) = g[c] + SumFunctionOnSet(g, U)
    BY <1>3, <1>4, SumPick
<1>8. f[c] \in Int /\ g[c] \in Int /\ f[c] <= g[c]
    BY <1>5, <1>3
<1>9. SumFunctionOnSet(f, U) \in Int /\ SumFunctionOnSet(g, U) \in Int
    BY <1>5, SumType
<1> HIDE DEF c, U
<1> QED BY <1>3, <1>6, <1>7, <1>8, <1>9

\* Equal terms have equal sums.
LEMMA SumSame ==
    ASSUME NEW f, NEW g, NEW S, IsFiniteSet(S),
           \A x \in S : f[x] \in Int /\ g[x] = f[x]
    PROVE  SumFunctionOnSet(g, S) = SumFunctionOnSet(f, S)
<1>1. SumFunctionOnSet(f, S) <= SumFunctionOnSet(g, S)
    BY SumMonotonic
<1>2. SumFunctionOnSet(g, S) <= SumFunctionOnSet(f, S)
    BY SumMonotonic
<1>3. SumFunctionOnSet(f, S) \in Int /\ SumFunctionOnSet(g, S) \in Int
    BY SumType
<1> QED BY <1>1, <1>2, <1>3

\* Changing one element changes the sum by as much.
LEMMA SumChange ==
    ASSUME NEW f, NEW g, NEW S, IsFiniteSet(S), NEW y \in S,
           \A x \in S : f[x] \in Int /\ g[x] \in Int,
           \A x \in S \ {y} : g[x] = f[x]
    PROVE  SumFunctionOnSet(g, S) = SumFunctionOnSet(f, S) + g[y] - f[y]
<1> DEFINE R == S \ {y}
<1>1. IsFiniteSet(R)
    BY FS_Subset
<1>2. /\ SumFunctionOnSet(f, S) = f[y] + SumFunctionOnSet(f, R)
      /\ SumFunctionOnSet(g, S) = g[y] + SumFunctionOnSet(g, R)
    BY SumRemove
<1>3. SumFunctionOnSet(g, R) = SumFunctionOnSet(f, R) /\ SumFunctionOnSet(f, R) \in Int
    BY <1>1, SumSame, SumType
<1> HIDE DEF R
<1> QED BY <1>2, <1>3

\* A sum of naturals is at least each of them.
LEMMA SumNat ==
    ASSUME NEW f, NEW S, IsFiniteSet(S), \A x \in S : f[x] \in Nat
    PROVE  /\ SumFunctionOnSet(f, S) \in Nat
           /\ \A x \in S : f[x] <= SumFunctionOnSet(f, S)
<1> DEFINE z == [x \in S |-> 0]
<1>0. ASSUME NEW T \in SUBSET S PROVE SumFunctionOnSet(f, T) \in Nat
    <2>1. IsFiniteSet(T) /\ \A x \in T : z[x] = 0 /\ z[x] \in Int
        BY FS_Subset
    <2> DEFINE B == {U \in SUBSET T : SumFunctionOnSet(f, U) \notin Nat}
    <2>2. SUFFICES ASSUME B # {} PROVE FALSE
        OBVIOUS
    <2>3. PICK U \in B : \A W \in B : W \subseteq U => W = U
        <3>1. B \subseteq SUBSET T OBVIOUS
        <3> HIDE DEF B
        <3> QED BY <2>1, <2>2, <3>1, SmallestSubset
    <2>4. U \in SUBSET T /\ IsFiniteSet(U) /\ SumFunctionOnSet(f, U) \notin Nat
        BY <2>1, FS_Subset
    <2>5. U # {}
        BY <2>4, SumEmpty
    <2>6. Pick(U) \in U /\ f[Pick(U)] \in Nat
        BY <2>4, <2>5, PickIsIn
    <2>7. SumFunctionOnSet(f, U) = f[Pick(U)] + SumFunctionOnSet(f, U \ {Pick(U)})
        BY <2>4, <2>5, SumPick
    <2>8. SumFunctionOnSet(f, U \ {Pick(U)}) \in Nat
        BY <2>3, <2>4, <2>6
    <2> QED BY <2>4, <2>6, <2>7, <2>8
<1>1. SumFunctionOnSet(f, S) \in Nat
    BY <1>0
<1>2. ASSUME NEW x \in S PROVE f[x] <= SumFunctionOnSet(f, S)
    <2>1. SumFunctionOnSet(f, S) = f[x] + SumFunctionOnSet(f, S \ {x})
        BY SumRemove
    <2>2. SumFunctionOnSet(f, S \ {x}) \in Nat
        BY <1>0
    <2> QED BY <2>1, <2>2
<1> QED BY <1>1, <1>2

\* Nothing adds up to nothing.
LEMMA SumZero ==
    ASSUME NEW f, NEW S, IsFiniteSet(S), \A x \in S : f[x] = 0
    PROVE  SumFunctionOnSet(f, S) = 0
<1> DEFINE B == {U \in SUBSET S : SumFunctionOnSet(f, U) # 0}
<1>1. SUFFICES ASSUME B # {} PROVE FALSE
    OBVIOUS
<1>2. PICK U \in B : \A W \in B : W \subseteq U => W = U
    <2>1. B \subseteq SUBSET S OBVIOUS
    <2> HIDE DEF B
    <2> QED BY <1>1, <2>1, SmallestSubset
<1>3. U \in SUBSET S /\ IsFiniteSet(U) /\ SumFunctionOnSet(f, U) # 0
    BY FS_Subset
<1>4. U # {}
    BY <1>3, SumEmpty
<1>5. Pick(U) \in U /\ f[Pick(U)] = 0
    BY <1>3, <1>4, PickIsIn
<1>6. SumFunctionOnSet(f, U) = f[Pick(U)] + SumFunctionOnSet(f, U \ {Pick(U)})
    BY <1>3, <1>4, SumPick
<1>7. SumFunctionOnSet(f, U \ {Pick(U)}) = 0
    BY <1>2, <1>3, <1>5
<1> QED BY <1>3, <1>5, <1>6, <1>7
==============================================================================
