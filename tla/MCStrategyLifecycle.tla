------------------------ MODULE MCStrategyLifecycle ------------------------
\* Instances of StrategyLifecycle for TLC.
EXTENDS StrategyLifecycle, TLC

CONSTANTS k1, k2

\* Every event has markets of its own.
MCDisjoint == 1 :> {k1} @@ 2 :> {k2}
\* One market, in one event.
MCOneMarket == 1 :> {k1}

EnginesAlike == Permutations(Engines)
=============================================================================
