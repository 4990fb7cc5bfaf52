---------------------------- MODULE MCMarketData ----------------------------
\* Instances of MarketData for TLC, and of Pricing.
EXTENDS MarketData, Pricing

MCQuotes  == {0, 1, 2, 5, 199, 200, 205, 990, 995, 1000, 1005, 1010, 1795, 1800, 1801, 1840, 1995, 2000}
MCLefts   == {0, 1, 299, 300}
MCAmounts == 0..3000

\* The properties of a decision have no state: TLC evaluates them before the run.
ASSUME DecisionsSound == ChunksInBounds /\ BetterSideBought /\ RoundTripRefused
=============================================================================
