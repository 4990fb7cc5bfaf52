---------------------------- MODULE MCBuySlots ----------------------------
\* Four overlapping attempts: two on market m1, one on each of m2 and m3.
EXTENDS BuySlots, TLC

CONSTANTS a1, a2, a3, a4, m1, m2, m3

MCAttempts == {a1, a2, a3, a4}
MCMarkets  == {m1, m2, m3}
MCMarketOf == a1 :> m1 @@ a2 :> m1 @@ a3 :> m2 @@ a4 :> m3
=============================================================================
