--------------------------- MODULE MCSniperEngine ---------------------------
\* Instances of SniperEngine for TLC.  The orders are interchangeable.
EXTENDS SniperEngine, TLC

MCTokens    == Markets \X Outcomes
MCNoShares  == [t \in MCTokens |-> 0]
OrdersAlike == Permutations(Orders)
=============================================================================
