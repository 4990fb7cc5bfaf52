-------------------------- MODULE MCCircuitBreaker --------------------------
\* Instances of CircuitBreaker for TLC.  The orders are interchangeable.
EXTENDS CircuitBreaker, TLC

OrdersAlike == Permutations(Orders)
=============================================================================
