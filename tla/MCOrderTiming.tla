--------------------------- MODULE MCOrderTiming ---------------------------
\* The instance of OrderTiming that TLC checks: two tasks, the second of which
\* only a late read lets in.
EXTENDS OrderTiming

CONSTANTS t1, t2
=============================================================================
