---------------------------- MODULE MCPolyClient ----------------------------
\* The instance of PolyClient that TLC checks: an iceberg of two chunks.
EXTENDS PolyClient

CONSTANTS o1, o2, p1, c1

MCBatches == {{o1, o2}}
=============================================================================
