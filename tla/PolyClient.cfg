\* Two permits for an iceberg of two chunks, a position read and a cancellation.
SPECIFICATION FairSpec
CONSTANTS
    o1 = o1
    o2 = o2
    p1 = p1
    c1 = c1
    Batches <- MCBatches
    Reads = {p1}
    Cancels = {c1}
    MaxConcurrent = 2
    MaxRetries = 2
INVARIANTS
    TypeOK
    PermitsAccounted
PROPERTIES
    OrderPromise
    OthersServed
CHECK_DEADLOCK FALSE
