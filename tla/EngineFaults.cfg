\* One market, three orders, everything may go wrong.
\* Sales are profitable, so refunds reach below zero.
SPECIFICATION Spec
CONSTANTS
    m1 = m1
    o1 = o1
    o2 = o2
    o3 = o3
    Markets = {m1}
    Orders = {o1, o2, o3}
    Tokens <- MCTokens
    InitialPosition <- MCNoShares
    Dollar = 4
    SnipeSize = 4
    BuyPrices = {4}
    SellPrices = {6}
    MaxBudget = 8
    MaxExposure = 0
    MaxConcurrentBuys = 2
    IcebergThreshold = 20
    DryRun = FALSE
    HasClient = TRUE
    Faults = {"stop", "watchdog", "api_failure", "crash", "unseen_fill", "cancel_failure"}
SYMMETRY OrdersAlike
INVARIANTS
    TypeOK
    SlotsAccounted
    NoOrphanSlot
    SpendWithinBudget
    PendingIsAwaited
CHECK_DEADLOCK FALSE
