\* Stopped engines leave their tasks behind; restarted engines trade on.  The cap
\* admits the trades at 4 ticks, of one share, and not those at 2, of two.
SPECIFICATION Spec
CONSTANTS
    m1 = m1
    m2 = m2
    o1 = o1
    o2 = o2
    o3 = o3
    Markets = {m1, m2}
    Orders = {o1, o2, o3}
    Tokens <- MCTokens
    InitialPosition <- MCNoShares
    Dollar = 4
    SnipeSize = 4
    BuyPrices = {2, 4}
    SellPrices = {3}
    MaxBudget = 8
    MaxExposure = 1
    MaxConcurrentBuys = 2
    IcebergThreshold = 20
    DryRun = FALSE
    HasClient = TRUE
    Faults = {"stop"}
INVARIANTS
    OneBuyPerMarket
    YesSideCapped
PROPERTIES
    PoolSpec
CHECK_DEADLOCK FALSE
