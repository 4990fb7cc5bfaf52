\* The order of a rolled-back task is filled later.
SPECIFICATION Spec
CONSTANTS
    m1 = m1
    o1 = o1
    o2 = o2
    Markets = {m1}
    Orders = {o1, o2}
    Tokens <- MCTokens
    InitialPosition <- MCNoShares
    Dollar = 4
    SnipeSize = 4
    BuyPrices = {2}
    SellPrices = {1, 3}
    MaxBudget = 4
    MaxExposure = 0
    MaxConcurrentBuys = 2
    IcebergThreshold = 20
    DryRun = FALSE
    HasClient = TRUE
    Faults = {"unseen_fill"}
SYMMETRY OrdersAlike
INVARIANTS
    PaidWithinBudget
CHECK_DEADLOCK FALSE
