\* Two markets race for a budget of less than two trades; icebergs are accepted
\* and filled in part; sales are even or at a loss.  Under fairness, and without the
\* watchdog: no pending state needs it.
SPECIFICATION FairSpec
CONSTANTS
    m1 = m1
    m2 = m2
    o1 = o1
    o2 = o2
    o3 = o3
    Markets = {m1, m2}
    Orders = {o1, o2, o3}
    Tokens <- MCTokens
    InitialPosition <- MCNoShares
    Dollar = 4
    SnipeSize = 4
    BuyPrices = {2}
    SellPrices = {1, 2}
    MaxBudget = 7
    MaxExposure = 0
    MaxConcurrentBuys = 2
    IcebergThreshold = 3
    DryRun = FALSE
    HasClient = TRUE
    Faults = {}
INVARIANTS
    HoldingIsBacked
    BooksBalance
    BudgetReturned
    SpendCoversPaid
PROPERTIES
    PendingResolves
    SettlesAgain
CHECK_DEADLOCK FALSE
