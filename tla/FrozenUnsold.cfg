\* One purchase of a fifth of the budget.
SPECIFICATION Spec
CONSTANTS
    m1 = m1
    m2 = m2
    o1 = o1
    o2 = o2
    o3 = o3
    Markets = {m1, m2}
    Orders = {o1, o2, o3}
    Costs = {20}
    Proceeds = {25}
    MaxTrades = 2
SYMMETRY OrdersAlike
INVARIANTS
    FreezesOnLoss
CHECK_DEADLOCK FALSE
