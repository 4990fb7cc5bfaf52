\* Two engines; purchases of 15% and 20%, sales that bring the drawdown back to the limit.
SPECIFICATION Spec
CONSTANTS
    m1 = m1
    m2 = m2
    o1 = o1
    o2 = o2
    o3 = o3
    Markets = {m1, m2}
    Orders = {o1, o2, o3}
    Costs = {15, 20}
    Proceeds = {5}
    MaxTrades = 3
SYMMETRY OrdersAlike
INVARIANTS
    LateBuysBounded
    HysteresisExact
    FreezeEarned
PROPERTIES
    FrozenForGood
CHECK_DEADLOCK FALSE
