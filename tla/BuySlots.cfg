\* The default two slots, an attempt more than the counter's width minus one.
SPECIFICATION Spec
CONSTANTS
    a1 = a1
    a2 = a2
    a3 = a3
    a4 = a4
    m1 = m1
    m2 = m2
    m3 = m3
    Attempts <- MCAttempts
    Markets  <- MCMarkets
    MarketOf <- MCMarketOf
    MaxConcurrentBuys = 2
    CounterModulus    = 5
INVARIANTS
    CounterExact
    GlobalCap
    TokenExclusive
PROPERTIES
    PoolSpec
