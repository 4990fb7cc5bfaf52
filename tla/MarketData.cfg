\* A unit is a heartbeat and a minute; slots are of three and the cache of four.
\* 4 to 8: an opening at 6 that the heartbeat has been alive for, and prices quoted
\* more than a minute after it.
SPECIFICATION Spec
CONSTANTS
    Period = 1
    Minute = 1
    SlotLength = 3
    CacheMaxAge = 4
    Klines = 2
    MaxRetries = 2
    Opening = 4
    Horizon = 8
    MaxRadars = 2
    Quotes  <- MCQuotes
    Lefts   <- MCLefts
    Amounts <- MCAmounts
INVARIANTS
    TypeOK
    PricesAreReal
    StrikeNearOpen
CHECK_DEADLOCK FALSE
