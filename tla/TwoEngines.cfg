\* A leaving engine removes its successor's entry.
SPECIFICATION Spec
CONSTANTS
    k1 = k1
    k2 = k2
    e1 = e1
    e2 = e2
    e3 = e3
    r1 = r1
    Keys = {k1}
    Engines = {e1, e2, e3}
    Requests = {}
    LastEvent = 1
    MarketsOf <- MCOneMarket
    HttpStarts = TRUE
    StreamsFail = FALSE
SYMMETRY EnginesAlike
INVARIANTS
    OneEnginePerMarket
CHECK_DEADLOCK FALSE
