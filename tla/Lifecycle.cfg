\* Handlers, radars, rotations, lost feeds and the shutdown interleave; under
\* fairness stopping ends without the help of lost feeds, which nothing forces.
SPECIFICATION FairSpec
CONSTANTS
    k1 = k1
    k2 = k2
    e1 = e1
    e2 = e2
    r1 = r1
    Keys = {k1, k2}
    Engines = {e1, e2}
    Requests = {r1}
    LastEvent = 2
    MarketsOf <- MCDisjoint
    HttpStarts = TRUE
    StreamsFail = TRUE
INVARIANTS
    NoZombieEntry
    TradersRegistered
    OneEventTraded
PROPERTIES
    StoppedEnds
    ShutdownQuiesces
CHECK_DEADLOCK FALSE
