\* The defaults, in half seconds; a read within half a second is in time.
SPECIFICATION Spec
CONSTANTS
    t1 = t1
    t2 = t2
    Tasks = {t1, t2}
    OrderTimeout = 10
    IcebergWindow = 2
    FillWait = 3
    WatchdogLimit = 16
    LoopWait = 10
    Cooldown = 4
    ReadTime = 1
INVARIANTS
    WatchdogSparesRunning
    QuietFeedUnlocks
PROPERTIES
    FailureRests
