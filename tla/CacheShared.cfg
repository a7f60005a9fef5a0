SPECIFICATION Spec
CONSTANTS
    w1 = w1
    w2 = w2
    Nobody = Nobody
    Workers <- TwoWorkers
    MaxAttempts = 2
    Paces <- AnyPace
    MaxRestarts = 1
INVARIANTS
    LockHeldByOne
    CacheIsWhole
    TreesStay
PROPERTIES
    EveryoneEnds
\* the batch is over when every worker is done
CHECK_DEADLOCK FALSE
