\* One exception of the state store outside the retried part of a pull.
CONSTANTS
    t1 = t1
    t2 = t2
    t3 = t3
    Tables <- TwoTables
    Incremental = {}
    PoolSize = 1
    RetryLimit = 1
    FailureThreshold = 2
    FailureWindow = 2
    Retention = 2
    ThreadOffload = FALSE
    OnceModes <- CadenceOnly
    MaxFaults = 1
    MaxCrashes = 0
SPECIFICATION Spec
INVARIANT
    OkMeansEveryTableIsPulled
CHECK_DEADLOCK FALSE
