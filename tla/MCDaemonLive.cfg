\* Liveness: three tables share one slot, a driver that pulls in threads, no
\* fault of the sink or the state store.
CONSTANTS
    t1 = t1
    t2 = t2
    t3 = t3
    Tables <- ThreeTables
    Incremental = {}
    PoolSize = 1
    RetryLimit = 1
    FailureThreshold = 1
    FailureWindow = 1
    Retention = 1
    ThreadOffload = TRUE
    OnceModes <- BothModes
    MaxFaults = 0
    MaxCrashes = 0
SPECIFICATION FairSpec
PROPERTIES
    RunEnds
    WaitersAreServed
    TablesKeepPulling
CHECK_DEADLOCK FALSE
