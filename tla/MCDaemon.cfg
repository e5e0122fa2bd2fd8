\* Two tables, one incremental and one full refresh, share one slot; a sink or
\* state-store fault and a kill may hit any step.
CONSTANTS
    t1 = t1
    t2 = t2
    t3 = t3
    Tables <- TwoTables
    Incremental <- OneTable
    PoolSize = 1
    RetryLimit = 1
    FailureThreshold = 2
    FailureWindow = 2
    Retention = 2
    ThreadOffload = FALSE
    OnceModes <- BothModes
    MaxFaults = 1
    MaxCrashes = 1
SPECIFICATION Spec
INVARIANTS
    TypeOK
    SlotAccounting
    InFlightIsExact
    DaemonPullsOnOpenDriver
    CloseFindsDriverIdle
    StatusMatchesHistory
    OnlyLostMergesLoseRows
    OkMeansCommitted
CHECK_DEADLOCK FALSE
