\* Two runs of every fault, with one change of the source, two outages and one
\* kill.
SPECIFICATION Spec
CONSTANTS
    BlockRows = 2
    Invocations <- EveryInvocation
    Rows <- ThreeRows
    NewRow <- LateRow
    MaxRuns = 2
    MaxChanges = 1
    MaxOutages = 2
    MaxKills = 1
INVARIANTS
    BlameIsExact
    FaultsAreFound
    PassIsFromAColdServer
    ExitTellsThePack
PROPERTY
    KeepsThePromise
\* There is no third run.
CHECK_DEADLOCK FALSE
