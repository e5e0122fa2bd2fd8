\* One run in a fresh directory, one outage.
SPECIFICATION Spec
CONSTANTS
    BlockRows = 2
    Invocations <- PlainRuns
    Rows <- ThreeRows
    NewRow <- LateRow
    MaxRuns = 1
    MaxChanges = 0
    MaxOutages = 1
    MaxKills = 0
INVARIANT
    GreenMeansTwoPulls
CHECK_DEADLOCK FALSE
