\* Every document, driver, sink and class of column, three pulls of a source of
\* up to two rows with one ALTER.
SPECIFICATION Spec
CONSTANTS
    Documents <- EveryDocument
    MaxRows = 2
    MaxPulls = 3
    MaxAlters = 1
INVARIANTS
    FileShowsTheTable
    ArrowKeepsNulls
    RamdbFileIsSafe
    DriftFlagIsRight
    SafeConnection
\* The engine stops at a refused document.
CHECK_DEADLOCK FALSE
