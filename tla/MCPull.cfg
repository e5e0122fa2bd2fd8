\* Postgres, bounded and not, with two interruptions, and one lost merge, loss
\* of state.db, change of max_rows; a full refresh in between and back.
CONSTANTS
    Rows <- TiedRows
    Dialect = "postgres"
    Settings <- EverySetting
    CommitsInOrder = TRUE
    MaxInterrupts = 2
    MaxUnmerged = 1
    MaxStateLosses = 1
    MaxReconfigs = 1
    MaxSwitches = 2
SPECIFICATION FairSpec
INVARIANTS
    TypeOK
    NoGap
    DuplicatesBounded
PROPERTIES
    ImplementsCopy
\* A cursor that cannot be read stops the table, once the bounds are used up.
CHECK_DEADLOCK FALSE
