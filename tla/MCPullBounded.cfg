\* ClickHouse with max_rows: the first pull is a LIMIT without an ORDER BY.
CONSTANTS
    Rows <- FourRows
    Dialect = "clickhouse"
    Settings <- OneRow
    CommitsInOrder = TRUE
    MaxInterrupts = 0
    MaxUnmerged = 0
    MaxStateLosses = 0
    MaxReconfigs = 0
    MaxSwitches = 0
SPECIFICATION Spec
INVARIANT
    NoGap
CHECK_DEADLOCK FALSE
