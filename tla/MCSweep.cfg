\* Two sweeps over the two targets in up to two days.
SPECIFICATION Spec
CONSTANTS
    Jobs <- Targets
    MaxDays = 2
    MaxSweeps = 2
    MaxDrifts = 1
    WithinTheDay = TRUE
CONSTRAINT SweepsAhead
INVARIANTS
    SweepTellsTheWorst
    

    
\* After the last sweep nothing need happen.
CHECK_DEADLOCK FALSE
