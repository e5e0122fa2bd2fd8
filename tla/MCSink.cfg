\* Both sinks: two processes, kills and power losses.
CONSTANTS
    p1 = p1
    p2 = p2
    f1 = f1
    f2 = f2
    Processes <- TwoProcesses
    Frames <- TwoFrames
    Sinks <- BothSinks
    MaxKills = 2
    MaxPowerLosses = 1
SPECIFICATION Spec
SYMMETRY Symmetry
INVARIANTS
    PublishedIsWhole
    ReturnedSurvives
    OnlyKillsLeaveTempfiles
