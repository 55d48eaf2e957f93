SPECIFICATION FairSpec
CONSTANTS
    Viewers = {v1}
    Cap = 2
    Batch = 2
    MaxLines = 4
    MaxSteps = 2
    Reaped = TRUE
    MaxFaults = 1
INVARIANTS TypeOK DoneTellsTheVerdict
PROPERTIES ImplementsLogView EveryStreamEnds
CHECK_DEADLOCK FALSE
