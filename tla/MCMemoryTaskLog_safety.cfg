SPECIFICATION Spec
CONSTANTS
    Viewers = {v1, v2}
    Cap = 2
    MaxLines = 3
    MaxSteps = 2
INVARIANTS TypeOK CaughtUp
PROPERTY ImplementsLogView
CHECK_DEADLOCK FALSE
