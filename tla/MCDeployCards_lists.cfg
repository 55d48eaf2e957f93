SPECIFICATION Spec
CONSTANTS
    Tabs = {t1, t2}
    Addrs = {a1}
    Colors = {red}
    NoColor = NoColor
    NoId = NoId
    Odds = {}
    MaxTasks = 2
    MaxEvents = 2
SYMMETRY TabSymmetry
INVARIANTS TypeOK DeletedStaysHidden ShownIsStored
PROPERTIES OnlyAskedDeletes
CHECK_DEADLOCK FALSE
