SPECIFICATION Spec
CONSTANTS
    Ids = {r1}
    Nodes = {n1, n2}
    Scheduler = Scheduler
    Hooks = {h1}
    Global = Global
    NoRule = NoRule
    NoTime = NoTime
    NoMap = NoMap
    Cooldown = 2
    Interval = 1
    Odds = {}
    MaxTime = 3
    MaxEdits = 2
SYMMETRY NodeSymmetry
INVARIANTS TypeOK RulesAsSaved
PROPERTIES AlarmsOnTime
CHECK_DEADLOCK FALSE
