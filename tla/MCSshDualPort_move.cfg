SPECIFICATION Spec
CONSTANTS
    p22 = p22
    p1 = p1
    p2 = p2
    Ports = {p22, p1, p2}
    DefaultPort = p22
    Forms <- Moves
    Odds = {}
    MaxDeploys = 3
    MaxCuts = 1
INVARIANTS NeverLockedOut VerdictIsTrue
PROPERTIES ColdStartProven
CHECK_DEADLOCK FALSE
