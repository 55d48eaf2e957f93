SPECIFICATION ChatSpec
CONSTANTS
    Convs = {c1, c2}
    NoConv = NoConv
    Readers = {r1, r2}
    NoReader = NoReader
    Deltas = 1
    Attempts = 1
    Odds = {"switch"}
    MaxAsked = 2
    MaxDrops = 2
    MaxReloads = 1
INVARIANT AnswersStayHome
CHECK_DEADLOCK FALSE
