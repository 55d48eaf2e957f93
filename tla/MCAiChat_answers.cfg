SPECIFICATION FairChatSpec
CONSTANTS
    Convs = {c1, c2}
    NoConv = NoConv
    Readers = {r1}
    NoReader = NoReader
    Deltas = 1
    Attempts = 1
    Odds = {}
    MaxAsked = 2
    MaxDrops = 2
    MaxReloads = 1
INVARIANTS AnswersStayHome EachOnce ShownIsStored NothingLost
PROPERTIES BusyEnds
CHECK_DEADLOCK FALSE
