SPECIFICATION FairSpec
CONSTANTS
    Gateways = {g1, g2}
    Workers = {w1}
    NoProc = NoProc
    MaxTasks = 2
    MaxSessions = 1
    MaxDowns = 1
    ReuseIds = FALSE
    DbFaults = {"poll"}
    MaxExpired = 0
PROPERTIES EveryJobSettles StopEndsWatchedJob
