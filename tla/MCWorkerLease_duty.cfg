SPECIFICATION FairSpec
CONSTANTS
    Gateways = {g1, g2}
    Workers = {w1}
    NoProc = NoProc
    TTL = 3
    RulesEvery = 2
    PollEvery = 1
    BackupEvery = 4
    Lag = 1
INVARIANTS TypeOK HolderNeverLapses TakeoverInTime
PROPERTIES GatewayYields DutiesRun
