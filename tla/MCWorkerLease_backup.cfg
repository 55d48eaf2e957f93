SPECIFICATION FairSpec
CONSTANTS
    Gateways = {g1}
    Workers = {w1}
    NoProc = NoProc
    TTL = 3
    RulesEvery = 2
    PollEvery = 1
    BackupEvery = 4
    Lag = 0
PROPERTY BackupRuns
