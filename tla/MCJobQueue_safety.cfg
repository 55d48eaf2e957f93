SPECIFICATION Spec
CONSTANTS
    Gateways = {g1}
    Workers = {w1, w2}
    NoProc = NoProc
    MaxTasks = 2
    MaxSessions = 1
    MaxDowns = 1
    ReuseIds = TRUE
    DbFaults = {"enqueue", "payload"}
    MaxExpired = 1
SYMMETRY Roles
INVARIANTS TypeOK RunAtMostOnce PayloadIsTheTicket
PROPERTIES NoStartAfterVerdict OnlyTheReaperInterferes
