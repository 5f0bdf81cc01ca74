SPECIFICATION FairSpec
CONSTANTS
    Requests <- MCRequests
    Unquoted <- MCUnquoted
    Workers = {w1, w2}
    Limit = 1
    MaxFaults = 2
INVARIANTS
    OneOrderPerIntent
    EvidenceFirst
    WithinDailyLimit
    ReportsItsOrder
PROPERTIES
    SettledStays
    QueueDrains
CHECK_DEADLOCK FALSE
