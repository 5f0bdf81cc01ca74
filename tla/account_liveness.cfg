CONSTANTS
    Procs = {p1}
    Targets = {t1, t2}
    NoTarget = NoTarget
    None = None
    MaxDate = 2
    MaxOrders = 3
SPECIFICATION FairSpec
INVARIANT TradesCommittedTarget
PROPERTY CallsTerminate
CHECK_DEADLOCK FALSE
