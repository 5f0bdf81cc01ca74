SPECIFICATION Spec
CONSTANTS
    api = api
    oms1 = oms1
    oms2 = oms2
    t1 = t1
    t2 = t2
    t3 = t3
    t4 = t4
    k1 = k1
    k2 = k2
    NoThread = NoThread
    Keys <- MCKeys
    Stores <- MCStores
    Threads <- MCThreads
    StoreOf <- MCStoreOf
    ClaimsOf <- MCClaimsOf
    Refreshers <- MCRefreshers
    MaxLines = 3
    MaxDeaths = 1
INVARIANT NoFalseAlarm
PROPERTY RefinesClaimOnce
CHECK_DEADLOCK FALSE
