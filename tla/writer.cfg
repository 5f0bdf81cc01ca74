SPECIFICATION WriterFairSpec
CONSTANTS
    p1 = p1
    p2 = p2
    p3 = p3
    Processes = {p1, p2, p3}
    HostOf <- MCHosts
    Stale = 2
INVARIANT SingleWriter
PROPERTY AccountIsTakenOver
