\* An account whose canonical ledger already exists: the lock excludes, it
\* refines the abstract mutex, and nobody waits for ever.
CONSTANTS
    Procs = {daily, executor, operator}
    NoProc = NoProc
    LedgerInitiallyExists = TRUE
SPECIFICATION FairSpec
INVARIANT MutualExclusion
PROPERTIES
    RefinesMutex
    BoundedAcquisition
