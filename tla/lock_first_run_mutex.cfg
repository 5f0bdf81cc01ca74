\* Mutual exclusion while the first session creates the ledger file.
CONSTANTS
    Procs = {daily, executor, operator}
    NoProc = NoProc
    LedgerInitiallyExists = FALSE
SPECIFICATION Spec
INVARIANT MutualExclusion
