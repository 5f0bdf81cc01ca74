CONSTANTS
    Events = {e1, e2, e3}
    Junk = Junk
    MaxLines = 5
SPECIFICATION Spec
INVARIANTS
    ChainVerifies
    BookedOnce
    CertifiedIsComplete
PROPERTIES
    TerminatedRecordsStay
    RefinesAppendOnlyLedger
