CONSTANTS
    Procs = {p1, p2}
    Targets = {t1}
    NoTarget = NoTarget
    None = None
    MaxDate = 3
    MaxOrders = 1
SPECIFICATION Spec
INVARIANTS
    TypeOK
    TradesTheAccountItWasSizedOn
    ReceiptCoversExecution
    Chronological
    StagedDateCanBeRerun
PROPERTIES
    UncertainAccountIsFrozen
    CommittedEvidenceIsKept
SYMMETRY Symmetry
CHECK_DEADLOCK FALSE
