SPECIFICATION Spec
CONSTANTS
    NumOrders = 2
    Sides = {"BUY", "SELL"}
    MaxQuantity = 2
    Prices = {1, 2}
    MaxTime = 6
    MaxBars = 2
    SessionOf <- MCSessionOf
    InitialCash = 2
    InitialLots = 1
INVARIANTS
    ExecutionsCount
    FillsAreFunded
    ChainReplays
    TradesAreBooked
    RunNeverRaises
CHECK_DEADLOCK FALSE
