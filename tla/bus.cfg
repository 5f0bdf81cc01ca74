SPECIFICATION FairSpec
CONSTANTS
    Events <- MCEvents
    Time <- MCTime
    MarketData <- MCMarketData
    MaxResumes = 2
INVARIANTS
    EmittedInOrder
    FrontierCovers
PROPERTY AdmittedIsEmitted
CHECK_DEADLOCK FALSE
