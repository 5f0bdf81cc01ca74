SPECIFICATION FairSpec
CONSTANTS
    MaxJobs = 2
    MaxDisturbances = 4
    MaxWhenRetried = 2
INVARIANTS
    EndedMeansStopped
    SucceededWrote
PROPERTIES
    FinishedIsFinal
    JobsEnd
    CancellationEnds
CHECK_DEADLOCK FALSE
