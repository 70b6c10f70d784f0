SPECIFICATION FairSpec
CONSTANTS
    Workers = {w1}
    Start = 2
    Anchors <- Today0
    Intervals <- EveryOneOrTwo
    Ends <- MCShortEnds
    RetryLimit = 1
    MaxClock = 4
    MaxOps = 3
    NoBatch = NoBatch
    NoRun = NoRun
    NoPage = NoPage
    NoEdit = NoEdit
INVARIANTS EndRespected EditReachesAll
PROPERTIES ImplementsLog DueIsWritten PausedIsResumed
CHECK_DEADLOCK FALSE
