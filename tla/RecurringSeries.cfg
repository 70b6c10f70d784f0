SPECIFICATION Spec
CONSTANTS
    Workers = {w1, w2}
    Start = 2
    Anchors <- Today0
    Intervals <- Daily
    Ends <- MCEnds
    RetryLimit = 1
    MaxClock = 5
    MaxOps = 1
    NoBatch = NoBatch
    NoRun = NoRun
    NoPage = NoPage
    NoEdit = NoEdit
SYMMETRY Symmetric
INVARIANTS TypeOK CursorAgrees AnnouncedOnce NothingLeftUnsaid
PROPERTIES WrittenInOrder
CHECK_DEADLOCK FALSE
