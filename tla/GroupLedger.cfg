SPECIFICATION Spec
CONSTANTS
  Members = {1, 2, 3, 4}
  AtFirst <- SomeLeft
  Menu <- FewExpenses
  MaxWritten = 1
  MaxCalls = 2
CHECK_DEADLOCK FALSE
INVARIANT TypeOK
INVARIANT PaidLegLeavesTheRest
INVARIANT WithinACent
PROPERTY ExitSettlesWhatItSaw
PROPERTY ArchiveSettlesWhatItSaw
PROPERTY AdminLostToRaceOnly
