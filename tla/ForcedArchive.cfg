SPECIFICATION Spec
CONSTANTS
  Members = {1, 2, 3, 4}
  AtFirst <- SomeLeft
  Menu <- AllExpenses
  MaxWritten = 1
  MaxCalls = 1
CHECK_DEADLOCK FALSE
PROPERTY ArchiveSettles
