SPECIFICATION Spec
CONSTANTS
  Groups = {g1}
  Tabs = {t1, t2}
  Nobody = nobody
  Gone = gone
  Removals = {1}
  MaxEvents = 2
  MaxSignOuts = 1
SYMMETRY TabSymmetry
INVARIANT TypeOK
INVARIANT ReadYourWrites
INVARIANT NothingFromBefore
PROPERTY NewestStays
CHECK_DEADLOCK FALSE
