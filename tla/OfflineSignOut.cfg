SPECIFICATION Spec
CONSTANTS
  Groups = {g1}
  Tabs = {t1}
  Nobody = nobody
  Gone = gone
  Removals = {0}
  MaxEvents = 1
  MaxSignOuts = 1
INVARIANT SignedOutIsEmpty
CHECK_DEADLOCK FALSE
