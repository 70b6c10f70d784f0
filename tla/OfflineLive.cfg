SPECIFICATION FairSpec
CONSTANTS
  Groups = {g1, g2}
  Tabs = {t1, t2}
  Nobody = nobody
  Gone = gone
  Removals = {0}
  MaxEvents = 2
  MaxSignOuts = 0
CHECK_DEADLOCK FALSE
PROPERTY DirtyIsRefreshed
