SPECIFICATION FairSpec
CONSTANTS
  MaxKey = 1
  Payloads = {p, q}
  NoPayload = none
  Calls = {c1, c2, c3}
  Callers = {create, tabA, tabB}
  Nobody = nobody
  Form = create
  Flushes = {tabA, tabB}
  FormTab = tabA
  MaxFaults = 2
  Retries = 1
INVARIANT TypeOK
INVARIANT NothingLost
PROPERTY PostsOnceAbstract
CHECK_DEADLOCK FALSE
PROPERTY RowsSettle
