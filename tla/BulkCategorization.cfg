SPECIFICATION Spec
CONSTANTS
  Expenses = {e1, e2, e3}
  Admins = {a1, a2}
  Workers = {w1, w2}
  Categories = {general, food}
  General = general
  Nothing = nothing
  Foreign = foreign
  ChunkSize = 1
  SampleSize = 1
  MaxRevision = 3
  MaxDrawn = 5
  MaxEvents = 1
SYMMETRY Symmetry
CHECK_DEADLOCK FALSE
INVARIANT TypeOK
INVARIANT ReviewIsComplete
PROPERTY CorrectionsKept
PROPERTY SavedAsSeen
