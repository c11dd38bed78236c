CONSTANTS
  o1 = o1
  r1 = r1
  r2 = r2
  r3 = r3
  n1 = n1
  LEGACY_PAGE_SIZE = 2
  Old = {o1}
  Recent = {r1, r2, r3}
  New = {n1}
  PageSizes = {1, 2, 3}
  Parallel = {1, 2}
  MaxFailures = 1
  MaxDeletes = 1
SPECIFICATION FairSpec
INVARIANTS
  NothingAheadOfCursorIsLost
  CompleteMeansAllSent
PROPERTIES
  TaskEnds
CHECK_DEADLOCK FALSE
