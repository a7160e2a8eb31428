SPECIFICATION Spec
CONSTANTS
  N = 2
  W = 2
  Values <- TwoValues
  DiskFull = TRUE
  Budgets <- OneWrite
INVARIANTS SavedIsWhole
CHECK_DEADLOCK FALSE
