SPECIFICATION Spec
CONSTANTS
  N = 3
  W = 2
  Values <- TwoValues
  DiskFull = FALSE
  Budgets <- StopsOrCut
INVARIANTS SurvivesStops SavedIsWhole
PROPERTIES StoreSpec
