SPECIFICATION FairSpec
CONSTANTS
  MaxNow = 4
  MaxPreheat = 2
  MaxRuns <- EndsNot
  MaxSecond = 3
  FortyDays = 4
  CalTime = 1
  Starts <- Never
  Stops <- Never
  AutoResume = TRUE
  CopyAt <- Never
  Budgets <- OneCheck
PROPERTIES TimerEndsCalibration
