SPECIFICATION FairSpec
CONSTANTS
  MaxNow = 4
  MaxPreheat = 2
  MaxRuns <- SoonOrNot
  MaxSecond = 2
  FortyDays = 3
  CalTime = 1
  Starts <- StartTimes
  Stops <- StopTimes
  AutoResume = TRUE
  CopyAt <- Pauses
  Budgets <- WordsOrRestart
INVARIANTS OneMode StoppedIsOff StartedCounts CalibrationIsCold PreheatHasWindow
PROPERTIES ModesSpec PreheatEnds ClickEndsCalibration OverdueIsReset OrphanHeatEnds
