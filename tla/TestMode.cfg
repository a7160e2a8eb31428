SPECIFICATION FairSpec
CONSTANTS
  Outputs <- HeatBlowerValves
  HasDrive = TRUE
  TestTimes <- ShortAndLong
  MaxPresses = 3
  MaxModes = 2
  MaxFaults = 1
INVARIANTS OneTest UntestedRests
PROPERTIES TestEnds StopRests
