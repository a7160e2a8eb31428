SPECIFICATION FairSpec
CONSTANTS
  Travel = 2
  MaxLen = 1
  TimeOpen = 1
  TimeClose = 2
  TestTime = 2
  WordMod = 8
  HumidOpening = 1
  Setpoints <- OneOpening
  FanCases <- FanRunsOrMayStop
  MaxCommands = 2
  MaxChecks = 1
  MaxModes = 1
INVARIANTS TypeOK OneCountdown StoppedIsStill
PROPERTIES BreakBeforeMake CheckEnds
