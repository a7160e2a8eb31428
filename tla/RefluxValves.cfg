SPECIFICATION FairSpec
CONSTANTS
  Channels <- FirstAndLast
  Cycles <- OneOrTwoCycles
  Periods <- OnePeriod
  Works <- ShortAndLong
  First <- Usual
  Delay = 1
  WordMod = 4
  MaxEvents = 2
INVARIANTS OneWater
PROPERTIES WaitsShut ValvesSettle
