SPECIFICATION Spec
CONSTANTS
  Channels <- TwoChannels
  Delay <- Delays
  Scenarios <- Heard
INVARIANTS HumidWaited QuietIsShown
PROPERTIES DelaysRun LastingAlarmsRing SilenceEnds BellStops
