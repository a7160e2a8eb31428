SPECIFICATION Spec
CONSTANTS
  Channels <- TwoChannels
  Delay <- Delays
  Scenarios <- StoppingFan
PROPERTIES StoppedFanRings
