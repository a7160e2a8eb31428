SPECIFICATION Spec
CONSTANTS
  Alarmed = 2
  Wrap = 3
  Freqs <- TwoFreqs
  MaxChanges = 2
  MaxDelays = 2
  MaxRestarts = 1
INVARIANTS FaultIsPending LostAfterFails
PROPERTIES DriveSpec MotorObeys LossIsShown
