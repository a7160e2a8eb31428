SPECIFICATION FairSpec
CONSTANTS
  Interval = 1
  Periods <- ShortAndLong
  MaxTests = 2
  MaxAborts = 1
  MaxEdits = 1
  MaxEdges = 3
  MaxRestarts = 1
INVARIANTS CountsTurns DrivenOneWay
PROPERTIES TurnEnds TurnsGoOn
