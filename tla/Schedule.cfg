SPECIFICATION Spec
CONSTANTS
  Entries = 3
  DayTables <- EarlyAndLate
  ValTables <- Rising
  Presets <- OnePreset
  MaxHours = 2
  MaxEdits = 1
INVARIANTS HumidityFollows
