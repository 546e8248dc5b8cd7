SPECIFICATION LiveSpec
CONSTANTS
  Runs = {r1, r2}
  MaxId = 2
  Matching = {1, 2}
  MaxPerHour = 1
  MaxNewPerRun = 1
  LoadLimit = 2
  Day = 3
  QuietFrom = 2
  QuietTo = 1
  MaxTroubles = 1
INVARIANTS
  ReplyInv
  HourlyLimit
PROPERTIES
  AtMostOneIsDropped
  NightsAreQuiet
  CursorCatchesUp
