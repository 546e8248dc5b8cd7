SPECIFICATION LiveSpec
CONSTANTS
  None = None
  Requests = {q1, q2}
  Convs = {k1}
  MaxTurns = 3
  DayLimit = 1
  MaxIter = 2
  MapCost = 3
  MaxCalls = 2
  MaxBatch = 3
  Budget = 2
  MinCut = 1
  Lengths = {2}
  Ratings = {1}
INVARIANTS
  TurnInv
  SpendingIsBounded
  RatingsStand
PROPERTIES
  TurnsEnd
CHECK_DEADLOCK FALSE
