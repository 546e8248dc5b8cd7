SPECIFICATION LiveSpec
CONSTANTS
  None = None
  Jobs = {j1}
  MaxId = 5
  There = {1, 2, 3}
  Deletable = {1, 2, 3}
  Service = {2}
  Budget = 2
  Batch = 1
  MaxCuts = 2
  MaxAborts = 1
INVARIANTS
  SyncInv
PROPERTIES
  HistoryArrives
