SPECIFICATION Spec
CONSTANTS
  None = None
  Jobs = {j1, j2}
  MaxId = 4
  There = {1}
  Deletable = {3}
  Service = {2}
  Budget = 2
  Batch = 1
  MaxCuts = 1
  MaxAborts = 0
SYMMETRY Symmetry
INVARIANTS
  RestsWithoutHole
PROPERTIES
  FinishedIsCurrent
