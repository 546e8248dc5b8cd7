SPECIFICATION LiveSpec
CONSTANTS
  None = None
  Callers = {q1, q2}
  MaxClients = 5
  MaxSessions = 2
  MaxCuts = 1
INVARIANTS
  PoolInv
  LoginStays
PROPERTIES
  CallsEnd
