SPECIFICATION Spec
CONSTANTS
  c1 = c1
  c2 = c2
  None = None
  Actions = {a1}
  Txs = {t1}
  Chats = {c1}
  AccountOf <- MCAccountOf
  Postable = {c1}
  ProtectedSets <- MCUnprotected
  DefaultMode = "write_with_confirm"
  RatePerHour = 1
  TTL = 1
  MaxTime = 2
  MaxAsked = 1
INVARIANTS
  OutcomeIsRecorded
