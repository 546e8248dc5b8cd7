SPECIFICATION LiveSpec
CONSTANTS
  None = None
  Account = account
  Chats = {c1, c2}
  MaxChats = 2
  MaxJobs = 2
  KeepResult = 1
  Waits = {1, 2}
  MaxDelay = 1
  MaxFloods = 1
  MaxDeaths = 2
  MaxAborts = 1
INVARIANTS
  JobsInv
PROPERTIES
  RetryWaits
  EveryChatIsSynced
