SPECIFICATION Calculations
CONSTANTS
  NoChat = NoChat
  Neighbors = 1
  RecentTail = 1
  TopK = 2
  ChunkSize = 8
  MaxChunks = 2
  LiveMax = 2
  SearchMax = 2
  RecentMax = 2
  RadiusMax = 1
  MaxRetries = 3
  SnapshotBatch = 3
  RateLimit = 2
  Window = 3
  Cases <- MCCases
INVARIANTS
  PromptsAreFit
  ModelCallsAreSound
  WindowsAreExact
CHECK_DEADLOCK FALSE
