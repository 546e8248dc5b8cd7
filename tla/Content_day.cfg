SPECIFICATION MCSpec
CONSTANTS
  None = None
  Txs = {t1, t2}
  MaxMsgs = 3
  MinMsgs = 2
  DailyImages = 2
  MaxImages = 3
  MaxLost = 1
  Runs = {r1, r2}
  EmbedLimit = 2
  EmbedBatch = 1
  MaxStored = 3
  MaxErrors = 1
INVARIANTS
  ContentInv
  CachedIsOfTheDay
  ImagesLimited
PROPERTIES
  EverythingIsEmbedded
