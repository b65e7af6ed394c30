SPECIFICATION FairSpec
CONSTANTS
  i1 = i1
  i2 = i2
  b1 = b1
  b2 = b2
  w1 = w1
  None = None
  Items <- OneLarge
  Small <- NoSmall
  Batches <- OneBatch
  Dropped <- JustOne
  Workers <- OneWorker
  Chunks = 2
  MaxRetries = 2
  MaxUploads = 2
INVARIANT StagedIsOwned
PROPERTIES
  CancelStops
  QueueDrains
CHECK_DEADLOCK FALSE
