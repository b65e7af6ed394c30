SPECIFICATION Spec
CONSTANTS
  i1 = i1
  i2 = i2
  b1 = b1
  b2 = b2
  w1 = w1
  None = None
  Items <- LargeAndSmall
  Small <- OneSmall
  Batches <- TwoBatches
  Dropped <- OneEach
  Workers <- OneWorker
  Chunks = 1
  MaxRetries = 1
  MaxUploads = 1
PROPERTY PolicyIsShown
CHECK_DEADLOCK FALSE
