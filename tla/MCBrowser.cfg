SPECIFICATION BrowserSpec
CONSTANTS
  i1 = i1
  i2 = i2
  b1 = b1
  b2 = b2
  w1 = w1
  None = None
  Items <- LargeAndSmall
  Small <- OneSmall
  Batches <- TwoBatches
  Dropped <- OneEach
  Workers <- OneWorker
  Chunks = 1
  MaxRetries = 1
  MaxUploads = 1
  \* Two logins of the browser, and two calls of the tab at once.
  BCSessions = {s1, s2}
  BCNone = BCNone
  Listings = {l1, l2}
  Clicks = {k1, k2}
  Tries = {a1, a2}
  Pasted = 2
  MaxCalls = 2
SYMMETRY Symmetry
INVARIANTS
  WorkIsTaken
  WorkStaysHome
  ShownIsCurrent
PROPERTY LostIsReal
\* Files, upload ids and sessions run out: the browser may stop.
CHECK_DEADLOCK FALSE
