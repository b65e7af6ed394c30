\* Liveness: one upload of one chunk, two requests and the sweep.
CONSTANTS
  Sessions = {s1}
  Uploads = {u1}
  Chunks = {c1}
  Requests = {r1, r2}
  Janitors = {janitor}
  Shutdowns = {}
  None = None
  UploadMaxPending = 1
  StagingMax = 1
SPECIFICATION FairSpec
PROPERTIES
  ClosedIsReleased
  
  
\* Sessions and upload ids run out: the system may stop.
CHECK_DEADLOCK FALSE
