\* A reservation that is admitted just before its session ends.
CONSTANTS
  Sessions = {s1}
  Uploads = {u1}
  Chunks = {c1}
  Requests = {r1, r2}
  Janitors = {janitor}
  Shutdowns = {}
  None = None
  UploadMaxPending = 1
  StagingMax = 1
SPECIFICATION Spec
INVARIANTS
  GoneMeansReleased
\* Sessions and upload ids run out: the system may stop.
CHECK_DEADLOCK FALSE
