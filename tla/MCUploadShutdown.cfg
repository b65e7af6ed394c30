\* EvictAll and the sweep against two requests on one upload of two chunks.
CONSTANTS
  Sessions = {s1}
  Uploads = {u1}
  Chunks = {c1, c2}
  Requests = {r1, r2}
  Janitors = {janitor}
  Shutdowns = {shutdown}
  None = None
  UploadMaxPending = 1
  StagingMax = 1
SPECIFICATION Spec
SYMMETRY Symmetry
PROPERTIES
  StreamStable
  ImplementsAtomicUpload
\* Sessions and upload ids run out: the system may stop.
CHECK_DEADLOCK FALSE
