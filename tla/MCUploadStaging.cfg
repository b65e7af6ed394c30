\* Two uploads of two chunks that compete for one unit, two requests, the expiry sweep; no
\* shutdown.
CONSTANTS
  Sessions = {s1}
  Uploads = {u1, u2}
  Chunks = {c1, c2}
  Requests = {r1, r2}
  Janitors = {janitor}
  Shutdowns = {}
  None = None
  UploadMaxPending = 2
  StagingMax = 1
SPECIFICATION Spec
SYMMETRY Symmetry
INVARIANTS
  StagedIsCharged
  BudgetExact
PROPERTIES
  AnsweredMeansStored
  UserFileSafe
  NotSevered
\* Sessions and upload ids run out: the system may stop.
CHECK_DEADLOCK FALSE
