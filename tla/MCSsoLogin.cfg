\* One link, replayed and confirmed by three requests; the clock passes its expiry.
CONSTANTS
  Tokens = {t1}
  Sessions = {s1, s2, s3}
  Requests = {p1, p2, p3}
  None = None
  Exp <- MCExp
  PendingTTL = 1
  MaxTime = 3
SPECIFICATION FairSpec
INVARIANTS
  OneSession
  SpentForgotten
PROPERTIES
  ImplementsOneTimeLogin
  PendingEnds
\* Session ids run out and the clock stops.
CHECK_DEADLOCK FALSE
