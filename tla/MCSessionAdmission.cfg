\* Three logins from two addresses; room for two sessions, one per address.
CONSTANTS
  Sessions = {s1, s2, s3}
  IPs = {i1, i2}
  Requests = {p1, p2, p3}
  None = None
  MaxSessions = 2
  MaxSessionsPerIP = 1
  MaxConnecting = 2
  MaxConnectingPerIP = 2
SPECIFICATION Spec
SYMMETRY Symmetry
INVARIANTS
  SlotsExact
  SessionsBounded
  AddressBounded
\* Session ids run out: the system may stop.
CHECK_DEADLOCK FALSE
