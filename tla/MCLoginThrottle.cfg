\* Two logins over two accounts and two addresses; the map holds three keys.
CONSTANTS
  Accounts = {a1, a2}
  IPs = {i1, i2}
  Attempts = {p1, p2}
  None = None
  MaxAttempts = 2
  Cooldown = 1
  MaxEntries = 3
  MaxTime = 3
SPECIFICATION Spec
SYMMETRY Symmetry
INVARIANTS
  StreakBounded
  BurstBounded
  EntriesBounded
  LockoutEnds
\* The clock stops at MaxTime.
CHECK_DEADLOCK FALSE
