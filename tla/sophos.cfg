CONSTANTS
  k1 = k1
  k2 = k2
  Keywords = {k1, k2}
  Threads = {t1, t2}
  Overflow <- MCOverflow
  MaxUpdates = 3
  MaxSessions = 1
  MaxFaults = 2
  MaxKills = 1
  None = None
SPECIFICATION Spec
SYMMETRY Symmetry
INVARIANTS
  TypeOK
  TokensContiguous
  MissedOnlyIfBroken
  AckedStored
PROPERTIES
  NeverReplaced
  ImplementsIndex
CHECK_DEADLOCK FALSE
