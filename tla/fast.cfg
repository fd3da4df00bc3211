CONSTANTS
  Keywords = {k1, k2}
  Threads = {t1, t2}
  MaxUpdates = 3
  MaxFaults = 1
  MaxKills = 1
  None = None
SPECIFICATION Spec
SYMMETRY Symmetry
INVARIANTS
  TypeOK
  AckedStored
PROPERTY ImplementsIndex
CHECK_DEADLOCK FALSE
