CONSTANTS
  Workers = {w1, w2}
  MaxUpdates = 4
  MaxFaults = 1
SPECIFICATION Spec
INVARIANTS
  TypeOK
  LoadedStored
  NothingOutlives
PROPERTIES
  WaitedStored
  Returns
CHECK_DEADLOCK FALSE
