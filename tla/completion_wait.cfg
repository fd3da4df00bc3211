CONSTANTS
  Workers = {w1, w2}
  MaxUpdates = 2
  MaxFaults = 0
SPECIFICATION Spec
PROPERTY WaitReturns
CHECK_DEADLOCK FALSE
