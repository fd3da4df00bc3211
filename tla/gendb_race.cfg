CONSTANTS
  MaxThreads = 2
  MaxEntries = 3
  MaxOld = 1
  MaxFaults = 0
  Missing = Missing
  Empty = Empty
SPECIFICATION Spec
INVARIANT KeptByThreads
CHECK_DEADLOCK FALSE
