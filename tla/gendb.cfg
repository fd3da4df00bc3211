CONSTANTS
  MaxThreads = 3
  MaxEntries = 3
  MaxOld = 1
  MaxFaults = 1
  Missing = Missing
  Empty = Empty
SPECIFICATION Spec
INVARIANTS
  TypeOK
  CounterNamesALabel
  NoHoles
  SharesAddUp
  KeptByOneThread
PROPERTY Returns
CHECK_DEADLOCK FALSE
