CONSTANTS
  Clients = {c1, c2, c3}
  None = None
  Empty = Empty
  MaxCrashes = 2
  MaxFaults = 2
SPECIFICATION Spec
SYMMETRY Symmetry
INVARIANTS
  TypeOK
  OkRestarts
  
PROPERTY OneKeyEver
CHECK_DEADLOCK FALSE
