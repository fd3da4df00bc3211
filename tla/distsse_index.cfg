CONSTANTS
  k1 = k1
  k2 = k2
  long = long
  short = short
  p1 = p1
  p2 = p2
  Keywords = {k1, k2}
  Inds = {long, short}
  ShortInds = {short}
  Prefixes = {p1, p2}
  Ind7 <- MCInd7
  None = None
  MaxCount = 2
  MaxCalls = 2
  MaxBatch = 2
  MaxStarts = 1
  MaxKills = 0
  MaxFaults = 1
SPECIFICATION FairSpec
PROPERTIES
  ImplementsIndex
  OperationsEnd
