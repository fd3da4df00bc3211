CONSTANTS
  MaxCores = 4
  MaxCount = 3
  AccessThreads = 2
  PostThreads = 1
  Byte = 9
  Unsigned = 18
  MaxSpawned = 10
  Ready = Ready
  Asleep = Asleep
  Ended = Ended
SPECIFICATION Spec
INVARIANTS
  TypeOK
  AnswersAsSequential
  NoCoresNoAnswer
  NothingOutlives
  LookedUpOnce
PROPERTY Returns
