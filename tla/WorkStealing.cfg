SPECIFICATION FairSpec
CONSTANTS
  N = 2
  NTasks = 3
  Nests = {1, 2}
  NNested = 1
  IntMax = 100
INVARIANTS
  TypeOK
  OnePlace
  PendingLags
  Drained
PROPERTY Termination
