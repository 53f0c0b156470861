SPECIFICATION FairSpec
CONSTANTS
  N = 2
  NTasks = 1
  Nests = {1}
  NNested = 2
  IntMax = 100
INVARIANT Drained
