SPECIFICATION FairSpec
CONSTANTS
  Workers = {w1, w2, w3}
  w1 = w1
  w2 = w2
  w3 = w3
  NTasks = 3
  Nests = {1, 3}
INVARIANTS
  TypeOK
  OneOwner
  Drained
  EnoughAwake
  NeverStuck
PROPERTIES
  Termination
