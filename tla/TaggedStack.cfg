SPECIFICATION FairSpec
CONSTANTS
  Threads = {t1, t2}
  t1 = t1
  t2 = t2
  Nodes = {a, b}
  a = a
  b = b
  NoNode = NoNode
  Empty = Empty
  Calls = 4
  Tags = 9
INVARIANTS
  TypeOK
  Linked
PROPERTIES
  ImplementsStack
  Termination
