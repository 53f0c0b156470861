SPECIFICATION FairSpec
CONSTANTS
  Producers = {p1, p2}
  Consumers = {c1, c2, c3}
  p1 = p1
  p2 = p2
  c1 = c1
  c2 = c2
  c3 = c3
  CAP = 2
  ITEMS_PER_PRODUCER = 2
  Patient = FALSE
INVARIANTS
  TypeOK
  EnoughAwake
  NothingLeft
PROPERTIES
  ImplementsFifo
  ProducersFinish
CHECK_DEADLOCK FALSE
