SPECIFICATION FairSpec
CONSTANTS
  Producers = {p1, p2}
  Consumers = {c1, c2}
  p1 = p1
  p2 = p2
  c1 = c1
  c2 = c2
  Cap = 2
  Items = 2
INVARIANTS
  TypeOK
  NoPushAfterClose
  NeverStuck
  IInv
  CountersAgree
PROPERTIES
  EndIsFinal
  Termination
  Delivers
