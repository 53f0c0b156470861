SPECIFICATION FairSpec
CONSTANTS
  Cap = 2
  Items = 4
INVARIANTS
  TypeOK
  InOrder
  CloseCascades
PROPERTIES
  Termination
