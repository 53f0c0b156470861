SPECIFICATION FairSpec
CONSTANTS
  Library <- Examples
  Locks <- Mutexes
  Claims <- OwnerClaims
  Noticed = {}
  Racy = {}
  Programs = {"concurrent_stack"}
INVARIANTS
  NoRace
