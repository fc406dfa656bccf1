CONSTANTS
  MMap <- SmallMap
  WORD = 64
  PAGE = 4
  NR_BLOCKS = 8
  ENTRY = 2
  Requests = {1, 4, 9}
SPECIFICATION Spec
INVARIANTS
  TypeOK
  Disjoint
  Conserved
  HeldAreUsed
  NoLeak
 
CHECK_DEADLOCK FALSE
