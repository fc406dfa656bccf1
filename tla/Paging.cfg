\* Two tables of two entries; every page may be mapped anywhere.
CONSTANTS
  DIRS = 2
  ENTRIES = 2
  DirPage = 0
SPECIFICATION Spec
INVARIANTS
  
  IdentityBelow
