CONSTANTS
  MAX_COLUMNS = 4
  MAX_LINES = 2
  TAB_WIDTH = 2
  Chars = {"a", "A", "0", "1", "2"}
  Keys <- MCKeys
  Modifier = {"shift"}
  key_map <- MCKeyMap
  MaxKeys = 2
  MaxMoves = 1
  MaxQueue = 2
SPECIFICATION Spec
INVARIANTS
  TypeOK
  
  PacketsInStep
PROPERTIES
  NeverWedged
  ImplementsTeletype
CHECK_DEADLOCK FALSE
