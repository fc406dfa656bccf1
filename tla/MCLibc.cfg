CONSTANTS
  MaxN = 4
  M = 6
  Keys = {1, 2, 3}
  Top = 4
  Word = 2
  Bytes = {0, 1}
  LastDay = 800
  Days <- MCDays
  MaxTime <- MCMaxTime
  Clocks = {11647}
  Changes <- MCChanges
  W = 4
  Radices = {8, 10, 16}
  Widths <- MCWidths
  Precisions <- MCPrecisions
  Directives <- MCDirectives
  Ints <- MCInts
  Words <- MCWords
  MaxFmt = 3
SPECIFICATION Spec
INVARIANTS
  Sorts
  Finds
  CopiesRight
  MkTimeInverts
  PrintsNumber
  ReadsBack
  StaysInText
PROPERTIES
  SearchEnds
  ImplementsAlmanac
CHECK_DEADLOCK FALSE
