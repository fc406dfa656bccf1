CONSTANTS
  t1 = t1
  t2 = t2
  Task = {t1, t2}
  Byte = {0, 1}
  Size = 3
  NR_PIPE = 5
  MaxPipes = 1
  MaxCall = 2
  MaxPos = 7
SPECIFICATION Spec
CONSTRAINT Bound
VIEW View
INVARIANTS
  TypeOK
  MutexHeld
  NeverOverfull
  BufferThere
PROPERTIES
  ImplementsFifo
