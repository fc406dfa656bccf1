\* A canvas that is not a whole number of blocks, as that of do_task3.
CONSTANTS
  W = 3
  H = 3
  BW = 2
  BH = 2
  PITCH = 3
  Object = {o1}
  Look <- SomeLooks
SPECIFICATION Spec
INVARIANT WithinBuffer
