\* A canvas of whole blocks.
CONSTANTS
  W = 4
  H = 4
  BW = 2
  BH = 2
  PITCH = 4
  Object = {o1, o2}
  Look <- SomeLooks
SPECIFICATION Spec
INVARIANTS
  CountsShown
PROPERTY ImplementsPicture
