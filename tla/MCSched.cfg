\* Three tasks at boot, as init() creates them, and a fourth one later.
CONSTANTS
  TASK0 = TASK0
  Task = {TASK0, t1, t2, t3}
  BootTasks = 2
  Patience = 6
SPECIFICATION MCSpec
INVARIANTS
  TypeOK
  ListOK
  CurrentRuns
  PriorityBounded
PROPERTIES
  BestAfterTick
  NoStarvation
  ImplementsTimeSharing
