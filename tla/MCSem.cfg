\* Two tasks, two semaphores; kmalloc may fail.
CONSTANTS
  TASK0 = TASK0
  tt1 = tt1
  tt2 = tt2
  s1 = s1
  s2 = s2
  Task = {TASK0, tt1, tt2}
  BootTasks = 2
  Sems = {s1, s2}
  SemInit <- TestInit
  Program <- TestProgram
  MayFail = {FALSE, TRUE}
  None = None
  MaxCount = 2
  MaxDrift = 40
SPECIFICATION SemSpec
CONSTRAINT Bound
INVARIANTS
  SemTypeOK
  MutexHeld
  QueueWithinCount
  
CHECK_DEADLOCK FALSE
