\* kmalloc never fails here: the token is lost even so.
CONSTANTS
  TASK0 = TASK0
  tt1 = tt1
  tt2 = tt2
  s1 = s1
  s2 = s2
  Task = {TASK0, tt1, tt2}
  BootTasks = 2
  Sems = {s1, s2}
  SemInit <- TestInit
  Program <- TestProgram
  MayFail = {FALSE}
  None = None
  MaxCount = 2
  MaxDrift = 40
SPECIFICATION SemSpec
CONSTRAINT Bound
INVARIANT OneToken
CHECK_DEADLOCK FALSE
