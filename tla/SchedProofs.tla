---------------------------- MODULE SchedProofs ----------------------------
(***************************************************************************)
(* Proofs about Sched, for every set of tasks and every number of tasks    *)
(* created at boot, and about what MCSched adds to it; the shortest waits  *)
(* are those of the three tasks that the system deploys.                   *)
(***************************************************************************)
EXTENDS MCSched, FiniteSetTheorems, SequenceTheorems, TLAPS

----------------------------------------------------------------------------
(* Sequences *)

\* Inserting keeps the elements in order and makes room at position k.
LEMMA InsertAtProperties ==
  ASSUME NEW S, NEW s \in Seq(S), NEW k \in 1 .. Len(s) + 1, NEW e \in S
  PROVE  /\ InsertAt(s, k, e) \in Seq(S)
         /\ Len(InsertAt(s, k, e)) = Len(s) + 1
         /\ \A j \in 1 .. Len(s) + 1 :
              InsertAt(s, k, e)[j] =
                IF j < k THEN s[j] ELSE IF j = k THEN e ELSE s[j - 1]
<1> DEFINE front == SubSeq(s, 1, k - 1)
           back  == SubSeq(s, k, Len(s))
           left  == front \o <<e>>
<1>1. /\ front \in Seq(S)
      /\ Len(front) = k - 1
      /\ \A j \in 1 .. k - 1 : front[j] = s[j]
  BY SubSeqProperties
<1>2. /\ back \in Seq(S)
      /\ Len(back) = Len(s) - k + 1
      /\ \A j \in 1 .. Len(s) - k + 1 : back[j] = s[k + j - 1]
  BY SubSeqProperties
<1>3. <<e>> \in Seq(S) /\ Len(<<e>>) = 1 /\ <<e>>[1] = e
  OBVIOUS
<1> HIDE DEF front, back
<1>4. /\ left \in Seq(S)
      /\ Len(left) = k
      /\ \A j \in 1 .. k : left[j] = IF j <= k - 1 THEN front[j] ELSE <<e>>[j - (k - 1)]
  BY <1>1, <1>3, ConcatProperties
<1> HIDE DEF left
<1>5. /\ left \o back \in Seq(S)
      /\ Len(left \o back) = Len(left) + Len(back)
      /\ \A j \in 1 .. Len(left) + Len(back) :
           (left \o back)[j] = IF j <= Len(left) THEN left[j] ELSE back[j - Len(left)]
  BY <1>2, <1>4, ConcatProperties
<1>6. Len(s) \in Nat /\ k \in Int /\ Len(left) + Len(back) = Len(s) + 1
  BY <1>2, <1>4
<1>7. InsertAt(s, k, e) = left \o back
  BY DEF InsertAt, left, front, back
<1>8. ASSUME NEW j \in 1 .. Len(s) + 1
      PROVE  (left \o back)[j] = IF j < k THEN s[j] ELSE IF j = k THEN e ELSE s[j - 1]
  <2>1. (left \o back)[j] = IF j <= k THEN left[j] ELSE back[j - k]
    BY <1>4, <1>5, <1>6
  <2>2. CASE j < k
    BY <1>1, <1>4, <1>6, <2>1, <2>2
  <2>3. CASE j = k
    BY <1>3, <1>4, <1>6, <2>1, <2>3
  <2>4. CASE j > k
    <3>1. j - k \in 1 .. Len(s) - k + 1
      BY <1>6, <2>4
    <3>2. back[j - k] = s[j - 1]
      BY <1>2, <1>6, <3>1
    <3>3. QED
      BY <1>6, <2>1, <2>4, <3>2
  <2>5. QED
    BY <1>6, <2>2, <2>3, <2>4
<1>. QED
  BY <1>5, <1>6, <1>7, <1>8

----------------------------------------------------------------------------
(* The inductive invariant *)

SchedInv == TypeOK /\ ListOK /\ CurrentRuns

\* current is RUNNING, never SLEEP, so scheduler() works in its own name.
LEMMA BaseIsCurrent ==
  ASSUME SchedInv
  PROVE  Base = current /\ current \in Linked /\ Linked \subseteq Task
<1>1. state[current] = TS_RUNNING
  BY DEF SchedInv, TypeOK, CurrentRuns
<1>2. Base = current
  BY <1>1 DEF Base, TS_RUNNING, TS_SLEEP
<1>3. Linked \subseteq Task
  BY DEF SchedInv, TypeOK, Linked, ToSet
<1>4. current \in Linked
  BY DEF SchedInv, CurrentRuns
<1>5. QED
  BY <1>2, <1>3, <1>4

\* Whatever scheduler() picks, exactly the picked task is RUNNING afterwards.
LEMMA SchedulerKeeps ==
  ASSUME SchedInv, NEW prio, Scheduler(prio)
  PROVE  /\ state' \in [Task -> 0 .. 4]
         /\ current' \in Linked
         /\ cpu' = current'
         /\ \A v \in Task : state'[v] = TS_RUNNING <=> v = cpu'
<1> USE BaseIsCurrent
<1>1. CASE NoSwitch
  BY <1>1 DEF NoSwitch, SchedInv, TypeOK, CurrentRuns
<1>2. ASSUME NEW i \in DOMAIN tasks, tasks[i] # Base, SwitchTo(tasks[i])
      PROVE  /\ state' \in [Task -> 0 .. 4]
             /\ current' \in Linked
             /\ cpu' = current'
             /\ \A v \in Task : state'[v] = TS_RUNNING <=> v = cpu'
  <2>1. tasks[i] \in Linked
    BY DEF Linked, ToSet
  <2>2. state' = [state EXCEPT ![current] = TS_RUNABLE, ![tasks[i]] = TS_RUNNING]
    BY <1>2 DEF SwitchTo
  <2>3. current' = tasks[i] /\ cpu' = tasks[i]
    BY <1>2 DEF SwitchTo
  <2>4. tasks[i] \in Task /\ current \in Task /\ current # tasks[i]
    BY <1>2, <2>1 DEF SchedInv, TypeOK
  <2>5. state' \in [Task -> 0 .. 4]
    BY <2>2, <2>4 DEF SchedInv, TypeOK, TS_RUNNING, TS_RUNABLE
  <2>6. \A v \in Task : state'[v] = TS_RUNNING <=> v = cpu'
    BY <2>2, <2>3, <2>4 DEF SchedInv, TypeOK, CurrentRuns, TS_RUNNING, TS_RUNABLE
  <2>7. QED
    BY <2>1, <2>3, <2>5, <2>6
<1>3. QED
  BY <1>1, <1>2 DEF Scheduler

LEMMA InitInv == Init => SchedInv
<1> SUFFICES ASSUME Init PROVE SchedInv
  OBVIOUS
<1>1. TypeOK
  <2>1. tasks \in Seq(Task)
    BY TaskAssumption DEF Init
  <2>2. state \in [Task -> 0 .. 4] /\ priority \in [Task -> Int]
    BY DEF Init, TS_RUNNING, TS_STOPPED, INITIAL_PRIO
  <2>3. QED
    BY <2>1, <2>2, TaskAssumption DEF Init, TypeOK
<1>2. ListOK
  BY DEF Init, ListOK
<1>3. TASK0 \in Linked
  <2>1. 1 \in DOMAIN tasks /\ tasks[1] = TASK0
    BY DEF Init
  <2>2. QED
    BY <2>1 DEF Linked, ToSet
<1>4. CurrentRuns
  BY <1>3 DEF Init, CurrentRuns, TS_RUNNING, TS_STOPPED
<1>5. QED
  BY <1>1, <1>2, <1>4 DEF SchedInv

LEMMA AgedIsInt ==
  ASSUME TypeOK, NEW v \in Task
  PROVE  Aged(v) \in Int
<1>1. priority[v] \in Int /\ Charged(priority[v]) \in Int
  BY DEF TypeOK, Charged
<1>2. QED
  BY <1>1 DEF Aged

LEMMA DoTimerInv == ASSUME SchedInv, DoTimer PROVE SchedInv'
<1>1. Scheduler(priority') /\ UNCHANGED <<tasks, iflag>>
  BY DEF DoTimer
<1>2. priority' \in [Task -> Int]
  BY AgedIsInt DEF DoTimer, SchedInv, TypeOK
<1>3. Linked' = Linked /\ Linked \subseteq Task
  BY <1>1, BaseIsCurrent DEF Linked
<1>4. TypeOK' /\ CurrentRuns'
  BY <1>1, <1>2, <1>3, SchedulerKeeps DEF SchedInv, TypeOK, CurrentRuns
<1>5. ListOK'
  BY <1>1 DEF SchedInv, ListOK
<1>6. QED
  BY <1>4, <1>5 DEF SchedInv

\* What new_task does to the list.
LEMMA NewTaskList ==
  ASSUME SchedInv, NEW t \in Task, NewTask(t)
  PROVE  \E i \in DOMAIN tasks :
           /\ tasks[i] = current /\ ~HalfCreated(i)
           /\ tasks' \in Seq(Task)
           /\ Len(tasks') = Len(tasks) + 1
           /\ \A j \in 1 .. Len(tasks) + 1 :
                tasks'[j] = IF j < i + 1 THEN tasks[j]
                            ELSE IF j = i + 1 THEN t ELSE tasks[j - 1]
<1>1. PICK i \in DOMAIN tasks :
        tasks[i] = current /\ ~HalfCreated(i) /\ tasks' = InsertAt(tasks, i + 1, t)
  BY DEF NewTask, LinkAfter
<1>2. tasks \in Seq(Task) /\ i \in 1 .. Len(tasks)
  BY DEF SchedInv, TypeOK
<1>3. PICK k \in 1 .. Len(tasks) + 1 : k = i + 1
  BY <1>2
<1>4. /\ InsertAt(tasks, k, t) \in Seq(Task)
      /\ Len(InsertAt(tasks, k, t)) = Len(tasks) + 1
      /\ \A j \in 1 .. Len(tasks) + 1 :
           InsertAt(tasks, k, t)[j] =
             IF j < k THEN tasks[j] ELSE IF j = k THEN t ELSE tasks[j - 1]
  BY <1>2, InsertAtProperties
<1>5. tasks' = InsertAt(tasks, k, t)
  BY <1>1, <1>3
<1>6. /\ tasks' \in Seq(Task)
      /\ Len(tasks') = Len(tasks) + 1
      /\ \A j \in 1 .. Len(tasks) + 1 :
           tasks'[j] = IF j < i + 1 THEN tasks[j]
                       ELSE IF j = i + 1 THEN t ELSE tasks[j - 1]
  BY <1>3, <1>4, <1>5
<1> QED
  BY <1>1, <1>6

LEMMA NewTaskInv ==
  ASSUME SchedInv, NEW t \in Task, NewTask(t)
  PROVE  SchedInv'
<1>1. PICK i \in DOMAIN tasks :
        /\ tasks[i] = current
        /\ tasks' \in Seq(Task)
        /\ Len(tasks') = Len(tasks) + 1
        /\ \A j \in 1 .. Len(tasks) + 1 :
             tasks'[j] = IF j < i + 1 THEN tasks[j]
                         ELSE IF j = i + 1 THEN t ELSE tasks[j - 1]
  BY NewTaskList
<1>2. tasks \in Seq(Task) /\ i \in 1 .. Len(tasks)
  BY DEF SchedInv, TypeOK
<1>3. /\ tasks' \in Seq(Task)
      /\ Len(tasks') = Len(tasks) + 1
      /\ \A j \in 1 .. Len(tasks) + 1 :
           tasks'[j] = IF j < i + 1 THEN tasks[j]
                       ELSE IF j = i + 1 THEN t ELSE tasks[j - 1]
  BY <1>1
<1>4. \A j \in DOMAIN tasks : tasks[j] # t
  BY DEF NewTask, Linked, ToSet
<1>5. t # current /\ UNCHANGED <<current, cpu, iflag>>
  BY <1>1, <1>4 DEF NewTask
<1>6. TypeOK'
  <2>1. state' \in [Task -> 0 .. 4] /\ priority' \in [Task -> Int]
    BY DEF NewTask, SchedInv, TypeOK, TS_STOPPED, INITIAL_PRIO
  <2>2. current' \in Task /\ cpu' \in Task /\ iflag' \in BOOLEAN
    BY <1>5 DEF SchedInv, TypeOK
  <2>3. tasks' \in Seq(Task)
    BY <1>3
  <2>4. QED
    BY <2>1, <2>2, <2>3 DEF TypeOK
<1>7. ListOK'
  <2>1. tasks'[1] = TASK0
    BY <1>2, <1>3 DEF SchedInv, ListOK
  <2>2. ASSUME NEW a \in DOMAIN tasks', NEW b \in DOMAIN tasks', tasks'[a] = tasks'[b]
        PROVE  a = b
    <3>1. a \in 1 .. Len(tasks) + 1 /\ b \in 1 .. Len(tasks) + 1
      BY <1>3
    <3>2. \A j, k \in 1 .. Len(tasks) : tasks[j] = tasks[k] => j = k
      BY <1>2 DEF SchedInv, ListOK
    <3>3. \A j \in 1 .. Len(tasks) : tasks[j] # t
      BY <1>2, <1>4
    <3>4. Len(tasks) \in Nat
      BY <1>2
    <3> DEFINE old(c) == IF c < i + 1 THEN c ELSE c - 1
    <3>5. ASSUME NEW c \in 1 .. Len(tasks) + 1, c # i + 1
          PROVE  /\ old(c) \in 1 .. Len(tasks)
                 /\ tasks'[c] = tasks[old(c)]
                 /\ tasks'[c] # t
      <4>1. old(c) \in 1 .. Len(tasks)
        BY <1>2, <3>4, <3>5
      <4>2. tasks'[c] = tasks[old(c)]
        BY <1>2, <1>3, <3>4, <3>5
      <4>3. QED
        BY <3>3, <4>1, <4>2
    <3>6. tasks'[i + 1] = t
      BY <1>2, <1>3, <3>4
    <3>7. CASE a = i + 1 \/ b = i + 1
      BY <2>2, <3>1, <3>5, <3>6, <3>7
    <3>8. CASE a # i + 1 /\ b # i + 1
      <4>1. tasks[old(a)] = tasks[old(b)] /\ old(a) \in 1 .. Len(tasks) /\ old(b) \in 1 .. Len(tasks)
        BY <2>2, <3>1, <3>5, <3>8
      <4>2. old(a) = old(b)
        BY <3>2, <4>1
      <4>3. QED
        BY <1>2, <3>1, <3>8, <4>2
    <3>9. QED
      BY <3>7, <3>8
  <2>3. QED
    BY <2>1, <2>2 DEF ListOK
<1>8. CurrentRuns'
  <2>1. i \in DOMAIN tasks' /\ tasks'[i] = cpu
    BY <1>1, <1>2, <1>3 DEF SchedInv, CurrentRuns
  <2>2. cpu \in Linked'
    BY <2>1 DEF Linked, ToSet
  <2>3. QED
    BY <1>5, <2>2 DEF NewTask, SchedInv, TypeOK, CurrentRuns, TS_RUNNING, TS_STOPPED
<1>9. QED
  BY <1>6, <1>7, <1>8 DEF SchedInv

LEMMA PublishTaskInv == ASSUME SchedInv, PublishTask PROVE SchedInv'
<1>1. PICK i \in DOMAIN tasks :
        HalfCreated(i) /\ state' = [state EXCEPT ![tasks[i + 1]] = TS_RUNABLE]
  BY DEF PublishTask
<1>2. UNCHANGED <<tasks, priority, current, cpu, iflag>>
  BY DEF PublishTask
<1>3. tasks[i + 1] \in Task /\ state[tasks[i + 1]] = TS_STOPPED
  BY <1>1 DEF HalfCreated, SchedInv, TypeOK
<1>4. TypeOK'
  BY <1>1, <1>2, <1>3 DEF SchedInv, TypeOK, TS_RUNABLE
<1>5. ListOK' /\ Linked' = Linked
  BY <1>2 DEF SchedInv, ListOK, Linked
<1>6. CurrentRuns'
  BY <1>1, <1>2, <1>3, <1>5
  DEF SchedInv, TypeOK, CurrentRuns, TS_RUNNING, TS_RUNABLE, TS_STOPPED
<1>7. QED
  BY <1>4, <1>5, <1>6 DEF SchedInv

\* The invariant is inductive.
LEMMA StepInv == SchedInv /\ [Next]_vars => SchedInv'
<1> SUFFICES ASSUME SchedInv, [Next]_vars PROVE SchedInv'
  OBVIOUS
<1>1. CASE DoTimer
  BY <1>1, DoTimerInv
<1>2. ASSUME NEW t \in Task, NewTask(t) PROVE SchedInv'
  BY <1>2, NewTaskInv
<1>3. CASE PublishTask
  BY <1>3, PublishTaskInv
<1>4. CASE Sti
  BY <1>4 DEF Sti, SchedInv, TypeOK, ListOK, CurrentRuns, Linked
<1>5. CASE UNCHANGED vars
  BY <1>5 DEF vars, SchedInv, TypeOK, ListOK, CurrentRuns, Linked
<1>6. QED
  BY <1>1, <1>2, <1>3, <1>4, <1>5 DEF Next, Create

LEMMA Invariance == Spec => []SchedInv
<1>1. QED
  BY InitInv, StepInv, PTL DEF Spec

\* Type correctness of the scheduler's state (task.h, task.c).
THEOREM TypeCorrect == Spec => []TypeOK
<1>1. SchedInv => TypeOK
  BY DEF SchedInv
<1>2. QED
  BY <1>1, Invariance, PTL

\* No creation and no tick ever links a task twice or loses TASK0 (new_task).
THEOREM ListIntact == Spec => []ListOK
<1>1. SchedInv => ListOK
  BY DEF SchedInv
<1>2. QED
  BY <1>1, Invariance, PTL

\* For any number of tasks: current, the processor and the one RUNNING task
\* agree at every moment at which a tick can happen (scheduler).
THEOREM OneRunning == Spec => []CurrentRuns
<1>1. SchedInv => CurrentRuns
  BY DEF SchedInv
<1>2. QED
  BY <1>1, Invariance, PTL

\* After a tick no runnable task has a better priority than the new current.
LEMMA BestStep ==
  ASSUME SchedInv, DoTimer, NEW v \in Linked, state'[v] = TS_RUNABLE
  PROVE  priority'[current'] <= priority'[v]
<1>1. /\ Base = current /\ current \in Task /\ v \in Task
      /\ \A u \in Task : priority'[u] \in Int
      /\ Scheduler(priority')
  BY BaseIsCurrent, DoTimerInv DEF SchedInv, TypeOK, DoTimer
<1>2. state[current] = TS_RUNNING /\ state \in [Task -> 0 .. 4]
  BY DEF SchedInv, TypeOK, CurrentRuns
<1>3. PICK k \in DOMAIN tasks : tasks[k] = v
  BY DEF Linked, ToSet
<1>4. CASE (\A i \in DOMAIN tasks : ~Candidate(tasks[i], priority')) /\ NoSwitch
  <2>1. state[v] = TS_RUNABLE /\ current' = current
    BY <1>1, <1>4 DEF NoSwitch
  <2>2. ~Candidate(v, priority')
    BY <1>3, <1>4
  <2>3. QED
    BY <1>1, <2>1, <2>2 DEF Candidate
<1>5. ASSUME NEW i \in DOMAIN tasks, Picked(i, priority'),
             IF tasks[i] # Base THEN SwitchTo(tasks[i]) ELSE NoSwitch
      PROVE  priority'[current'] <= priority'[v]
  <2>1. /\ state[tasks[i]] = TS_RUNABLE
        /\ priority'[tasks[i]] <= priority'[current]
        /\ tasks[i] \in Task
    BY <1>1, <1>5 DEF Picked, Candidate, SchedInv, TypeOK
  <2>2. tasks[i] # Base
    BY <1>1, <1>2, <2>1 DEF TS_RUNABLE, TS_RUNNING
  <2>3. /\ current' = tasks[i]
        /\ state' = [state EXCEPT ![current] = TS_RUNABLE, ![tasks[i]] = TS_RUNNING]
    BY <1>1, <1>5, <2>2 DEF SwitchTo
  <2>4. CASE v = current
    BY <2>1, <2>3, <2>4, <1>1
  <2>5. CASE v # current
    <3>1. state[v] = TS_RUNABLE
      BY <1>1, <1>2, <2>1, <2>3, <2>5 DEF TS_RUNABLE, TS_RUNNING
    <3>2. CASE Candidate(v, priority')
      BY <1>1, <1>3, <1>5, <2>1, <2>3, <3>2 DEF Picked
    <3>3. CASE ~Candidate(v, priority')
      BY <1>1, <2>1, <2>3, <3>1, <3>3 DEF Candidate
    <3>4. QED
      BY <3>2, <3>3
  <2>6. QED
    BY <2>4, <2>5
<1>6. QED
  BY <1>1, <1>4, <1>5 DEF Scheduler

\* Every tick leaves the processor to a task of the best priority (scheduler's
\* loop, with its running bound cp).
THEOREM BestRuns == Spec => BestAfterTick
<1>1. SchedInv /\ [Next]_vars =>
        [DoTimer => \A v \in Linked :
           state'[v] = TS_RUNABLE => priority'[current'] <= priority'[v]]_vars
  BY BestStep
<1>2. QED
  BY <1>1, Invariance, PTL DEF Spec, BestAfterTick

----------------------------------------------------------------------------
(* The priorities, for any number of tasks *)

\* new_task adds its task to the list and takes none from it.
LEMMA NewTaskLinks ==
  ASSUME SchedInv, NEW t \in Task, NewTask(t)
  PROVE  Linked' = Linked \union {t}
<1>1. PICK i \in DOMAIN tasks :
        /\ tasks[i] = current
        /\ tasks' \in Seq(Task)
        /\ Len(tasks') = Len(tasks) + 1
        /\ \A j \in 1 .. Len(tasks) + 1 :
             tasks'[j] = IF j < i + 1 THEN tasks[j]
                         ELSE IF j = i + 1 THEN t ELSE tasks[j - 1]
  BY NewTaskList
<1>2. tasks \in Seq(Task) /\ i \in 1 .. Len(tasks)
  BY DEF SchedInv, TypeOK
<1>3. /\ tasks' \in Seq(Task)
      /\ Len(tasks') = Len(tasks) + 1
      /\ \A j \in 1 .. Len(tasks) + 1 :
           tasks'[j] = IF j < i + 1 THEN tasks[j]
                       ELSE IF j = i + 1 THEN t ELSE tasks[j - 1]
  BY <1>1
<1>4. DOMAIN tasks' = 1 .. Len(tasks) + 1
  BY <1>2, <1>3
<1>5. Linked' \subseteq Linked \union {t}
  <2>1. ASSUME NEW j \in 1 .. Len(tasks) + 1 PROVE tasks'[j] \in Linked \union {t}
    <3>1. Len(tasks) \in Nat /\ DOMAIN tasks = 1 .. Len(tasks) /\ i \in Int
      BY <1>2
    <3>2. CASE j < i + 1
      <4>1. j \in DOMAIN tasks
        BY <1>2, <3>1, <3>2
      <4> QED
        BY <1>3, <3>2, <4>1 DEF Linked, ToSet
    <3>3. CASE j = i + 1
      BY <1>3, <3>3
    <3>4. CASE ~(j < i + 1) /\ j # i + 1
      <4>1. j - 1 \in DOMAIN tasks
        BY <1>2, <3>1, <3>4
      <4> QED
        BY <1>3, <3>4, <4>1 DEF Linked, ToSet
    <3> QED
      BY <3>2, <3>3, <3>4
  <2> QED
    BY <1>4, <2>1 DEF Linked, ToSet
<1>6. t \in Linked'
  <2>1. i + 1 \in DOMAIN tasks' /\ tasks'[i + 1] = t
    BY <1>2, <1>3, <1>4
  <2> QED
    BY <2>1 DEF Linked, ToSet
<1>7. ASSUME NEW j \in DOMAIN tasks PROVE tasks[j] \in Linked'
  <2>1. j \in 1 .. Len(tasks) /\ Len(tasks) \in Nat /\ i \in Int
    BY <1>2
  <2>2. CASE j < i + 1
    <3>1. j \in DOMAIN tasks' /\ tasks'[j] = tasks[j]
      BY <1>3, <1>4, <2>1, <2>2
    <3> QED
      BY <3>1 DEF Linked, ToSet
  <2>3. CASE ~(j < i + 1)
    <3>1. j + 1 \in 1 .. Len(tasks) + 1 /\ ~(j + 1 < i + 1) /\ j + 1 # i + 1 /\ (j + 1) - 1 = j
      BY <2>1, <2>3
    <3>2. j + 1 \in DOMAIN tasks' /\ tasks'[j + 1] = tasks[j]
      BY <1>3, <1>4, <3>1
    <3> QED
      BY <3>2 DEF Linked, ToSet
  <2> QED
    BY <2>2, <2>3
<1> QED
  BY <1>5, <1>6, <1>7 DEF Linked, ToSet

\* Why the sum of the priorities does not do: a task may be linked long before it
\* can run, and sinks all the while.  The argument counts instead.  A task is
\* deep by m when it is further below 0 than a charged task ever is and m bonuses
\* more.  At a tick the deep ones get deeper, but the one that is charged leaves
\* them, and it is the deepest: so there are the fewer the deeper.  F is the set of the
\* tasks that take no part in this yet: those that cannot run, and those that
\* became runnable after the last tick.
K == Cardinality(Task)

\* The tasks that are published: they run or can run.
Live == {v \in Linked : state[v] # TS_STOPPED}

\* -11 is what the clamp leaves of a priority.
Deep(m) == {v \in Task : priority[v] <= -12 - 10 * m}

\* t comes after c in the list, as a new task after its creator does.
Follows(c, t) ==
  \E i \in DOMAIN tasks : i + 1 \in DOMAIN tasks /\ tasks[i] = c /\ tasks[i + 1] = t

\* The timer and new_task know three states, and TASK0 is published.
StatesOK ==
  /\ \A v \in Linked : state[v] \in {TS_RUNNING, TS_RUNABLE, TS_STOPPED}
  /\ state[TASK0] # TS_STOPPED

\* Before sti the tasks are as they were created, and only the second of the list
\* can be half created.
Booting ==
  ~iflag => /\ cpu = TASK0
            /\ \A v \in Task : priority[v] = INITIAL_PRIO
            /\ \A i \in DOMAIN tasks : i > 2 => state[tasks[i]] # TS_STOPPED

\* Then there are three tasks whose priorities sum to 600 or less, because what one
\* pays the others get: the best of all costs 200 or less.
ThreeCheap ==
  iflag => \E a, b, c \in Live : /\ a # b /\ b # c /\ a # c
                                 /\ priority[a] + priority[b] + priority[c] <= 3 * INITIAL_PRIO

\* So a penalty never leads above 220.
HighOK == priority[cpu] <= INITIAL_PRIO /\ \A v \in Linked : priority[v] <= 220

\* Who cannot run takes no part, who runs does.
FreshOK(F) == Task \ Live \subseteq F /\ cpu \notin F

\* A half created task was aged since it was linked only together with its creator,
\* which had been charged then.
CreatorOK(F) ==
  \A c, t \in Task :
    Follows(c, t) /\ state[t] = TS_STOPPED =>
      /\ c \notin F /\ priority[t] <= INITIAL_PRIO
      /\ priority[t] < INITIAL_PRIO =>
           /\ priority[t] >= priority[c] - 30
           /\ c = cpu => priority[c] >= 9 - 10 * K

\* The fewer the deeper: seen from a deep one that waits, all the deep ones, those
\* that take no part yet and the running one are at most so many.
FewOK(F) ==
  \A m \in 0 .. K :
    (\E v \in Deep(m) \ F : v # cpu) =>
      Cardinality(Deep(m) \union F \union {cpu}) <= K - 1 - m

\* Those of F that were aged before they could run, or can be published so now.
\* There is one at most, since one task runs between two ticks.
Late(F) == {v \in F : priority[v] < INITIAL_PRIO /\ (v \in Live \/ Follows(cpu, v))}

\* At most one.
LateOK(F) == \A u, v \in Late(F) : u = v

\* Such a one may be 30 below its creator, and the next tick takes 10 more.
LowOK(F) ==
  /\ \A v \in F \intersect Live : priority[v] >= -21 - 10 * K
  /\ priority[cpu] >= -31 - 10 * K

\* The inductive invariant.
PriceInv(F) ==
  /\ StatesOK /\ Booting /\ ThreeCheap /\ HighOK
  /\ FreshOK(F) /\ CreatorOK(F) /\ FewOK(F) /\ LateOK(F) /\ LowOK(F)

\* Two and three tasks, and a set of tasks of which some are left out.
LEMMA Couple == ASSUME NEW a, NEW b, a # b PROVE Cardinality({a, b}) = 2
<1>1. IsFiniteSet({a}) /\ Cardinality({a}) = 1
  BY FS_Singleton
<1>2. b \notin {a} /\ {a} \union {b} = {a, b}
  OBVIOUS
<1> QED
  BY <1>1, <1>2, FS_AddElement

LEMMA Three == ASSUME NEW a, NEW b, NEW c, a # b, b # c, a # c PROVE Cardinality({a, b, c}) = 3
<1>1. IsFiniteSet({a}) /\ Cardinality({a}) = 1
  BY FS_Singleton
<1>2. PICK S : S = {a} \union {b}
  OBVIOUS
<1>3. b \notin {a} /\ c \notin S /\ S \union {c} = {a, b, c}
  BY <1>2
<1>4. IsFiniteSet(S) /\ Cardinality(S) = 2
  BY <1>1, <1>2, <1>3, FS_AddElement
<1>5. Cardinality(S \union {c}) = 3
  BY <1>3, <1>4, FS_AddElement
<1> QED
  BY <1>3, <1>5

LEMMA FewerStill ==
  ASSUME IsFiniteSet(Task), NEW F \in SUBSET Task, NEW S \in SUBSET Task, NEW T \in SUBSET S,
         NEW c \in Task, NEW n \in Int, Cardinality(S \union F \union {c}) <= n
  PROVE  Cardinality(T \union F \union {c}) <= n
<1>1. S \union F \union {c} \in SUBSET Task /\ T \union F \union {c} \in SUBSET (S \union F \union {c})
  OBVIOUS
<1>2. IsFiniteSet(S \union F \union {c})
  BY <1>1, FS_Subset
<1>3. /\ Cardinality(T \union F \union {c}) <= Cardinality(S \union F \union {c})
      /\ IsFiniteSet(T \union F \union {c})
  BY <1>1, <1>2, FS_Subset
<1>4. Cardinality(T \union F \union {c}) \in Nat /\ Cardinality(S \union F \union {c}) \in Nat
  BY <1>2, <1>3, FS_CardinalityType
<1> QED
  BY <1>3, <1>4

\* What do_timer does to the priorities.
LEMMA TickAges ==
  ASSUME SchedInv, StatesOK, DoTimer
  PROVE  /\ SchedInv' /\ Linked' = Linked /\ Linked \subseteq Task /\ tasks' = tasks
         /\ iflag /\ iflag'
         /\ cpu \in Linked /\ cpu' \in Linked
         /\ \A v \in Task : priority[v] \in Int /\ priority'[v] \in Int
         /\ \A v \in Task \ Linked : priority'[v] = priority[v]
         /\ \A v \in Linked \ {cpu} : priority'[v] = priority[v] - 10
         /\ priority'[cpu] = IF priority[cpu] <= -30 THEN -11 ELSE priority[cpu] + 20
<1>1. SchedInv' /\ Linked' = Linked /\ Linked \subseteq Task /\ tasks' = tasks /\ iflag /\ iflag'
  BY DoTimerInv, BaseIsCurrent DEF DoTimer, Linked
<1>2. /\ cpu \in Linked /\ cpu' \in Linked /\ state[cpu] = TS_RUNNING
      /\ \A v \in Linked \ {cpu} : state[v] \in {TS_RUNABLE, TS_STOPPED}
      /\ \A v \in Task : priority[v] \in Int /\ priority'[v] \in Int
  BY <1>1 DEF SchedInv, TypeOK, CurrentRuns, StatesOK
<1>3. priority' = [v \in Task |-> IF v \in Linked THEN Aged(v) ELSE priority[v]]
  BY DEF DoTimer
<1>4. \A v \in Task \ Linked : priority'[v] = priority[v]
  BY <1>3
<1>5. \A v \in Linked \ {cpu} : priority'[v] = priority[v] - 10
  <2>1. \A v \in Linked \ {cpu} : Aged(v) = priority[v] - 10
    BY <1>2 DEF Aged, TS_RUNNING, TS_RUNABLE, TS_STOPPED, TS_SLEEP
  <2> QED
    BY <1>1, <1>3, <2>1
<1>6. priority'[cpu] = IF priority[cpu] <= -30 THEN -11 ELSE priority[cpu] + 20
  <2>1. Aged(cpu) = Charged(priority[cpu]) - 10
    BY <1>2 DEF Aged, TS_RUNNING, TS_SLEEP
  <2>2. Charged(priority[cpu]) - 10 = IF priority[cpu] <= -30 THEN -11 ELSE priority[cpu] + 20
    BY <1>1, <1>2 DEF Charged
  <2> QED
    BY <1>1, <1>2, <1>3, <2>1, <2>2
<1> QED
  BY <1>1, <1>2, <1>4, <1>5, <1>6

\* What scheduler does: it publishes and stops nobody, and picks a best one.
LEMMA TickLive ==
  ASSUME SchedInv, StatesOK, DoTimer
  PROVE  /\ Live' = Live /\ StatesOK' /\ cpu \in Live /\ cpu' \in Live
         /\ \A v \in Linked : state'[v] = TS_STOPPED <=> state[v] = TS_STOPPED
         /\ \A v \in Live : priority'[cpu'] <= priority'[v]
<1>1. /\ SchedInv' /\ Linked' = Linked /\ Linked \subseteq Task /\ cpu \in Linked /\ cpu' \in Linked
      /\ \A v \in Task : priority'[v] \in Int
  BY TickAges
<1>2. state \in [Task -> 0 .. 4] /\ state[cpu] = TS_RUNNING /\ state'[cpu'] = TS_RUNNING
  BY <1>1 DEF SchedInv, TypeOK, CurrentRuns
<1>3. \/ state' = state
      \/ \E u \in Linked : /\ state[u] = TS_RUNABLE
                           /\ state' = [state EXCEPT ![cpu] = TS_RUNABLE, ![u] = TS_RUNNING]
  <2>1. Base = cpu /\ Scheduler(priority')
    BY BaseIsCurrent DEF SchedInv, CurrentRuns, DoTimer
  <2>2. CASE NoSwitch
    BY <2>2 DEF NoSwitch
  <2>3. ASSUME NEW i \in DOMAIN tasks, Picked(i, priority'), SwitchTo(tasks[i])
        PROVE  \E u \in Linked : /\ state[u] = TS_RUNABLE
                                 /\ state' = [state EXCEPT ![cpu] = TS_RUNABLE, ![u] = TS_RUNNING]
    <3>1. tasks[i] \in Linked
      BY DEF Linked, ToSet
    <3> QED
      BY <2>1, <2>3, <3>1 DEF Picked, Candidate, SwitchTo
  <2> QED
    BY <2>1, <2>2, <2>3 DEF Scheduler
<1>4. \A v \in Linked : /\ state'[v] = TS_STOPPED <=> state[v] = TS_STOPPED
                        /\ state'[v] \in {TS_RUNNING, TS_RUNABLE, TS_STOPPED}
  BY <1>1, <1>2, <1>3 DEF StatesOK, TS_RUNNING, TS_RUNABLE, TS_STOPPED
<1>5. TASK0 \in Linked
  <2>1. 1 \in DOMAIN tasks /\ tasks[1] = TASK0
    <3>1. tasks # << >>
      BY DEF SchedInv, CurrentRuns, Linked, ToSet
    <3> QED
      BY <3>1 DEF SchedInv, TypeOK, ListOK
  <2> QED
    BY <2>1 DEF Linked, ToSet
<1>6. Live' = Live /\ StatesOK' /\ cpu \in Live /\ cpu' \in Live
  BY <1>1, <1>2, <1>4, <1>5 DEF Live, StatesOK, TS_RUNNING, TS_STOPPED
<1>7. ASSUME NEW v \in Live PROVE priority'[cpu'] <= priority'[v]
  <2>1. v \in Linked /\ v \in Task /\ state'[v] \in {TS_RUNNING, TS_RUNABLE}
    BY <1>1, <1>4 DEF Live
  <2>2. CASE state'[v] = TS_RUNNING
    BY <1>1, <2>1, <2>2 DEF SchedInv, CurrentRuns
  <2>3. CASE state'[v] = TS_RUNABLE
    BY <1>1, <2>1, <2>3, BestStep DEF SchedInv, CurrentRuns
  <2> QED
    BY <2>1, <2>2, <2>3
<1> QED
  BY <1>4, <1>6, <1>7

\* Two of three get the bonus when the third is charged, and what the clamp adds
\* does no harm, since it leaves it below 0.
LEMMA ThreeAged ==
  ASSUME NEW a, NEW b, NEW c, a # b, b # c, a # c, NEW d, NEW p, NEW q,
         \A v \in {a, b, c} : p[v] \in Int /\ q[v] \in Int,
         \A v \in {a, b, c} \ {d} : q[v] = p[v] - 10 /\ q[v] <= 210,
         q[d] = -11 \/ q[d] = p[d] + 20,
         p[a] + p[b] + p[c] <= 600
  PROVE  q[a] + q[b] + q[c] <= 600
<1>1. \A x, y, z, t, u, w \in Int :
        x + y + z <= 600 /\ u = y - 10 /\ w = z - 10 /\ u <= 210 /\ w <= 210
          /\ (t = -11 \/ t = x + 20 \/ t = x - 10) => t + u + w <= 600
  OBVIOUS
<1>2. /\ p[a] \in Int /\ p[b] \in Int /\ p[c] \in Int
      /\ q[a] \in Int /\ q[b] \in Int /\ q[c] \in Int
  OBVIOUS
<1>3. a # d => q[a] = p[a] - 10 /\ q[a] <= 210
  OBVIOUS
<1>4. b # d => q[b] = p[b] - 10 /\ q[b] <= 210
  OBVIOUS
<1>5. c # d => q[c] = p[c] - 10 /\ q[c] <= 210
  OBVIOUS
<1>6. CASE b # d /\ c # d
  <2>1. q[a] = -11 \/ q[a] = p[a] + 20 \/ q[a] = p[a] - 10
    BY <1>3
  <2> QED
    BY <1>1, <1>2, <1>4, <1>5, <1>6, <2>1
<1>7. CASE b = d
  <2>1. q[b] = -11 \/ q[b] = p[b] + 20
    BY <1>7
  <2> QED
    BY <1>2, <1>3, <1>5, <1>7, <2>1
<1>8. CASE c = d
  <2>1. q[c] = -11 \/ q[c] = p[c] + 20
    BY <1>8
  <2> QED
    BY <1>2, <1>3, <1>4, <1>8, <2>1
<1> QED
  BY <1>6, <1>7, <1>8

\* A tick keeps three tasks cheap and nobody above 220.
LEMMA TickThree ==
  ASSUME SchedInv, StatesOK, ThreeCheap, HighOK, DoTimer
  PROVE  ThreeCheap' /\ HighOK'
<1>1. /\ Linked' = Linked /\ Linked \subseteq Task /\ iflag /\ cpu \in Linked /\ cpu' \in Linked
      /\ \A v \in Task : priority[v] \in Int /\ priority'[v] \in Int
      /\ \A v \in Linked \ {cpu} : priority'[v] = priority[v] - 10
      /\ priority'[cpu] = IF priority[cpu] <= -30 THEN -11 ELSE priority[cpu] + 20
  BY TickAges
<1>2. \A v \in Linked : priority'[v] <= 220 /\ (v # cpu => priority'[v] <= 210)
  BY <1>1 DEF HighOK, INITIAL_PRIO
<1>3. PICK a \in Live, b \in Live, c \in Live :
        a # b /\ b # c /\ a # c /\ priority[a] + priority[b] + priority[c] <= 600
  BY <1>1 DEF ThreeCheap, INITIAL_PRIO
<1>4. a \in Linked /\ b \in Linked /\ c \in Linked
  BY DEF Live
<1>5. priority'[a] + priority'[b] + priority'[c] <= 600
  <2>1. \A v \in {a, b, c} : priority[v] \in Int /\ priority'[v] \in Int
    BY <1>1, <1>4
  <2>2. \A v \in {a, b, c} \ {cpu} : priority'[v] = priority[v] - 10 /\ priority'[v] <= 210
    BY <1>1, <1>2, <1>4
  <2>3. priority'[cpu] = -11 \/ priority'[cpu] = priority[cpu] + 20
    BY <1>1
  <2> QED
    BY <1>3, <2>1, <2>2, <2>3, ThreeAged
<1>6. Live' = Live /\ cpu' \in Live /\ \A v \in Live : priority'[cpu'] <= priority'[v]
  BY TickLive
<1>7. priority'[cpu'] <= 200
  <2>1. \A v \in {a, b, c} : priority'[v] \in Int /\ priority'[cpu'] <= priority'[v]
    BY <1>1, <1>4, <1>6
  <2> QED
    BY <1>1, <1>5, <2>1
<1>8. ThreeCheap'
  BY <1>3, <1>5, <1>6 DEF ThreeCheap, INITIAL_PRIO
<1> QED
  BY <1>1, <1>2, <1>7, <1>8 DEF HighOK, INITIAL_PRIO

\* A creator caught in new_task sinks with what it creates, and is not caught twice.
LEMMA TickCreators ==
  ASSUME SchedInv, DoTimer, NEW F \in SUBSET Task, PriceInv(F), IsFiniteSet(Task), K >= 3
  PROVE  \A c, t \in Task :
           Follows(c, t)' /\ state'[t] = TS_STOPPED =>
             /\ Follows(c, t) /\ c \in Live /\ c \notin F /\ t \in Task \ Live /\ t # cpu
             /\ priority'[t] <= 190 /\ priority'[t] = priority[t] - 10
             /\ priority'[t] >= priority'[c] - 30
<1>1. /\ Linked' = Linked /\ Linked \subseteq Task /\ tasks' = tasks /\ cpu \in Linked
      /\ \A v \in Task : priority[v] \in Int /\ priority'[v] \in Int
      /\ \A v \in Linked \ {cpu} : priority'[v] = priority[v] - 10
      /\ priority'[cpu] = IF priority[cpu] <= -30 THEN -11 ELSE priority[cpu] + 20
  BY TickAges DEF PriceInv
<1>2. \A v \in Linked : priority'[v] <= 220
  BY <1>1, TickThree DEF PriceInv, HighOK
<1> SUFFICES ASSUME NEW c \in Task, NEW t \in Task, Follows(c, t)', state'[t] = TS_STOPPED
             PROVE  /\ Follows(c, t) /\ c \in Live /\ c \notin F /\ t \in Task \ Live /\ t # cpu
                    /\ priority'[t] <= 190 /\ priority'[t] = priority[t] - 10
                    /\ priority'[t] >= priority'[c] - 30
  OBVIOUS
<1>3. Follows(c, t)
  BY <1>1 DEF Follows
<1>4. c \in Linked /\ t \in Linked
  BY <1>3 DEF Follows, Linked, ToSet
<1>5. state[t] = TS_STOPPED /\ cpu \in Live
  BY <1>4, TickLive DEF PriceInv
<1>6. t \notin Live /\ t # cpu
  BY <1>5 DEF Live
<1>7. /\ c \notin F /\ priority[t] <= 200
      /\ priority[t] < 200 => priority[t] >= priority[c] - 30
  BY <1>3, <1>5 DEF PriceInv, CreatorOK, INITIAL_PRIO
<1>8. c \in Live
  BY <1>7 DEF PriceInv, FreshOK
<1>9. priority'[t] = priority[t] - 10
  BY <1>1, <1>4, <1>6
<1>10. priority'[t] >= priority'[c] - 30
  <2>1. CASE priority[t] = 200
    BY <1>1, <1>2, <1>4, <1>9, <2>1
  <2>2. CASE priority[t] # 200 /\ c # cpu
    BY <1>1, <1>4, <1>7, <1>9, <2>2
  <2>3. CASE priority[t] # 200 /\ c = cpu
    <3>1. priority[t] < 200
      BY <1>1, <1>7, <2>3
    <3>2. PICK i \in DOMAIN tasks : i + 1 \in DOMAIN tasks /\ tasks[i] = cpu /\ tasks[i + 1] = t
      BY <1>3, <2>3 DEF Follows
    <3>3. HalfCreated(i)
      BY <1>5, <3>2 DEF HalfCreated
    <3>4. SliceTooShort
      BY <3>1, <3>2, <3>3 DEF SliceTooShort, INITIAL_PRIO
    <3> QED
      BY <3>4 DEF DoTimer
  <2> QED
    BY <2>1, <2>2, <2>3
<1> QED
  BY <1>1, <1>3, <1>6, <1>7, <1>8, <1>9, <1>10

\* How many tasks are deep after a tick, seen from one of them: the task that has
\* just been charged no longer is.
LEMMA TickCount ==
  ASSUME SchedInv, DoTimer, NEW F \in SUBSET Task, PriceInv(F), IsFiniteSet(Task),
         NEW G \in SUBSET Task, G = Task \ Live,
         NEW m \in 0 .. K, NEW v \in Deep(m)', v \notin F, cpu' \in Deep(m)'
  PROVE  Cardinality(Deep(m)' \union G \union {cpu'}) <= K - 1 - m
<1>1. /\ Linked \subseteq Task /\ cpu \in Task /\ cpu' \in Task
      /\ \A u \in Task : priority[u] \in Int /\ priority'[u] \in Int
      /\ \A u \in Task \ Linked : priority'[u] = priority[u]
      /\ \A u \in Linked \ {cpu} : priority'[u] = priority[u] - 10
      /\ priority'[cpu] >= -11
  <2>1. /\ Linked' = Linked /\ Linked \subseteq Task /\ cpu \in Linked /\ cpu' \in Linked /\ tasks' = tasks
        /\ \A u \in Task : priority[u] \in Int /\ priority'[u] \in Int
        /\ \A u \in Task \ Linked : priority'[u] = priority[u]
        /\ \A u \in Linked \ {cpu} : priority'[u] = priority[u] - 10
        /\ priority'[cpu] = IF priority[cpu] <= -30 THEN -11 ELSE priority[cpu] + 20
    BY TickAges DEF PriceInv
  <2>2. priority'[cpu] >= -11
    BY <2>1
  <2> QED
    BY <2>1, <2>2
<1>2. G \subseteq F /\ cpu \notin G /\ K \in Nat
  BY TickLive, FS_CardinalityType DEF PriceInv, FreshOK, K
<1>3. cpu \notin Deep(m)'
  BY <1>1 DEF Deep
<1>4. v \in Task /\ v # cpu /\ cpu' # cpu
  BY <1>3 DEF Deep
<1> DEFINE S == Deep(m)' \union G \union {cpu'}
           T == Deep(m - 1) \union F \union {cpu}
<1>5. S \subseteq Task \ {cpu}
  BY <1>1, <1>2, <1>3, <1>4 DEF Deep
<1>6. CASE m = 0
  <2>1. IsFiniteSet(Task \ {cpu}) /\ Cardinality(Task \ {cpu}) = K - 1
    BY <1>1, FS_RemoveElement DEF K
  <2>2. Cardinality(S) <= K - 1
    BY <1>5, <2>1, FS_Subset
  <2> QED
    BY <1>2, <1>6, <2>2
<1>7. CASE m # 0
  <2>1. m - 1 \in 0 .. K
    BY <1>2, <1>7
  <2>2. \A u \in Deep(m)' : u # cpu => u \in Deep(m - 1)
    BY <1>1, <2>1 DEF Deep
  <2>3. v \in Deep(m - 1) \ F /\ v # cpu /\ cpu' \in Deep(m - 1)
    BY <1>4, <2>2
  <2>4. Cardinality(T) <= K - 1 - (m - 1)
    BY <2>1, <2>3 DEF PriceInv, FewOK
  <2>5. S \subseteq T \ {cpu}
    BY <1>2, <1>3, <1>4, <2>2, <2>3
  <2>6. IsFiniteSet(T) /\ Cardinality(T) \in Nat
    <3>1. T \subseteq Task
      BY <1>1 DEF Deep
    <3> QED
      BY <3>1, FS_Subset, FS_CardinalityType
  <2>7. IsFiniteSet(T \ {cpu}) /\ Cardinality(T \ {cpu}) = Cardinality(T) - 1
    BY <2>6, FS_RemoveElement
  <2>8. Cardinality(S) <= Cardinality(T) - 1 /\ Cardinality(S) \in Nat
    BY <2>5, <2>7, FS_Subset, FS_CardinalityType
  <2> QED
    BY <1>2, <2>4, <2>6, <2>8
<1> QED
  BY <1>6, <1>7

\* The fewer the deeper, after a tick too: either one that waits has waited before,
\* or it and the one that is picked were both published since the last tick, and
\* one of them at 200.
LEMMA TickFew ==
  ASSUME SchedInv, DoTimer, NEW F \in SUBSET Task, PriceInv(F), IsFiniteSet(Task),
         NEW G \in SUBSET Task, G = Task \ Live
  PROVE  FewOK(G)'
<1> SUFFICES ASSUME NEW m \in 0 .. K, NEW v \in Deep(m)' \ G, v # cpu'
             PROVE  Cardinality(Deep(m)' \union G \union {cpu'}) <= K - 1 - m
  BY DEF FewOK, K
<1>1. /\ Linked \subseteq Task /\ cpu \in Task /\ cpu' \in Task
      /\ \A u \in Task : priority[u] \in Int /\ priority'[u] \in Int
      /\ \A u \in Task \ Linked : priority'[u] = priority[u]
      /\ \A u \in Linked \ {cpu} : priority'[u] = priority[u] - 10
  BY TickAges DEF PriceInv
<1>2. v \in Live /\ v \in Task /\ cpu' \in Live /\ cpu \notin F /\ Live \subseteq Linked
  BY TickLive DEF PriceInv, FreshOK, Deep, Live
<1>3. cpu' \in Deep(m)'
  <2>1. priority'[cpu'] <= priority'[v]
    BY <1>2, TickLive DEF PriceInv
  <2> QED
    BY <1>1, <1>2, <2>1 DEF Deep
<1>4. CASE v \notin F
  BY <1>3, <1>4, TickCount
<1>5. CASE cpu' \notin F
  BY <1>3, <1>5, TickCount
<1>6. CASE v \in F /\ cpu' \in F
  <2>1. priority'[v] <= -12 /\ priority'[cpu'] <= -12
    BY <1>1, <1>2, <1>3 DEF Deep
  <2>2. priority[v] < 200 /\ priority[cpu'] < 200
    BY <1>1, <1>2, <1>6, <2>1
  <2>3. v \in Late(F) /\ cpu' \in Late(F)
    BY <1>2, <1>6, <2>2 DEF Late, INITIAL_PRIO
  <2> QED
    BY <2>3 DEF PriceInv, LateOK
<1> QED
  BY <1>4, <1>5, <1>6

\* How low the task that is picked can be, and its half created one.
LEMMA TickLow ==
  ASSUME SchedInv, DoTimer, NEW F \in SUBSET Task, PriceInv(F), IsFiniteSet(Task), K >= 3,
         NEW G \in SUBSET Task, G = Task \ Live
  PROVE  LowOK(G)' /\ CreatorOK(G)' /\ LateOK(G)' /\ FreshOK(G)'
<1>1. /\ Linked' = Linked /\ Linked \subseteq Task /\ cpu \in Task /\ cpu' \in Task /\ tasks' = tasks
      /\ \A u \in Task : priority[u] \in Int /\ priority'[u] \in Int
      /\ \A u \in Task \ Linked : priority'[u] = priority[u]
      /\ \A u \in Linked \ {cpu} : priority'[u] = priority[u] - 10
      /\ priority'[cpu] >= -11
  <2>1. /\ Linked' = Linked /\ Linked \subseteq Task /\ cpu \in Linked /\ cpu' \in Linked /\ tasks' = tasks
        /\ \A u \in Task : priority[u] \in Int /\ priority'[u] \in Int
        /\ \A u \in Task \ Linked : priority'[u] = priority[u]
        /\ \A u \in Linked \ {cpu} : priority'[u] = priority[u] - 10
        /\ priority'[cpu] = IF priority[cpu] <= -30 THEN -11 ELSE priority[cpu] + 20
    BY TickAges DEF PriceInv
  <2>2. priority'[cpu] >= -11
    BY <2>1
  <2> QED
    BY <2>1, <2>2
<1>2. /\ Live' = Live /\ cpu' \in Live /\ cpu \notin F /\ Live \subseteq Linked /\ K \in Nat
      /\ \A u \in Linked : state'[u] = TS_STOPPED <=> state[u] = TS_STOPPED
  BY TickLive, FS_CardinalityType DEF PriceInv, FreshOK, Live, K
<1>3. FreshOK(G)'
  BY <1>2 DEF FreshOK
<1>4. IsFiniteSet(G)
  BY FS_Subset
<1>5. ASSUME NEW m \in 0 .. K, cpu' \notin F, cpu' \in Deep(m)'
      PROVE  Cardinality(Deep(m)' \union G \union {cpu'}) <= K - 1 - m
  BY <1>5, TickCount
<1>6. priority'[cpu'] >= -31 - 10 * K
  <2>1. CASE cpu' = cpu
    BY <1>1, <1>2, <2>1
  <2>2. CASE cpu' # cpu /\ cpu' \in F
    <3>1. priority[cpu'] >= -21 - 10 * K
      BY <1>2, <2>2 DEF PriceInv, LowOK
    <3> QED
      BY <1>1, <1>2, <2>2, <3>1
  <2>3. CASE cpu' \notin F
    <3> SUFFICES ASSUME priority'[cpu'] < -31 - 10 * K PROVE FALSE
      BY <1>1, <1>2
    <3>1. cpu' \in Deep(K)'
      BY <1>1, <1>2 DEF Deep
    <3> DEFINE S == Deep(K)' \union G \union {cpu'}
    <3>2. Cardinality(S) <= K - 1 - K
      BY <1>2, <1>5, <2>3, <3>1
    <3>3. S \subseteq Task
      BY <1>1 DEF Deep
    <3>4. Cardinality(S) \in Nat
      BY <3>3, FS_Subset, FS_CardinalityType
    <3> QED
      BY <1>2, <3>2, <3>4
  <2> QED
    BY <2>1, <2>2, <2>3
<1>7. LowOK(G)'
  BY <1>2, <1>6 DEF LowOK, K
<1>8. CreatorOK(G)'
  <2> SUFFICES ASSUME NEW c \in Task, NEW t \in Task, Follows(c, t)', state'[t] = TS_STOPPED
               PROVE  /\ c \notin G /\ priority'[t] <= 200
                      /\ priority'[t] >= priority'[c] - 30
                      /\ c = cpu' => priority'[c] >= 9 - 10 * K
    BY DEF CreatorOK, INITIAL_PRIO, K
  <2>1. /\ c \in Live /\ c \notin F /\ t \in G /\ t # cpu
        /\ priority'[t] <= 190
        /\ priority'[t] >= priority'[c] - 30
    BY TickCreators
  <2>2. ASSUME c = cpu' PROVE priority'[c] >= 9 - 10 * K
    <3>1. CASE c = cpu
      BY <1>1, <1>2, <3>1
    <3>2. CASE c # cpu
      <4> SUFFICES ASSUME priority'[c] < 9 - 10 * K PROVE FALSE
        BY <1>1, <1>2, <2>2
      <4>1. K - 2 \in 0 .. K
        BY <1>2
      <4>2. c \in Deep(K - 2)'
        BY <1>1, <1>2 DEF Deep
      <4> DEFINE S == Deep(K - 2)' \union G \union {cpu'}
      <4>3. Cardinality(S) <= K - 1 - (K - 2)
        BY <1>5, <2>1, <2>2, <4>1, <4>2
      <4>4. S \subseteq Task /\ {c, t} \subseteq S
        BY <1>1, <2>1, <2>2 DEF Deep
      <4>5. IsFiniteSet(S) /\ Cardinality(S) \in Nat
        BY <4>4, FS_Subset, FS_CardinalityType
      <4>6. c # t
        BY <2>1
      <4>7. Cardinality({c, t}) = 2
        BY <4>6, Couple
      <4>8. Cardinality({c, t}) <= Cardinality(S)
        BY <4>4, <4>5, FS_Subset
      <4> QED
        BY <1>2, <4>3, <4>5, <4>7, <4>8
    <3> QED
      BY <3>1, <3>2
  <2> QED
    BY <1>1, <2>1, <2>2
<1>9. LateOK(G)'
  <2>1. ASSUME NEW u \in Late(G)' PROVE u \in Task /\ Follows(cpu, u)'
    BY <1>2, <2>1 DEF Late
  <2>2. \A u, w : Follows(cpu, u)' /\ Follows(cpu, w)' => u = w
    BY TickAges DEF PriceInv, Follows, SchedInv, ListOK
  <2> QED
    BY <2>1, <2>2 DEF LateOK
<1> QED
  BY <1>3, <1>7, <1>8, <1>9

\* All of it together: after a tick only those that cannot run take no part.
LEMMA PriceTick ==
  ASSUME SchedInv, DoTimer, NEW F \in SUBSET Task, PriceInv(F), IsFiniteSet(Task), K >= 3,
         NEW G \in SUBSET Task, G = Task \ Live
  PROVE  PriceInv(G)'
<1>1. StatesOK' /\ ThreeCheap' /\ HighOK'
  BY TickLive, TickThree DEF PriceInv
<1>2. Booting'
  BY TickAges DEF PriceInv, Booting
<1> QED
  BY <1>1, <1>2, TickFew, TickLow DEF PriceInv

\* What new_task does to the list: t comes after its creator, everybody else keeps
\* the neighbours he had.
LEMMA NewTaskFollows ==
  ASSUME SchedInv, NEW t \in Task, NewTask(t), NEW c, NEW u, Follows(c, u)'
  PROVE  \/ c = cpu /\ u = t
         \/ c = t /\ u # t /\ Follows(cpu, u) /\ state[u] # TS_STOPPED
         \/ c # cpu /\ c # t /\ u # t /\ Follows(c, u)
<1>1. PICK i \in DOMAIN tasks :
        /\ tasks[i] = current /\ ~HalfCreated(i)
        /\ tasks' \in Seq(Task)
        /\ Len(tasks') = Len(tasks) + 1
        /\ \A j \in 1 .. Len(tasks) + 1 :
             tasks'[j] = IF j < i + 1 THEN tasks[j]
                         ELSE IF j = i + 1 THEN t ELSE tasks[j - 1]
  BY NewTaskList
<1>2. /\ tasks \in Seq(Task) /\ i \in 1 .. Len(tasks) /\ current = cpu /\ Len(tasks) \in Nat
      /\ DOMAIN tasks = 1 .. Len(tasks)
  BY DEF SchedInv, TypeOK, CurrentRuns
<1>3. /\ tasks' \in Seq(Task)
      /\ Len(tasks') = Len(tasks) + 1
      /\ \A j \in 1 .. Len(tasks) + 1 :
           tasks'[j] = IF j < i + 1 THEN tasks[j]
                       ELSE IF j = i + 1 THEN t ELSE tasks[j - 1]
  BY <1>1
<1>4. \A j \in 1 .. Len(tasks) : tasks[j] # t /\ (tasks[j] = cpu => j = i)
  BY <1>1, <1>2 DEF NewTask, Linked, ToSet, SchedInv, ListOK
<1>5. PICK k \in 1 .. Len(tasks) : tasks'[k] = c /\ tasks'[k + 1] = u
  <2>1. PICK k \in DOMAIN tasks' : k + 1 \in DOMAIN tasks' /\ tasks'[k] = c /\ tasks'[k + 1] = u
    BY DEF Follows
  <2>2. k \in 1 .. Len(tasks)
    BY <1>2, <1>3, <2>1
  <2> QED
    BY <2>1, <2>2
<1>6. CASE k < i
  <2>1. c = tasks[k] /\ u = tasks[k + 1] /\ k + 1 \in 1 .. Len(tasks)
    BY <1>2, <1>3, <1>5, <1>6
  <2>2. Follows(c, u)
    BY <1>2, <2>1 DEF Follows
  <2>3. c # cpu /\ c # t /\ u # t
    BY <1>2, <1>4, <1>6, <2>1
  <2> QED
    BY <2>2, <2>3
<1>7. CASE k = i
  <2>1. tasks'[k] = tasks[i] /\ tasks'[k + 1] = t
    BY <1>2, <1>3, <1>7
  <2> QED
    BY <1>1, <1>2, <1>5, <2>1
<1>8. CASE k = i + 1
  <2>1. c = t /\ u = tasks[i + 1] /\ i + 1 \in 1 .. Len(tasks)
    BY <1>2, <1>3, <1>5, <1>8
  <2>2. Follows(cpu, u) /\ u # t
    BY <1>1, <1>2, <1>4, <2>1 DEF Follows
  <2>3. state[u] # TS_STOPPED
    BY <1>1, <1>2, <2>1 DEF HalfCreated
  <2> QED
    BY <2>1, <2>2, <2>3
<1>9. CASE k > i + 1
  <2>1. c = tasks[k - 1] /\ u = tasks[k] /\ k - 1 \in DOMAIN tasks /\ (k - 1) + 1 = k
    BY <1>2, <1>3, <1>5, <1>9
  <2>2. Follows(c, u)
    <3>1. (k - 1) + 1 \in DOMAIN tasks /\ tasks[k - 1] = c /\ tasks[(k - 1) + 1] = u
      BY <1>2, <2>1
    <3> QED
      BY <2>1, <3>1 DEF Follows
  <2> QED
    BY <1>2, <1>4, <1>9, <2>1, <2>2
<1> QED
  BY <1>2, <1>6, <1>7, <1>8, <1>9

\* new_task adds a task that cannot run, behind a task that runs.
LEMMA PriceNewTask ==
  ASSUME SchedInv, NEW t \in Task, NewTask(t), NEW F \in SUBSET Task, PriceInv(F), IsFiniteSet(Task)
  PROVE  PriceInv(F)'
<1>1. /\ t \notin Linked /\ Linked' = Linked \union {t} /\ Linked \subseteq Task
      /\ priority' = [priority EXCEPT ![t] = INITIAL_PRIO]
      /\ state' = [state EXCEPT ![t] = TS_STOPPED]
      /\ UNCHANGED <<current, cpu, iflag>> /\ current = cpu /\ cpu \in Linked
  BY NewTaskLinks, BaseIsCurrent DEF NewTask, SchedInv, CurrentRuns
<1>2. /\ priority \in [Task -> Int] /\ state \in [Task -> 0 .. 4] /\ K \in Nat
  BY FS_CardinalityType DEF SchedInv, TypeOK, K
<1>3. /\ priority'[t] = 200 /\ \A v \in Task \ {t} : priority'[v] = priority[v]
      /\ state'[t] = TS_STOPPED /\ \A v \in Task \ {t} : state'[v] = state[v]
      /\ t # cpu
  BY <1>1, <1>2 DEF INITIAL_PRIO
<1>4. Live' = Live /\ t \in Task \ Live
  BY <1>1, <1>3 DEF Live
<1>5. t \in F /\ cpu \notin F
  BY <1>4 DEF PriceInv, FreshOK
<1>6. StatesOK' /\ TASK0 \in Linked
  <2>1. 1 \in DOMAIN tasks /\ tasks[1] = TASK0
    <3>1. tasks # << >>
      BY DEF SchedInv, CurrentRuns, Linked, ToSet
    <3> QED
      BY <3>1 DEF SchedInv, TypeOK, ListOK
  <2>2. TASK0 \in Linked
    BY <2>1 DEF Linked, ToSet
  <2> QED
    BY <1>1, <1>3, <2>2 DEF PriceInv, StatesOK
<1>7. ThreeCheap'
  BY <1>1, <1>3, <1>4 DEF PriceInv, ThreeCheap, Live
<1>8. HighOK'
  BY <1>1, <1>3 DEF PriceInv, HighOK, INITIAL_PRIO
<1>9. FreshOK(F)'
  BY <1>1, <1>4, <1>5 DEF PriceInv, FreshOK
<1>10. CreatorOK(F)'
  <2> SUFFICES ASSUME NEW c \in Task, NEW u \in Task, Follows(c, u)', state'[u] = TS_STOPPED
               PROVE  /\ c \notin F /\ priority'[u] <= 200
                      /\ priority'[u] < 200 =>
                           /\ priority'[u] >= priority'[c] - 30
                           /\ c = cpu => priority'[c] >= 9 - 10 * K
    BY <1>1 DEF CreatorOK, INITIAL_PRIO, K
  <2>1. CASE c = cpu /\ u = t
    BY <1>2, <1>3, <1>5, <2>1
  <2>2. CASE c = t /\ u # t /\ state[u] # TS_STOPPED
    BY <1>3, <2>2
  <2>3. CASE c # cpu /\ c # t /\ u # t /\ Follows(c, u)
    BY <1>2, <1>3, <2>3 DEF PriceInv, CreatorOK, INITIAL_PRIO
  <2> QED
    BY <2>1, <2>2, <2>3, NewTaskFollows
<1>11. FewOK(F)'
  <2>1. \A m \in 0 .. K : Deep(m)' \subseteq Deep(m)
    BY <1>1, <1>2, <1>3 DEF Deep
  <2> SUFFICES ASSUME NEW m \in 0 .. K, NEW v \in Deep(m)' \ F, v # cpu
               PROVE  Cardinality(Deep(m)' \union F \union {cpu}) <= K - 1 - m
    BY <1>1 DEF FewOK, K
  <2>2. Cardinality(Deep(m) \union F \union {cpu}) <= K - 1 - m
    BY <2>1 DEF PriceInv, FewOK
  <2> QED
    <3> DEFINE S == Deep(m)
               T == Deep(m)'
               n == K - 1 - m
    <3>1. S \in SUBSET Task /\ T \in SUBSET S /\ cpu \in Task /\ n \in Int
      BY <1>1, <1>2, <2>1 DEF Deep
    <3>2. Cardinality(S \union F \union {cpu}) <= n
      BY <2>2
    <3> HIDE DEF S, T, n
    <3>3. Cardinality(T \union F \union {cpu}) <= n
      BY <3>1, <3>2, FewerStill
    <3> QED
      BY <3>3 DEF T, n
<1>12. LateOK(F)'
  <2>1. Late(F)' \subseteq Late(F)
    <3> SUFFICES ASSUME NEW u \in Late(F)' PROVE u \in Late(F)
      OBVIOUS
    <3>1. u \in F /\ u \in Task /\ priority'[u] < 200 /\ (u \in Live' \/ Follows(cpu, u)')
      BY <1>1 DEF Late, INITIAL_PRIO
    <3>2. u # t /\ priority[u] < 200
      BY <1>3, <3>1
    <3>3. CASE u \in Live
      BY <3>1, <3>2, <3>3 DEF Late, INITIAL_PRIO
    <3>4. CASE Follows(cpu, u)'
      <4>1. PICK c : c = cpu /\ Follows(c, u)'
        BY <1>1, <3>4 DEF Follows
      <4>2. Follows(cpu, u)
        BY <1>3, <3>2, <4>1, NewTaskFollows
      <4> QED
        BY <3>1, <3>2, <4>2 DEF Late, INITIAL_PRIO
    <3> QED
      BY <1>4, <3>1, <3>3, <3>4
  <2> QED
    BY <2>1 DEF PriceInv, LateOK
<1>13. LowOK(F)'
  <2>1. \A v \in F \intersect Live : v # t
    BY <1>4
  <2> QED
    BY <1>1, <1>2, <1>3, <1>4, <2>1 DEF PriceInv, LowOK, K, Live
<1>14. Booting'
  <2> SUFFICES ASSUME ~iflag PROVE Booting'
    BY <1>1 DEF Booting
  <2>1. cpu' = TASK0 /\ cpu = TASK0 /\ \A v \in Task : priority'[v] = 200
    BY <1>1, <1>3 DEF PriceInv, Booting, INITIAL_PRIO
  <2>2. PICK i \in DOMAIN tasks :
          /\ tasks[i] = current /\ ~HalfCreated(i)
          /\ tasks' \in Seq(Task)
          /\ Len(tasks') = Len(tasks) + 1
          /\ \A j \in 1 .. Len(tasks) + 1 :
               tasks'[j] = IF j < i + 1 THEN tasks[j]
                           ELSE IF j = i + 1 THEN t ELSE tasks[j - 1]
    BY NewTaskList
  <2>3. i = 1 /\ i \in 1 .. Len(tasks) /\ tasks \in Seq(Task) /\ Len(tasks) \in Nat /\ Len(tasks) >= 1 /\ DOMAIN tasks = 1 .. Len(tasks)
    <3>1. tasks \in Seq(Task) /\ i \in 1 .. Len(tasks) /\ Len(tasks) \in Nat /\ DOMAIN tasks = 1 .. Len(tasks)
      BY <2>2 DEF SchedInv, TypeOK
    <3>2. Len(tasks) >= 1 /\ 1 \in DOMAIN tasks
      BY <3>1
    <3> QED
      BY <1>1, <2>1, <2>2, <3>1, <3>2 DEF SchedInv, ListOK
  <2>4. /\ tasks' \in Seq(Task)
        /\ Len(tasks') = Len(tasks) + 1
        /\ \A j \in 1 .. Len(tasks) + 1 :
             tasks'[j] = IF j < i + 1 THEN tasks[j]
                         ELSE IF j = i + 1 THEN t ELSE tasks[j - 1]
    BY <2>2
  <2>5. ASSUME NEW j \in DOMAIN tasks', j > 2 PROVE state'[tasks'[j]] # TS_STOPPED
    <3>1. j \in 3 .. Len(tasks) + 1 /\ tasks'[j] = tasks[j - 1] /\ j - 1 \in DOMAIN tasks
      BY <2>3, <2>4, <2>5
    <3>2. tasks[j - 1] \in Linked /\ tasks[j - 1] # t /\ tasks[j - 1] \in Task
      BY <1>1, <3>1 DEF Linked, ToSet
    <3>3. state[tasks[j - 1]] # TS_STOPPED
      <4>1. CASE j = 3
        <5>1. j - 1 = i + 1 /\ i + 1 \in DOMAIN tasks
          BY <2>3, <3>1, <4>1
        <5> QED
          BY <2>2, <5>1 DEF HalfCreated
      <4>2. CASE j > 3
        <5>1. j - 1 > 2
          BY <3>1, <4>2
        <5> QED
          BY <3>1, <5>1 DEF PriceInv, Booting
      <4> QED
        BY <3>1, <4>1, <4>2
    <3> QED
      BY <1>3, <3>1, <3>2, <3>3
  <2> QED
    BY <2>1, <2>5 DEF Booting, INITIAL_PRIO
<1> QED
  BY <1>6, <1>7, <1>8, <1>9, <1>10, <1>11, <1>12, <1>13, <1>14 DEF PriceInv

\* The task that is published was half created, and at most 30 below its creator.
LEMMA PricePublish ==
  ASSUME SchedInv, PublishTask, NEW F \in SUBSET Task, PriceInv(F), IsFiniteSet(Task)
  PROVE  PriceInv(F)'
<1>1. PICK i \in DOMAIN tasks :
        tasks[i] = cpu /\ HalfCreated(i) /\ state' = [state EXCEPT ![tasks[i + 1]] = TS_RUNABLE]
  BY DEF PublishTask
<1> DEFINE t == tasks[i + 1]
<1>2. UNCHANGED <<tasks, priority, current, cpu, iflag>> /\ Linked' = Linked
  BY DEF PublishTask, Linked
<1>3. Follows(cpu, t) /\ state[t] = TS_STOPPED /\ t \in Linked /\ t \in Task /\ cpu \in Task
  BY <1>1 DEF HalfCreated, Follows, Linked, ToSet, SchedInv, TypeOK
<1>4. /\ priority \in [Task -> Int] /\ state \in [Task -> 0 .. 4] /\ K \in Nat /\ Linked \subseteq Task
  BY FS_CardinalityType, BaseIsCurrent DEF SchedInv, TypeOK, K
<1> HIDE DEF t
<1>5. state'[t] = TS_RUNABLE /\ \A v \in Task \ {t} : state'[v] = state[v]
  BY <1>1, <1>3, <1>4 DEF t
<1>6. Live' = Live \union {t}
  BY <1>2, <1>3, <1>4, <1>5 DEF Live, TS_RUNABLE, TS_STOPPED
<1>7. \A v \in Task : state'[v] = TS_STOPPED => state[v] = TS_STOPPED
  BY <1>3, <1>5
<1>8. StatesOK'
  BY <1>2, <1>4, <1>5, <1>7, TaskAssumption DEF PriceInv, StatesOK
<1>9. Booting'
  <2>1. \A j \in DOMAIN tasks : tasks[j] \in Task
    BY DEF SchedInv, TypeOK
  <2> QED
    BY <1>2, <1>7, <2>1 DEF PriceInv, Booting
<1>10. ThreeCheap' /\ HighOK'
  BY <1>2, <1>6 DEF PriceInv, ThreeCheap, HighOK
<1>11. FreshOK(F)'
  BY <1>2, <1>6 DEF PriceInv, FreshOK
<1>12. CreatorOK(F)'
  <2> SUFFICES ASSUME NEW c \in Task, NEW u \in Task, Follows(c, u)', state'[u] = TS_STOPPED
               PROVE  /\ c \notin F /\ priority[u] <= INITIAL_PRIO
                      /\ priority[u] < INITIAL_PRIO =>
                           /\ priority[u] >= priority[c] - 30
                           /\ c = cpu => priority[c] >= 9 - 10 * K
    BY <1>2 DEF CreatorOK, K
  <2>1. Follows(c, u) /\ state[u] = TS_STOPPED
    BY <1>2, <1>7 DEF Follows
  <2> QED
    BY <2>1 DEF PriceInv, CreatorOK
<1>13. FewOK(F)'
  BY <1>2 DEF PriceInv, FewOK, Deep, K
<1>14. LateOK(F)'
  <2>1. Late(F)' \subseteq Late(F)
    <3> SUFFICES ASSUME NEW u \in Late(F)' PROVE u \in Late(F)
      OBVIOUS
    <3>1. u \in F /\ priority[u] < INITIAL_PRIO /\ (u \in Live \/ u = t \/ Follows(cpu, u))
      BY <1>2, <1>6 DEF Late, Follows
    <3> QED
      BY <1>3, <3>1 DEF Late
  <2> QED
    BY <2>1 DEF PriceInv, LateOK
<1>15. LowOK(F)'
  <2>1. priority[t] >= -21 - 10 * K
    <3>1. /\ priority[t] <= 200
          /\ priority[t] < 200 => priority[t] >= priority[cpu] - 30 /\ priority[cpu] >= 9 - 10 * K
      BY <1>3 DEF PriceInv, CreatorOK, INITIAL_PRIO
    <3> QED
      BY <1>3, <1>4, <3>1
  <2> QED
    BY <1>2, <1>6, <2>1 DEF PriceInv, LowOK, K
<1> QED
  BY <1>8, <1>9, <1>10, <1>11, <1>12, <1>13, <1>14, <1>15 DEF PriceInv

\* The three tasks of the boot: nobody has been aged, so each costs the same.
LEMMA PriceSti ==
  ASSUME SchedInv, Sti, NEW F \in SUBSET Task, PriceInv(F), BootTasks >= 2
  PROVE  PriceInv(F)'
<1>1. ~iflag /\ UNCHANGED <<tasks, state, priority, current, cpu>> /\ Linked' = Linked /\ Live' = Live
  BY DEF Sti, Linked, Live
<1>2. Len(tasks) >= 3 /\ tasks \in Seq(Task) /\ DOMAIN tasks = 1 .. Len(tasks) /\ Len(tasks) \in Nat
  BY BootAssumption DEF Sti, SchedInv, TypeOK
<1>3. 1 \in DOMAIN tasks /\ 2 \in DOMAIN tasks /\ 3 \in DOMAIN tasks
  BY <1>2
<1>4. tasks[1] \in Live /\ tasks[2] \in Live /\ tasks[3] \in Live
  <2>1. state[tasks[1]] # TS_STOPPED
    BY DEF SchedInv, ListOK, PriceInv, StatesOK
  <2>2. state[tasks[2]] # TS_STOPPED
    <3>1. ~HalfCreated(1) /\ 1 + 1 = 2
      BY <1>3 DEF Sti
    <3> QED
      BY <1>3, <3>1 DEF HalfCreated
  <2>3. state[tasks[3]] # TS_STOPPED
    BY <1>1, <1>3 DEF PriceInv, Booting
  <2> QED
    BY <1>3, <2>1, <2>2, <2>3 DEF Live, Linked, ToSet
<1>5. tasks[1] # tasks[2] /\ tasks[2] # tasks[3] /\ tasks[1] # tasks[3]
  BY <1>3 DEF SchedInv, ListOK
<1>6. priority[tasks[1]] = 200 /\ priority[tasks[2]] = 200 /\ priority[tasks[3]] = 200
  BY <1>1, <1>2, <1>3 DEF PriceInv, Booting, INITIAL_PRIO
<1>7. ThreeCheap'
  <2>1. priority[tasks[1]] + priority[tasks[2]] + priority[tasks[3]] <= 3 * INITIAL_PRIO
    BY <1>6 DEF INITIAL_PRIO
  <2> QED
    BY <1>1, <1>4, <1>5, <2>1 DEF ThreeCheap
<1>8. Booting'
  BY DEF Sti, Booting
<1>9. StatesOK' /\ HighOK' /\ FreshOK(F)' /\ LowOK(F)'
  BY <1>1 DEF PriceInv, StatesOK, HighOK, FreshOK, LowOK
<1>10. CreatorOK(F)' /\ FewOK(F)' /\ LateOK(F)'
  BY <1>1 DEF PriceInv, CreatorOK, FewOK, LateOK, Late, Follows, Deep, K
<1> QED
  BY <1>7, <1>8, <1>9, <1>10 DEF PriceInv

\* At boot nobody but TASK0 takes part.
LEMMA PriceInit ==
  ASSUME Init, SchedInv, IsFiniteSet(Task), NEW F \in SUBSET Task, F = Task \ {TASK0}
  PROVE  PriceInv(F)
<1>1. /\ tasks = <<TASK0>> /\ cpu = TASK0 /\ ~iflag
      /\ \A v \in Task : priority[v] = 200
      /\ state[TASK0] = TS_RUNNING
      /\ \A v \in Task \ {TASK0} : state[v] = TS_STOPPED
      /\ K \in Nat /\ TASK0 \in Task
  BY TaskAssumption, FS_CardinalityType DEF Init, INITIAL_PRIO, K
<1>2. DOMAIN tasks = {1} /\ tasks[1] = TASK0 /\ Linked = {TASK0}
  BY <1>1 DEF Linked, ToSet
<1>3. Live = {TASK0}
  BY <1>1, <1>2 DEF Live, TS_RUNNING, TS_STOPPED
<1>4. StatesOK /\ ThreeCheap /\ HighOK /\ FreshOK(F)
  BY <1>1, <1>2, <1>3 DEF StatesOK, ThreeCheap, HighOK, FreshOK, INITIAL_PRIO, TS_RUNNING, TS_STOPPED
<1>5. Booting
  BY <1>1, <1>2 DEF Booting, INITIAL_PRIO
<1>6. CreatorOK(F)
  BY <1>2 DEF CreatorOK, Follows
<1>7. FewOK(F)
  BY <1>1 DEF FewOK, Deep, K
<1>8. LateOK(F)
  BY <1>1 DEF LateOK, Late, INITIAL_PRIO
<1>9. LowOK(F)
  <2>1. \A v \in Task : priority[v] >= -21 - 10 * K /\ priority[v] >= -31 - 10 * K
    BY <1>1
  <2> QED
    BY <1>1, <2>1 DEF LowOK, K
<1> QED
  BY <1>4, <1>5, <1>6, <1>7, <1>8, <1>9 DEF PriceInv

\* The invariant is inductive; after a tick all published tasks take part.
LEMMA PriceStep ==
  ASSUME IsFiniteSet(Task), BootTasks >= 2, SchedInv, [Next]_vars,
         \E F \in SUBSET Task : PriceInv(F)
  PROVE  (\E F \in SUBSET Task : PriceInv(F))'
<1>1. PICK F \in SUBSET Task : PriceInv(F)
  OBVIOUS
<1>2. CASE DoTimer
  <2>1. K >= 3
    <3>1. PICK a \in Live, b \in Live, c \in Live : a # b /\ b # c /\ a # c
      BY <1>1, <1>2 DEF DoTimer, PriceInv, ThreeCheap
    <3>2. {a, b, c} \subseteq Task
      BY BaseIsCurrent DEF Live
    <3>3. Cardinality({a, b, c}) = 3
      BY <3>1, Three
    <3>4. Cardinality({a, b, c}) <= Cardinality(Task)
      BY <3>2, FS_Subset
    <3> QED
      BY <3>3, <3>4, FS_CardinalityType DEF K
  <2>2. PICK G \in SUBSET Task : G = Task \ Live
    OBVIOUS
  <2>3. PriceInv(G)'
    BY <1>1, <1>2, <2>1, <2>2, PriceTick
  <2> QED
    BY <2>3
<1>3. ASSUME NEW t \in Task, NewTask(t) PROVE PriceInv(F)'
  BY <1>1, <1>3, PriceNewTask
<1>4. CASE PublishTask
  BY <1>1, <1>4, PricePublish
<1>5. CASE Sti
  BY <1>1, <1>5, PriceSti
<1>6. CASE UNCHANGED vars
  <2>1. UNCHANGED <<tasks, state, priority, current, cpu, iflag>> /\ Linked' = Linked /\ Live' = Live
    BY <1>6 DEF vars, Linked, Live
  <2>2. StatesOK' /\ Booting' /\ ThreeCheap' /\ HighOK' /\ FreshOK(F)' /\ LowOK(F)'
    BY <1>1, <2>1 DEF PriceInv, StatesOK, Booting, ThreeCheap, HighOK, FreshOK, LowOK
  <2>3. CreatorOK(F)' /\ FewOK(F)' /\ LateOK(F)'
    BY <1>1, <2>1 DEF PriceInv, CreatorOK, FewOK, LateOK, Late, Follows, Deep, K
  <2> QED
    BY <2>2, <2>3 DEF PriceInv
<1> QED
  BY <1>2, <1>3, <1>4, <1>5, <1>6 DEF Next, Create

\* No lower than nine above ten times the number of tasks is who waits its turn.
LEMMA Waiting ==
  ASSUME IsFiniteSet(Task), SchedInv, NEW F \in SUBSET Task, PriceInv(F),
         NEW v \in Live, v \notin F, v # cpu
  PROVE  priority[v] >= 9 - 10 * K
<1>1. v \in Task /\ cpu \in Task /\ priority[v] \in Int /\ K \in Nat
  BY BaseIsCurrent, FS_CardinalityType DEF Live, SchedInv, TypeOK, K
<1>2. Cardinality({v, cpu}) = 2
  BY Couple
<1>3. K >= 2
  BY <1>1, <1>2, FS_Subset, FS_CardinalityType DEF K
<1> SUFFICES ASSUME priority[v] < 9 - 10 * K PROVE FALSE
  BY <1>1
<1> DEFINE S == Deep(K - 2) \union F \union {cpu}
<1>4. v \in Deep(K - 2) \ F /\ K - 2 \in 0 .. K
  BY <1>1, <1>3 DEF Deep
<1>5. Cardinality(S) <= K - 1 - (K - 2)
  BY <1>4 DEF PriceInv, FewOK
<1>6. S \subseteq Task /\ {v, cpu} \subseteq S
  BY <1>1, <1>4 DEF Deep
<1>7. IsFiniteSet(S) /\ Cardinality(S) \in Nat
  BY <1>6, FS_Subset, FS_CardinalityType
<1>8. Cardinality({v, cpu}) <= Cardinality(S)
  BY <1>6, <1>7, FS_Subset
<1> QED
  BY <1>1, <1>2, <1>5, <1>7, <1>8

\* And it bounds the priorities, also those of the half created tasks.
LEMMA PriceBounds ==
  ASSUME IsFiniteSet(Task), SchedInv, NEW F \in SUBSET Task, PriceInv(F)
  PROVE  PriorityBounded
<1>1. cpu \in Task /\ Linked \subseteq Task /\ (\A v \in Task : priority[v] \in Int) /\ K \in Nat
  BY BaseIsCurrent, FS_CardinalityType DEF SchedInv, TypeOK, K
<1> SUFFICES ASSUME NEW v \in Linked PROVE priority[v] >= -31 - 10 * K
  BY <1>1 DEF PriorityBounded, PriceInv, HighOK, K
<1>2. CASE v = cpu
  BY <1>2 DEF PriceInv, LowOK
<1>3. CASE v \in Live /\ v # cpu
  <2>1. priority[v] >= 9 - 10 * K \/ priority[v] >= -21 - 10 * K
    BY <1>3, Waiting DEF PriceInv, LowOK
  <2> QED
    BY <1>1, <2>1
<1>4. CASE v \notin Live
  <2>1. state[v] = TS_STOPPED /\ v # TASK0
    BY <1>4 DEF Live, PriceInv, StatesOK
  <2>2. PICK j \in DOMAIN tasks : tasks[j] = v
    BY DEF Linked, ToSet
  <2>3. j - 1 \in DOMAIN tasks /\ (j - 1) + 1 = j
    BY <2>1, <2>2 DEF SchedInv, TypeOK, ListOK
  <2>4. PICK c \in Task : c = tasks[j - 1] /\ Follows(c, v)
    BY <2>2, <2>3 DEF Follows, SchedInv, TypeOK
  <2>5. /\ c \notin F
        /\ priority[v] < 200 => /\ priority[v] >= priority[c] - 30
                                /\ c = cpu => priority[c] >= 9 - 10 * K
    BY <1>1, <2>1, <2>4 DEF PriceInv, CreatorOK, INITIAL_PRIO
  <2>6. priority[v] < 200 => priority[c] >= 9 - 10 * K
    <3>1. c \in Live
      BY <2>5 DEF PriceInv, FreshOK
    <3> QED
      BY <2>5, <3>1, Waiting
  <2> QED
    BY <1>1, <2>5, <2>6
<1> QED
  BY <1>2, <1>3, <1>4

\* However many tasks there are, three or more of them from the boot on, and in
\* whatever order they are created and interrupted: no priority ever overflows,
\* for all that do_timer adds and takes at every tick.
THEOREM PrioritiesStay ==
  ASSUME IsFiniteSet(Task), BootTasks >= 2
  PROVE  Spec => []PriorityBounded
<1> DEFINE Priced == \E F \in SUBSET Task : PriceInv(F)
<1>1. Init => Priced
  BY InitInv, PriceInit
<1>2. SchedInv /\ Priced /\ [Next]_vars => Priced'
  BY PriceStep
<1>3. SchedInv /\ Priced => PriorityBounded
  BY PriceBounds
<1> HIDE DEF Priced
<1> QED
  BY <1>1, <1>2, <1>3, Invariance, PTL DEF Spec

----------------------------------------------------------------------------
(* The system init() deploys: TASK0 and the two tasks it creates *)

\* During boot nobody has been aged.  Afterwards the three tasks compete, the
\* sum of the priorities is constant, and no priority is more than one slice
\* (a penalty of 20 against a bonus of 10) away from the running task's.
DeployedInv(a, b) ==
  /\ \A v \in Linked : state[v] \in {TS_RUNNING, TS_RUNABLE, TS_STOPPED}
  /\ state[TASK0] # TS_STOPPED
  /\ ~iflag => \A v \in Task : priority[v] = INITIAL_PRIO
  /\ iflag => /\ Linked = Task
              /\ \A v \in Task : state[v] # TS_STOPPED
              /\ priority[TASK0] + priority[a] + priority[b] = 3 * INITIAL_PRIO
              /\ \A v \in Task : priority[v] \in priority[cpu] .. priority[cpu] + 30

\* The three list positions at the end of boot hold the three tasks.
LEMMA ThreeLinked ==
  ASSUME SchedInv, NEW a, NEW b, Task = {TASK0, a, b}, Len(tasks) = 3
  PROVE  Linked = Task
<1>1. tasks[1] \in Task /\ tasks[2] \in Task /\ tasks[3] \in Task
  <2>1. tasks \in Seq(Task)
    BY DEF SchedInv, TypeOK
  <2>2. \A i \in 1 .. Len(tasks) : tasks[i] \in Task
    BY <2>1, ElementOfSeq
  <2>3. QED
    BY <2>2
<1>2. tasks[1] # tasks[2] /\ tasks[2] # tasks[3] /\ tasks[1] # tasks[3]
  BY DEF SchedInv, TypeOK, ListOK
<1>3. Task \subseteq {tasks[1], tasks[2], tasks[3]}
  BY <1>1, <1>2
<1>4. tasks[1] \in Linked /\ tasks[2] \in Linked /\ tasks[3] \in Linked
  <2>1. 1 \in DOMAIN tasks /\ 2 \in DOMAIN tasks /\ 3 \in DOMAIN tasks
    BY DEF SchedInv, TypeOK
  <2>2. QED
    BY <2>1 DEF Linked, ToSet
<1>5. QED
  BY <1>3, <1>4, BaseIsCurrent

LEMMA DeployedTick ==
  ASSUME NEW a, NEW b, Task = {TASK0, a, b}, a # b, a # TASK0, b # TASK0,
         SchedInv, DeployedInv(a, b), DoTimer
  PROVE  DeployedInv(a, b)'
<1>1. /\ iflag /\ iflag' = iflag /\ Linked = Task /\ Linked' = Task
      /\ cpu \in Task /\ cpu' \in Task /\ current' = cpu' /\ TASK0 \in Task
      /\ \A v \in Task : priority[v] \in Int /\ priority'[v] \in Int
  BY DoTimerInv, BaseIsCurrent, TaskAssumption
  DEF DeployedInv, DoTimer, SchedInv, TypeOK, CurrentRuns, Linked
<1>2. \A v \in Task : state[v] = IF v = cpu THEN TS_RUNNING ELSE TS_RUNABLE
  BY <1>1 DEF DeployedInv, SchedInv, CurrentRuns
<1>3. \A v \in Task : state'[v] = IF v = cpu' THEN TS_RUNNING ELSE TS_RUNABLE
  <2>1. \A v \in Task : state'[v] = TS_RUNNING <=> v = cpu'
    BY <1>1, DoTimerInv DEF SchedInv, CurrentRuns
  <2>2. Base = current /\ current = cpu /\ Scheduler(priority')
    BY BaseIsCurrent DEF SchedInv, CurrentRuns, DoTimer
  <2>3. state \in [Task -> 0 .. 4]
    BY DEF SchedInv, TypeOK
  <2>4. CASE NoSwitch
    BY <1>1, <1>2, <2>1, <2>4 DEF NoSwitch
  <2>5. ASSUME NEW tmp \in Task, SwitchTo(tmp)
        PROVE  \A v \in Task : state'[v] = IF v = cpu' THEN TS_RUNNING ELSE TS_RUNABLE
    BY <1>1, <1>2, <2>2, <2>3, <2>5 DEF SwitchTo, TS_RUNNING, TS_RUNABLE
  <2>6. \A i \in DOMAIN tasks : tasks[i] \in Task
    BY DEF SchedInv, TypeOK
  <2>7. QED
    BY <2>2, <2>4, <2>5, <2>6 DEF Scheduler
<1>4. priority[cpu] > 0
  <2>1. priority[a] \in Int /\ priority[b] \in Int /\ priority[TASK0] \in Int
    BY <1>1
  <2>2. /\ priority[TASK0] + priority[a] + priority[b] = 600
        /\ priority[a] <= priority[cpu] + 30
        /\ priority[b] <= priority[cpu] + 30
        /\ priority[TASK0] <= priority[cpu] + 30
    BY <1>1 DEF DeployedInv, INITIAL_PRIO
  <2>3. QED
    BY <1>1, <2>1, <2>2
<1>5. \A v \in Task : priority'[v] = IF v = cpu THEN priority[v] + 20 ELSE priority[v] - 10
  <2>1. ASSUME NEW v \in Task
        PROVE  Aged(v) = IF v = cpu THEN priority[v] + 20 ELSE priority[v] - 10
    BY <1>1, <1>2, <1>4 DEF Aged, Charged, TS_RUNNING, TS_RUNABLE, TS_SLEEP
  <2>2. QED
    BY <1>1, <2>1 DEF DoTimer
<1>6. priority'[TASK0] + priority'[a] + priority'[b] = 3 * INITIAL_PRIO
  <2>1. priority[TASK0] + priority[a] + priority[b] = 3 * INITIAL_PRIO
    BY <1>1 DEF DeployedInv
  <2>2. CASE cpu = TASK0
    BY <1>1, <1>5, <2>1, <2>2 DEF INITIAL_PRIO
  <2>3. CASE cpu = a
    BY <1>1, <1>5, <2>1, <2>3 DEF INITIAL_PRIO
  <2>4. CASE cpu = b
    BY <1>1, <1>5, <2>1, <2>4 DEF INITIAL_PRIO
  <2>5. QED
    BY <1>1, <2>2, <2>3, <2>4
<1>7. ASSUME NEW v \in Task
      PROVE  priority'[v] \in priority'[cpu'] .. priority'[cpu'] + 30
  <2>1. priority'[cpu'] <= priority'[v]
    <3>1. CASE v = cpu'
      BY <1>1, <3>1
    <3>2. CASE v # cpu'
      BY <1>1, <1>3, <3>2, BestStep
    <3>3. QED
      BY <3>1, <3>2
  <2>2. \A u \in Task : priority[u] >= priority[cpu] /\ priority[u] <= priority[cpu] + 30
    BY <1>1 DEF DeployedInv
  <2>3. priority'[v] <= priority[cpu] + 20 /\ priority'[cpu'] >= priority[cpu] - 10
    BY <1>1, <1>5, <2>2
  <2>4. QED
    BY <1>1, <2>1, <2>3
<1>8. QED
  BY <1>1, <1>3, <1>6, <1>7, TaskAssumption
  DEF DeployedInv, TS_RUNNING, TS_RUNABLE, TS_STOPPED

\* In the deployed system every priority stays within 20 of INITIAL_PRIO, so the
\* clamp of do_timer is dead code there and the int cannot overflow.
LEMMA DeployedRange ==
  ASSUME NEW a, NEW b, Task = {TASK0, a, b}, SchedInv, DeployedInv(a, b)
  PROVE  \A v \in Linked : priority[v] \in 180 .. 220
<1>1. /\ TASK0 \in Task /\ cpu \in Task /\ Linked \subseteq Task
      /\ \A v \in Task : priority[v] \in Int
  BY TaskAssumption, BaseIsCurrent DEF SchedInv, TypeOK
<1>2. CASE ~iflag
  BY <1>1, <1>2 DEF DeployedInv, INITIAL_PRIO
<1>3. CASE iflag
  <2>1. /\ priority[TASK0] + priority[a] + priority[b] = 600
        /\ \A v \in Task : priority[cpu] <= priority[v] /\ priority[v] <= priority[cpu] + 30
    BY <1>1, <1>3 DEF DeployedInv, INITIAL_PRIO
  <2>2. /\ priority[a] \in Int /\ priority[b] \in Int /\ priority[TASK0] \in Int
        /\ priority[cpu] \in Int
    BY <1>1
  <2>3. ASSUME NEW v \in Task PROVE priority[v] \in 180 .. 220
    BY <1>1, <2>1, <2>2
  <2>4. QED
    BY <1>1, <2>3
<1>4. QED
  BY <1>2, <1>3

\* Boot starts with TASK0 alone.
LEMMA DeployedStart ==
  ASSUME NEW a, NEW b, Init, SchedInv
  PROVE  DeployedInv(a, b)
<1>1. Linked \subseteq Task
  BY BaseIsCurrent
<1>2. QED
  BY <1>1, TaskAssumption DEF Init, DeployedInv, TS_RUNNING, TS_RUNABLE, TS_STOPPED

\* No step leaves DeployedInv: after sti the list is full, so only ticks remain.
LEMMA DeployedStep ==
  ASSUME NEW a, NEW b, Task = {TASK0, a, b}, a # b, a # TASK0, b # TASK0, BootTasks = 2,
         SchedInv, SchedInv', DeployedInv(a, b), [Next]_vars
  PROVE  DeployedInv(a, b)'
<1>1. CASE DoTimer
  BY <1>1, DeployedTick
<1>2. ASSUME NEW t \in Task, NewTask(t) PROVE DeployedInv(a, b)'
  <2>1. ~iflag /\ ~iflag' /\ t # TASK0 /\ t \notin Linked
    <3>1. t \notin Linked /\ iflag' = iflag
      BY <1>2 DEF NewTask
    <3>2. 1 \in DOMAIN tasks /\ tasks[1] = TASK0
      BY BaseIsCurrent DEF SchedInv, TypeOK, ListOK, Linked, ToSet
    <3>3. TASK0 \in Linked
      BY <3>2 DEF Linked, ToSet
    <3>4. QED
      BY <3>1, <3>3 DEF DeployedInv
  <2>2. Linked' = Linked \union {t}
    BY <1>2, NewTaskLinks
  <2>3. state' = [state EXCEPT ![t] = TS_STOPPED]
        /\ priority' = [priority EXCEPT ![t] = INITIAL_PRIO]
    BY <1>2 DEF NewTask
  <2>4. Linked' \subseteq Task
    BY <2>2, BaseIsCurrent
  <2>5. QED
    BY <2>1, <2>2, <2>3, <2>4, TaskAssumption DEF DeployedInv, SchedInv, TypeOK
<1>3. CASE PublishTask
  <2>1. PICK i \in DOMAIN tasks :
          HalfCreated(i) /\ state' = [state EXCEPT ![tasks[i + 1]] = TS_RUNABLE]
    BY <1>3 DEF PublishTask
  <2>2. UNCHANGED <<tasks, priority, current, cpu, iflag>> /\ Linked' = Linked
    BY <1>3 DEF PublishTask, Linked
  <2>3. Linked \subseteq Task
    BY BaseIsCurrent
  <2>4. QED
    BY <2>1, <2>2, <2>3, TaskAssumption
    DEF DeployedInv, SchedInv, TypeOK, TS_RUNNING, TS_RUNABLE, TS_STOPPED
<1>4. CASE Sti
  <2>1. /\ ~iflag /\ Len(tasks) = 3 /\ \A i \in DOMAIN tasks : ~HalfCreated(i)
        /\ UNCHANGED <<tasks, state, priority, current, cpu>> /\ iflag' = TRUE
    BY <1>4 DEF Sti
  <2>2. Linked = Task /\ Linked' = Task
    BY <2>1, ThreeLinked DEF Linked
  <2>3. state[tasks[2]] # TS_STOPPED /\ state[tasks[3]] # TS_STOPPED
    <3>1. 1 \in DOMAIN tasks /\ 2 \in DOMAIN tasks /\ 3 \in DOMAIN tasks
      BY <2>1 DEF SchedInv, TypeOK
    <3>2. 1 + 1 = 2 /\ 2 + 1 = 3
      OBVIOUS
    <3>3. QED
      BY <2>1, <3>1, <3>2 DEF HalfCreated
  <2>4. ASSUME NEW v \in Task PROVE state[v] # TS_STOPPED
    <3>1. PICK j \in DOMAIN tasks : tasks[j] = v
      BY <2>2 DEF Linked, ToSet
    <3>2. j \in {1, 2, 3}
      BY <2>1 DEF SchedInv, TypeOK
    <3>3. tasks[1] = TASK0
      BY DEF SchedInv, ListOK
    <3>4. QED
      BY <2>3, <3>1, <3>2, <3>3 DEF DeployedInv
  <2>5. \A v \in Task : priority[v] = 200
    BY <2>1 DEF DeployedInv, INITIAL_PRIO
  <2>6. cpu \in Task /\ a \in Task /\ b \in Task
    BY DEF SchedInv, TypeOK
  <2>7. QED
    BY <2>1, <2>2, <2>4, <2>5, <2>6, TaskAssumption DEF DeployedInv, INITIAL_PRIO
<1>5. CASE UNCHANGED vars
  BY <1>5 DEF vars, DeployedInv, Linked
<1>6. QED
  BY <1>1, <1>2, <1>3, <1>4, <1>5 DEF Next, Create

----------------------------------------------------------------------------
(* The deployed system implements TimeSharing: bounded waiting *)

\* A task that waits comes nearer to the processor with every tick: what it
\* has waited and what is left of its penalty have a common bound.
WaitInv ==
  /\ waited \in [Task -> Nat]
  /\ ~iflag => \A v \in Task : waited[v] = 0
  /\ iflag => /\ waited[cpu] = 0
              /\ \A v \in Task : priority[v] + 10 * waited[v] <= INITIAL_PRIO + 30

\* Three prices that sum to 600 and lie within 30 of the least: the least is at
\* most 200 and the others are at least 190.
LEMMA ThreePrices ==
  ASSUME NEW S, NEW a \in S, NEW b \in S, NEW d \in S, S = {a, b, d}, a # b, a # d, b # d,
         NEW p, \A v \in S : p[v] \in Int, p[a] + p[b] + p[d] = 600,
         NEW c \in S, \A v \in S : p[c] <= p[v] /\ p[v] <= p[c] + 30
  PROVE  p[c] <= 200 /\ \A v \in S : v # c => p[v] >= 190
<1>1. p[c] <= 200
  OBVIOUS
<1>2. ASSUME NEW v \in S, v # c PROVE p[v] >= 190
  <2>1. PICK u \in S : p[v] + p[c] + p[u] = 600
    BY <1>2
  <2>2. p[c] <= p[v] /\ p[u] <= p[c] + 30
    OBVIOUS
  <2> QED
    BY <2>1, <2>2
<1> QED
  BY <1>1, <1>2

\* The priorities before and after a tick.
LEMMA TickPrices ==
  ASSUME NEW a, NEW b, Task = {TASK0, a, b}, a # b, a # TASK0, b # TASK0,
         SchedInv, DeployedInv(a, b), DoTimer
  PROVE  \A v \in Task : priority'[v] = IF v = cpu THEN priority[v] + 20 ELSE priority[v] - 10
<1>1. Linked = Task /\ cpu \in Task /\ \A v \in Task : priority[v] \in Int
  BY DEF DeployedInv, DoTimer, SchedInv, TypeOK
<1>2. \A v \in Task : state[v] = IF v = cpu THEN TS_RUNNING ELSE TS_RUNABLE
  BY <1>1 DEF DeployedInv, DoTimer, SchedInv, CurrentRuns
<1>3. priority[cpu] > 0
  BY <1>1, DeployedRange
<1>4. \A v \in Task : Aged(v) = IF v = cpu THEN priority[v] + 20 ELSE priority[v] - 10
  BY <1>1, <1>2, <1>3 DEF Aged, Charged, TS_RUNNING, TS_RUNABLE, TS_SLEEP
<1> QED
  BY <1>1, <1>4 DEF DoTimer

\* A tick keeps the bound and is a tick of TimeSharing.
LEMMA WaitTick ==
  ASSUME NEW a, NEW b, Task = {TASK0, a, b}, a # b, a # TASK0, b # TASK0, Patience \in Nat, Patience >= 4,
         SchedInv, SchedInv', DeployedInv(a, b), DeployedInv(a, b)', WaitInv, DoTimer, waited' = Passed
  PROVE  WaitInv' /\ TS!Tick
<1>1. /\ Linked = Task /\ Linked' = Task /\ cpu \in Task /\ cpu' \in Task /\ iflag /\ iflag'
      /\ \A v \in Task : priority[v] \in Int /\ priority'[v] \in Int /\ waited[v] \in Nat
  <2>1. iflag /\ iflag' = iflag
    BY DEF DoTimer
  <2> QED
    BY <2>1 DEF DeployedInv, SchedInv, TypeOK, WaitInv
<1>2. \A v \in Task : /\ state[v] = (IF v = cpu THEN TS_RUNNING ELSE TS_RUNABLE)
                      /\ state'[v] = (IF v = cpu' THEN TS_RUNNING ELSE TS_RUNABLE)
  <2>1. \A v \in Task : /\ state[v] = TS_RUNNING <=> v = cpu
                        /\ state'[v] = TS_RUNNING <=> v = cpu'
    BY DEF SchedInv, CurrentRuns
  <2>2. \A v \in Task : state[v] \in {TS_RUNNING, TS_RUNABLE} /\ state'[v] \in {TS_RUNNING, TS_RUNABLE}
    BY <1>1 DEF DeployedInv
  <2> QED
    BY <2>1, <2>2
<1>3. /\ priority[cpu] <= 200 /\ \A v \in Task : v # cpu => priority[v] >= 190
      /\ priority'[cpu'] <= 200 /\ \A v \in Task : v # cpu' => priority'[v] >= 190
  <2>1. TASK0 \in Task /\ a \in Task /\ b \in Task
    OBVIOUS
  <2>2. /\ priority[a] + priority[b] + priority[TASK0] = 600
        /\ priority'[a] + priority'[b] + priority'[TASK0] = 600
    BY <1>1, <2>1 DEF DeployedInv, INITIAL_PRIO
  <2>3. \A u \in Task : /\ priority[cpu] <= priority[u] /\ priority[u] <= priority[cpu] + 30
                        /\ priority'[cpu'] <= priority'[u] /\ priority'[u] <= priority'[cpu'] + 30
    BY <1>1 DEF DeployedInv
  <2>4. /\ priority[cpu] <= 200
        /\ \A v \in Task : v # cpu => priority[v] >= 190
    BY <1>1, <2>1, <2>2, <2>3, ThreePrices
  <2>5. /\ priority'[cpu'] <= 200
        /\ \A v \in Task : v # cpu' => priority'[v] >= 190
    BY <1>1, <2>1, <2>2, <2>3, ThreePrices
  <2> QED
    BY <2>4, <2>5
<1>4. \A v \in Task : waited[v] \in 0 .. 4
  <2> SUFFICES ASSUME NEW v \in Task PROVE waited[v] \in 0 .. 4
    OBVIOUS
  <2>1. waited[cpu] = 0 /\ priority[v] + 10 * waited[v] <= 230
    BY <1>1 DEF WaitInv, INITIAL_PRIO
  <2> QED
    BY <1>1, <1>3, <2>1
<1>5. waited' = [v \in Task |-> IF v = cpu' THEN 0 ELSE waited[v] + 1]
  <2>1. \A v \in Task : /\ state'[v] # TS_RUNABLE <=> v = cpu'
                        /\ ~(waited[v] > Patience)
    BY <1>2, <1>4 DEF TS_RUNNING, TS_RUNABLE
  <2> QED
    BY <2>1 DEF Passed
<1>6. WaitInv'
  <2>1. waited' \in [Task -> Nat] /\ waited'[cpu'] = 0
    BY <1>1, <1>5
  <2>2. ASSUME NEW v \in Task PROVE priority'[v] + 10 * waited'[v] <= INITIAL_PRIO + 30
    <3>1. priority'[v] = IF v = cpu THEN priority[v] + 20 ELSE priority[v] - 10
      BY TickPrices
    <3>2. CASE v = cpu'
      <4>1. waited'[v] = 0 /\ priority'[v] <= 200
        BY <1>3, <1>5, <3>2
      <4> QED
        BY <1>1, <4>1 DEF INITIAL_PRIO
    <3>3. CASE v # cpu' /\ v = cpu
      <4>1. waited[v] = 0 /\ waited'[v] = 1
        BY <1>1, <1>5, <3>3 DEF WaitInv
      <4>2. priority'[v] <= 220
        BY <1>1, <1>3, <3>1, <3>3
      <4> QED
        BY <1>1, <4>1, <4>2 DEF INITIAL_PRIO
    <3>4. CASE v # cpu' /\ v # cpu
      <4>1. waited'[v] = waited[v] + 1 /\ priority'[v] = priority[v] - 10
        BY <1>5, <3>1, <3>4
      <4>2. priority[v] + 10 * waited[v] <= INITIAL_PRIO + 30
        BY <1>1 DEF WaitInv
      <4> QED
        BY <1>1, <4>1, <4>2 DEF INITIAL_PRIO
    <3> QED
      BY <3>2, <3>3, <3>4
  <2> QED
    BY <1>1, <2>1, <2>2 DEF WaitInv
<1>7. TS!Tick
  <2>1. /\ {v \in Linked : state[v] # TS_STOPPED} = Task
        /\ {v \in Linked' : state'[v] # TS_STOPPED} = Task
    BY <1>1 DEF DeployedInv
  <2>2. \A t \in Task : waited'[t] <= Patience
    <3> SUFFICES ASSUME NEW t \in Task PROVE waited'[t] <= 4
      BY <1>1, <1>5
    <3>1. waited'[cpu'] = 0 /\ waited'[t] \in Nat /\ priority'[t] + 10 * waited'[t] <= 230
      BY <1>1, <1>6 DEF WaitInv, INITIAL_PRIO
    <3> QED
      BY <1>1, <1>3, <3>1
  <2>3. waited' = [t \in Task |-> IF t \in Task \ {cpu'} THEN waited[t] + 1 ELSE 0]
    BY <1>5
  <2> QED
    BY <1>1, <2>1, <2>2, <2>3 DEF TS!Tick
<1> QED
  BY <1>6, <1>7

\* Boot links and publishes tasks, none of which waits before sti: publishing
\* one is a Join, everything else changes nothing TimeSharing can see.
LEMMA WaitOther ==
  ASSUME NEW a, NEW b, Task = {TASK0, a, b}, a # b, a # TASK0, b # TASK0, BootTasks = 2,
         SchedInv, SchedInv', DeployedInv(a, b), DeployedInv(a, b)', WaitInv,
         Create \/ Sti, UNCHANGED waited
  PROVE  WaitInv' /\ [TS!Next]_(TS!vars)
<1>1. Linked \subseteq Task /\ Linked' \subseteq Task /\ cpu \in Task /\ cpu' \in Task /\ cpu \in Linked
  <2>1. Linked \subseteq Task
    BY BaseIsCurrent
  <2>2. \A i \in DOMAIN tasks' : tasks'[i] \in Task
    BY DEF SchedInv, TypeOK
  <2> QED
    BY <2>1, <2>2 DEF SchedInv, TypeOK, Linked, ToSet, CurrentRuns
<1>2. ASSUME NEW t \in Task, NewTask(t) PROVE WaitInv' /\ UNCHANGED TS!vars
  <2>1. /\ t \notin Linked /\ iflag' = iflag /\ cpu' = cpu
        /\ state' = [state EXCEPT ![t] = TS_STOPPED]
    BY <1>2 DEF NewTask
  <2>2. ~iflag
    BY <1>1, <2>1 DEF DeployedInv
  <2>3. Linked' = Linked \union {t}
    BY <1>2, NewTaskLinks
  <2>4. {v \in Linked' : state'[v] # TS_STOPPED} = {v \in Linked : state[v] # TS_STOPPED}
    BY <1>1, <2>1, <2>3 DEF SchedInv, TypeOK
  <2> QED
    BY <2>1, <2>2, <2>4 DEF WaitInv, TS!vars
<1>3. CASE PublishTask
  <2>1. PICK i \in DOMAIN tasks :
          HalfCreated(i) /\ state' = [state EXCEPT ![tasks[i + 1]] = TS_RUNABLE]
    BY <1>3 DEF PublishTask
  <2>2. UNCHANGED <<cpu, iflag>> /\ Linked' = Linked
    BY <1>3 DEF PublishTask, Linked
  <2>3. tasks[i + 1] \in Linked /\ state[tasks[i + 1]] = TS_STOPPED
    BY <2>1 DEF HalfCreated, Linked, ToSet
  <2>4. ~iflag
    BY <1>1, <2>3 DEF DeployedInv
  <2>5. {v \in Linked' : state'[v] # TS_STOPPED}
          = {v \in Linked : state[v] # TS_STOPPED} \union {tasks[i + 1]}
    BY <1>1, <2>1, <2>2, <2>3 DEF SchedInv, TypeOK, TS_RUNABLE, TS_STOPPED
  <2>6. PICK t \in Task : t = tasks[i + 1]
    BY <1>1, <2>3
  <2>7. WaitInv'
    BY <2>2, <2>4 DEF WaitInv
  <2>8. TS!Next
    <3>1. TS!Join(t)
      BY <2>2, <2>5, <2>6 DEF TS!Join
    <3> QED
      BY <3>1 DEF TS!Next
  <2> QED
    BY <2>7, <2>8
<1>4. CASE Sti
  <2>1. ~iflag /\ iflag' /\ UNCHANGED <<state, cpu, priority>> /\ Linked' = Linked
    BY <1>4 DEF Sti, Linked
  <2>2. WaitInv'
    BY <1>1, <2>1 DEF WaitInv, DeployedInv, INITIAL_PRIO
  <2> QED
    BY <2>1, <2>2 DEF TS!vars
<1> QED
  BY <1>2, <1>3, <1>4 DEF Create

\* The history variable only watches.
LEMMA MCStep == [MCNext]_mcvars => [Next]_vars
BY DEF MCNext, mcvars, Next, vars

\* The steps of ImplementsTimeSharing for the deployed system: whatever the order
\* of ticks and creations, every tick gives the processor to a ready task and no
\* ready task is ever passed over more than four ticks in a row (do_timer and
\* scheduler).  That the ticks go on is left to TLC.
THEOREM DeployedSharing ==
  ASSUME NEW a, NEW b, Task = {TASK0, a, b}, a # b, a # TASK0, b # TASK0,
         BootTasks = 2, Patience \in Nat, Patience >= 4
  PROVE  MCSpec => TS!Init /\ [][TS!Next]_(TS!vars)
<1> DEFINE Shared == SchedInv /\ DeployedInv(a, b) /\ WaitInv
<1>1. MCInit => Shared /\ TS!Init
  <2> SUFFICES ASSUME MCInit PROVE Shared /\ TS!Init
    OBVIOUS
  <2>1. Init /\ waited = [v \in Task |-> 0]
    BY DEF MCInit
  <2>2. SchedInv
    BY <2>1, InitInv
  <2>3. DeployedInv(a, b)
    BY <2>1, <2>2, DeployedStart
  <2>4. WaitInv
    BY <2>1, TaskAssumption DEF Init, WaitInv
  <2>5. {v \in Linked : state[v] # TS_STOPPED} = {TASK0}
    <3>1. TASK0 \in Linked
      BY <2>1, <2>2 DEF SchedInv, CurrentRuns, Init
    <3> QED
      BY <2>1, <2>2, <3>1, BaseIsCurrent DEF Init, TS_RUNNING, TS_STOPPED
  <2> QED
    BY <2>1, <2>2, <2>3, <2>4, <2>5 DEF TS!Init, Init
<1>2. Shared /\ [MCNext]_mcvars => Shared' /\ [TS!Next]_(TS!vars)
  <2> SUFFICES ASSUME Shared, [MCNext]_mcvars PROVE Shared' /\ [TS!Next]_(TS!vars)
    OBVIOUS
  <2>1. [Next]_vars
    BY MCStep
  <2>2. SchedInv'
    BY <2>1, StepInv
  <2>3. DeployedInv(a, b)'
    BY <2>1, <2>2, DeployedStep
  <2>4. CASE DoTimer /\ waited' = Passed
    <3>1. WaitInv' /\ TS!Tick
      BY <2>2, <2>3, <2>4, WaitTick
    <3> QED
      BY <2>2, <2>3, <3>1 DEF TS!Next
  <2>5. CASE (Create \/ Sti) /\ UNCHANGED waited
    BY <2>2, <2>3, <2>5, WaitOther
  <2>6. CASE UNCHANGED mcvars
    BY <2>2, <2>3, <2>6 DEF mcvars, WaitInv, TS!vars, Linked
  <2> QED
    BY <2>4, <2>5, <2>6 DEF MCNext
<1> HIDE DEF Shared
<1> QED
  BY <1>1, <1>2, PTL DEF MCSpec

----------------------------------------------------------------------------
(* Any number of tasks share the time: bounded waiting *)

\* What a task has waited since it was charged or published it has gained.
WaitedInv ==
  /\ waited \in [Task -> Nat] /\ waited[cpu] = 0
  /\ \A v \in Task \ Linked : state[v] = TS_STOPPED
  /\ \A v \in Task \ Live : waited[v] = 0
  /\ \A v \in Live : priority[v] + 10 * waited[v] <= INITIAL_PRIO + 30

\* So nobody has waited longer than the priorities reach down.
LEMMA NoLonger ==
  IsFiniteSet(Task) /\ SchedInv /\ PriorityBounded /\ WaitedInv => \A v \in Task : waited[v] <= K + 26
<1> SUFFICES ASSUME IsFiniteSet(Task), SchedInv, PriorityBounded, WaitedInv, NEW v \in Task
             PROVE  waited[v] <= K + 26
  OBVIOUS
<1>1. K \in Nat /\ waited[v] \in Nat /\ priority[v] \in Int
  BY FS_CardinalityType DEF K, WaitedInv, SchedInv, TypeOK
<1>2. CASE v \in Live
  <2>1. priority[v] + 10 * waited[v] <= 230
    BY <1>2 DEF WaitedInv, INITIAL_PRIO
  <2>2. priority[v] >= -(31 + 10 * K)
    BY <1>1, <1>2 DEF PriorityBounded, Live, K
  <2> QED
    BY <1>1, <2>1, <2>2
<1>3. CASE v \notin Live
  BY <1>1, <1>3 DEF WaitedInv
<1> QED
  BY <1>2, <1>3

\* A tick takes 10 of the priority of all that are passed over, whoever they are.
LEMMA WaitedTick ==
  ASSUME IsFiniteSet(Task), SchedInv, NEW F \in SUBSET Task, PriceInv(F), PriorityBounded, PriorityBounded',
         WaitedInv, DoTimer, waited' = Passed, Patience \in Nat, Patience >= K + 26
  PROVE  WaitedInv' /\ TS!Tick
<1>1. /\ SchedInv' /\ Linked' = Linked /\ Linked \subseteq Task /\ cpu \in Linked
      /\ \A v \in Task : priority[v] \in Int /\ priority'[v] \in Int
      /\ \A v \in Linked \ {cpu} : priority'[v] = priority[v] - 10
      /\ state' \in [Task -> 0 .. 4] /\ cpu' \in Task
  BY TickAges DEF PriceInv, SchedInv, TypeOK
<1>2. /\ Live' = Live /\ StatesOK' /\ cpu \in Live /\ cpu' \in Live /\ Live \subseteq Linked
  BY TickLive DEF PriceInv, Live
<1>3. HighOK'
  BY TickThree DEF PriceInv
<1>4. \A v \in Task \ Linked : state'[v] = TS_STOPPED
  <2>1. \/ state' = state
        \/ \E u \in Linked : state' = [state EXCEPT ![cpu] = TS_RUNABLE, ![u] = TS_RUNNING]
    <3>1. Base = cpu /\ Scheduler(priority')
      BY BaseIsCurrent DEF SchedInv, CurrentRuns, DoTimer
    <3>2. \A i \in DOMAIN tasks : tasks[i] \in Linked
      BY DEF Linked, ToSet
    <3> QED
      BY <3>1, <3>2 DEF Scheduler, NoSwitch, SwitchTo
  <2>2. state \in [Task -> 0 .. 4] /\ \A v \in Task \ Linked : state[v] = TS_STOPPED
    BY DEF SchedInv, TypeOK, WaitedInv
  <2> QED
    BY <1>1, <2>1, <2>2
<1>5. \A v \in Task : state'[v] = TS_RUNABLE <=> v \in Live \ {cpu'}
  <2> SUFFICES ASSUME NEW v \in Task PROVE state'[v] = TS_RUNABLE <=> v \in Live \ {cpu'}
    OBVIOUS
  <2>1. state'[v] = TS_RUNNING <=> v = cpu'
    BY <1>1 DEF SchedInv, CurrentRuns
  <2>2. v \in Live <=> v \in Linked /\ state'[v] # TS_STOPPED
    BY <1>1, <1>2 DEF Live
  <2>3. v \in Linked => state'[v] \in {TS_RUNNING, TS_RUNABLE, TS_STOPPED}
    BY <1>1, <1>2 DEF StatesOK
  <2> QED
    BY <1>1, <1>4, <2>1, <2>2, <2>3 DEF TS_RUNNING, TS_RUNABLE, TS_STOPPED
<1>6. \A v \in Task : waited[v] \in Nat /\ ~(waited[v] > Patience)
  <2> SUFFICES ASSUME NEW v \in Task PROVE waited[v] \in Nat /\ ~(waited[v] > Patience)
    OBVIOUS
  <2>1. waited[v] \in Nat /\ waited[v] <= K + 26 /\ K \in Nat
    BY NoLonger, FS_CardinalityType DEF WaitedInv, K
  <2> QED
    BY <2>1
<1>7. waited' = [v \in Task |-> IF v \in Live \ {cpu'} THEN waited[v] + 1 ELSE 0]
  BY <1>5, <1>6 DEF Passed
<1>8. WaitedInv'
  <2>1. waited' \in [Task -> Nat] /\ waited'[cpu'] = 0 /\ \A v \in Task \ Live : waited'[v] = 0
    BY <1>1, <1>6, <1>7
  <2>2. ASSUME NEW v \in Live PROVE priority'[v] + 10 * waited'[v] <= 230
    <3>1. v \in Linked /\ v \in Task
      BY <1>1, <1>2
    <3>2. CASE v = cpu'
      <4>1. waited'[v] = 0 /\ priority'[v] <= 200
        BY <1>3, <1>7, <3>1, <3>2 DEF HighOK, INITIAL_PRIO
      <4> QED
        BY <1>1, <3>1, <4>1
    <3>3. CASE v # cpu' /\ v = cpu
      <4>1. waited'[v] = 1 /\ priority'[v] <= 220
        BY <1>1, <1>3, <1>7, <3>1, <3>3 DEF HighOK, WaitedInv
      <4> QED
        BY <1>1, <3>1, <4>1
    <3>4. CASE v # cpu' /\ v # cpu
      <4>1. waited'[v] = waited[v] + 1 /\ priority'[v] = priority[v] - 10
        BY <1>1, <1>7, <3>1, <3>4
      <4>2. priority[v] + 10 * waited[v] <= 230
        BY DEF WaitedInv, INITIAL_PRIO
      <4> QED
        BY <1>1, <1>6, <3>1, <4>1, <4>2
    <3> QED
      BY <3>2, <3>3, <3>4
  <2> QED
    BY <1>1, <1>2, <1>4, <2>1, <2>2 DEF WaitedInv, INITIAL_PRIO
<1>9. TS!Tick
  <2>1. \A t \in Task : waited'[t] <= Patience
    <3> SUFFICES ASSUME NEW t \in Task PROVE waited'[t] <= Patience
      OBVIOUS
    <3>1. waited'[t] <= K + 26
      <4>1. (IsFiniteSet(Task) /\ SchedInv /\ PriorityBounded /\ WaitedInv => \A v \in Task : waited[v] <= K + 26)'
        BY NoLonger, PTL
      <4> QED
        BY <1>1, <1>8, <4>1 DEF K
    <3>2. waited'[t] \in Nat /\ K \in Nat
      BY <1>6, <1>7, FS_CardinalityType DEF K
    <3> QED
      BY <3>1, <3>2
  <2> QED
    BY <1>2, <1>7, <2>1 DEF TS!Tick, Live
<1> QED
  BY <1>8, <1>9

\* Creating a task concerns nobody who waits.
LEMMA WaitedOther ==
  ASSUME SchedInv, SchedInv', NEW F \in SUBSET Task, PriceInv(F), WaitedInv, Create \/ Sti, UNCHANGED waited
  PROVE  WaitedInv' /\ [TS!Next]_(TS!vars)
<1>1. /\ Linked \subseteq Task /\ cpu \in Linked /\ waited \in [Task -> Nat]
      /\ priority \in [Task -> Int] /\ state \in [Task -> 0 .. 4]
  BY BaseIsCurrent DEF SchedInv, TypeOK, CurrentRuns, WaitedInv
<1>2. ASSUME NEW t \in Task, NewTask(t) PROVE WaitedInv' /\ UNCHANGED TS!vars
  <2>1. /\ t \notin Linked /\ cpu' = cpu /\ Linked' = Linked \union {t}
        /\ state' = [state EXCEPT ![t] = TS_STOPPED]
        /\ priority' = [priority EXCEPT ![t] = INITIAL_PRIO]
    BY <1>2, NewTaskLinks DEF NewTask
  <2>2. Live' = Live /\ t \notin Live
    BY <1>1, <2>1 DEF Live
  <2>3. WaitedInv'
    <3>1. \A v \in Live : priority'[v] = priority[v]
      BY <1>1, <2>1, <2>2 DEF Live
    <3>2. \A v \in Task \ Linked' : state'[v] = TS_STOPPED
      BY <1>1, <2>1 DEF WaitedInv
    <3> QED
      BY <2>1, <2>2, <3>1, <3>2 DEF WaitedInv
  <2> QED
    BY <2>1, <2>2, <2>3 DEF TS!vars, Live
<1>3. CASE PublishTask
  <2>1. PICK i \in DOMAIN tasks :
          tasks[i] = cpu /\ HalfCreated(i) /\ state' = [state EXCEPT ![tasks[i + 1]] = TS_RUNABLE]
    BY <1>3 DEF PublishTask
  <2>2. PICK t \in Task : t = tasks[i + 1] /\ t \in Linked /\ state[t] = TS_STOPPED /\ Follows(cpu, t)
    <3>1. i + 1 \in DOMAIN tasks /\ state[tasks[i + 1]] = TS_STOPPED
      BY <2>1 DEF HalfCreated
    <3>2. tasks[i + 1] \in Linked
      BY <3>1 DEF Linked, ToSet
    <3>3. Follows(cpu, tasks[i + 1])
      BY <2>1, <3>1 DEF Follows
    <3> QED
      BY <1>1, <3>1, <3>2, <3>3
  <2>3. UNCHANGED <<cpu, priority>> /\ Linked' = Linked /\ state' = [state EXCEPT ![t] = TS_RUNABLE]
    BY <1>3, <2>1, <2>2 DEF PublishTask, Linked
  <2>4. Live' = Live \union {t} /\ t \notin Live
    BY <1>1, <2>2, <2>3 DEF Live, TS_RUNABLE, TS_STOPPED
  <2>5. waited[t] = 0 /\ priority[t] <= 200
    BY <1>1, <2>2, <2>4 DEF WaitedInv, PriceInv, CreatorOK, INITIAL_PRIO
  <2>6. priority[t] + 10 * waited[t] <= INITIAL_PRIO + 30
    BY <1>1, <2>5 DEF INITIAL_PRIO
  <2>7. WaitedInv'
    BY <1>1, <2>2, <2>3, <2>4, <2>6 DEF WaitedInv
  <2>8. TS!Join(t)
    BY <2>3, <2>4 DEF TS!Join, Live
  <2> QED
    BY <2>7, <2>8 DEF TS!Next
<1>4. CASE Sti
  BY <1>4 DEF Sti, WaitedInv, Live, Linked, TS!vars
<1> QED
  BY <1>2, <1>3, <1>4 DEF Create

\* The steps of ImplementsTimeSharing for any number of tasks, created whenever
\* and by whomever: every tick gives the processor to a ready task, and none is
\* passed over more often than there are tasks and 26 times more, what its
\* priority may reach above and below the first round (do_timer and scheduler).
THEOREM TimeIsShared ==
  ASSUME IsFiniteSet(Task), BootTasks >= 2, Patience \in Nat, Patience >= Cardinality(Task) + 26
  PROVE  MCSpec => TS!Init /\ [][TS!Next]_(TS!vars)
<1> DEFINE Priced == \E F \in SUBSET Task : PriceInv(F)
<1>1. MCInit => SchedInv /\ Priced /\ WaitedInv /\ TS!Init
  <2> SUFFICES ASSUME MCInit PROVE SchedInv /\ Priced /\ WaitedInv /\ TS!Init
    OBVIOUS
  <2>1. Init /\ waited = [v \in Task |-> 0] /\ SchedInv
    BY InitInv DEF MCInit
  <2>2. \E F \in SUBSET Task : PriceInv(F)
    BY <2>1, PriceInit
  <2>3. Live = {TASK0} /\ Linked = {TASK0} /\ cpu = TASK0
    <3>1. DOMAIN tasks = {1} /\ tasks[1] = TASK0
      BY <2>1 DEF Init
    <3>2. Linked = {TASK0}
      BY <3>1 DEF Linked, ToSet
    <3> QED
      BY <2>1, <3>2, TaskAssumption DEF Init, Live, TS_RUNNING, TS_STOPPED
  <2>4. WaitedInv
    <3>1. /\ \A v \in Task : waited[v] = 0 /\ priority[v] = 200
          /\ \A v \in Task \ {TASK0} : state[v] = TS_STOPPED
      BY <2>1 DEF Init, INITIAL_PRIO
    <3> QED
      BY <2>1, <2>3, <3>1, TaskAssumption DEF WaitedInv, INITIAL_PRIO
  <2> QED
    BY <2>1, <2>2, <2>3, <2>4 DEF TS!Init, Live
<1>2. SchedInv /\ Priced /\ [MCNext]_mcvars => SchedInv' /\ Priced'
  BY MCStep, StepInv, PriceStep
<1>3. SchedInv /\ Priced => PriorityBounded
  BY PriceBounds
<1>4. SchedInv /\ SchedInv' /\ Priced /\ PriorityBounded /\ PriorityBounded' /\ WaitedInv /\ [MCNext]_mcvars
        => WaitedInv' /\ [TS!Next]_(TS!vars)
  <2> SUFFICES ASSUME SchedInv, SchedInv', Priced, PriorityBounded, PriorityBounded', WaitedInv, [MCNext]_mcvars
               PROVE  WaitedInv' /\ [TS!Next]_(TS!vars)
    OBVIOUS
  <2>1. PICK F \in SUBSET Task : PriceInv(F)
    OBVIOUS
  <2>2. CASE DoTimer /\ waited' = Passed
    <3>1. WaitedInv' /\ TS!Tick
      BY <2>1, <2>2, WaitedTick DEF K
    <3> QED
      BY <3>1 DEF TS!Next
  <2>3. CASE (Create \/ Sti) /\ UNCHANGED waited
    BY <2>1, <2>3, WaitedOther
  <2>4. CASE UNCHANGED mcvars
    BY <2>4 DEF mcvars, WaitedInv, TS!vars, Live, Linked
  <2> QED
    BY <2>2, <2>3, <2>4 DEF MCNext
<1> HIDE DEF Priced
<1> QED
  BY <1>1, <1>2, <1>3, <1>4, PTL DEF MCSpec
=============================================================================
