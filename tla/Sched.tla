------------------------------- MODULE Sched -------------------------------
(***************************************************************************)
(* The task list and the timer-driven scheduler of evilos (task.c,         *)
(* timer.c), with the part of init.c that creates tasks and enables        *)
(* interrupts.                                                             *)
(*                                                                         *)
(* The list that starts at TASK0 and goes on through `next' is a sequence  *)
(* of tasks.  `current' is the variable of task.c; `cpu' is the task whose *)
(* context the processor really executes, the one the task register        *)
(* designates: only the ljmp at the end of scheduler() changes it.  A      *)
(* smaller priority is a better one.                                       *)
(*                                                                         *)
(* do_timer runs behind an interrupt gate, with interrupts disabled from   *)
(* its entry to the sti at its end, so a tick is one atomic step.  The     *)
(* code of a task is preemptible between any two instructions, so          *)
(* new_task, which links a task and then makes it runnable, is two steps.  *)
(***************************************************************************)
EXTENDS Integers, FiniteSets, SequencesExt

CONSTANTS Task,       \* the task_struct objects, TASK0 among them
          TASK0,      \* the idle task, which runs init()
          BootTasks   \* how many new_task calls init() makes before sti()

ASSUME TaskAssumption == TASK0 \in Task
ASSUME BootAssumption == BootTasks \in Nat

\* Mutant: 15 is another value of task.h, which no state field is meant to hold.
TS_RUNNING_mutant == 15

TS_RUNNING == 0
TS_RUNABLE == 1
TS_STOPPED == 2
TS_WAITING == 3
TS_SLEEP   == 4

INITIAL_PRIO == 200

VARIABLES tasks,      \* the list from TASK0 through next
          state,      \* task_struct.state
          priority,   \* task_struct.priority
          current,    \* the variable current
          cpu,        \* the task the processor executes
          iflag       \* EFLAGS.IF: ticks are delivered

vars == <<tasks, state, priority, current, cpu, iflag>>

Linked == ToSet(tasks)

----------------------------------------------------------------------------
(* scheduler() *)

\* A task that still carries the SLEEP state is no longer the current one:
\* scheduler() goes on in the name of TASK0.
Base == IF state[current] = TS_SLEEP THEN TASK0 ELSE current

\* v is at least as good as the bound cp of the loop.
Candidate(v, prio) == state[v] = TS_RUNABLE /\ prio[Base] >= prio[v]

\* Mutant: the loop does not lower its bound cp, so the last candidate wins.
Picked_mutant(i, prio) ==
  Candidate(tasks[i], prio) /\ \A j \in i + 1 .. Len(tasks) : ~Candidate(tasks[j], prio)

\* The loop keeps the last task, in list order, of the best candidates.
Picked(i, prio) ==
  /\ Candidate(tasks[i], prio)
  /\ \A j \in DOMAIN tasks :
       Candidate(tasks[j], prio) =>
         \/ prio[tasks[i]] < prio[tasks[j]]
         \/ prio[tasks[i]] = prio[tasks[j]] /\ j <= i

\* Mutant: the task that is switched out stays RUNNING.
SwitchTo_mutant(tmp) ==
  /\ state' = [state EXCEPT ![tmp] = TS_RUNNING]
  /\ current' = tmp
  /\ cpu' = tmp

SwitchTo(tmp) ==
  /\ state' = [state EXCEPT ![Base] = TS_RUNABLE, ![tmp] = TS_RUNNING]
  /\ current' = tmp
  /\ cpu' = tmp

NoSwitch == current' = Base /\ UNCHANGED <<state, cpu>>

Scheduler(prio) ==
  \/ \E i \in DOMAIN tasks :
       /\ Picked(i, prio)
       /\ IF tasks[i] # Base THEN SwitchTo(tasks[i]) ELSE NoSwitch
  \/ /\ \A i \in DOMAIN tasks : ~Candidate(tasks[i], prio)
     /\ NoSwitch

----------------------------------------------------------------------------
(* do_timer() *)

\* Mutant: the penalty without the clamp.
Charged_noclamp(p) == p + 30

\* The penalty of the running task, with the clamp (0xffffffff is the int -1).
Charged(p) == IF p + 30 <= 0 THEN -1 ELSE p + 30

\* Mutant: do_timer leaves the priorities alone, the scheduler alone decides.
Aged_mutant(v) == priority[v]

\* One tick of aging.  The missing else of timer.c makes the running task pay
\* the penalty and then take the bonus as well.
Aged(v) ==
  CASE state[v] = TS_SLEEP   -> priority[v]
    [] state[v] = TS_RUNNING -> Charged(priority[v]) - 10
    [] OTHER                 -> priority[v] - 10

\* The task after current is linked but not runnable yet: its creator is
\* between the last two assignments of new_task.
HalfCreated(i) ==
  i \in DOMAIN tasks /\ i + 1 \in DOMAIN tasks /\ state[tasks[i + 1]] = TS_STOPPED

\* A creator that a tick has already caught there needs one assignment more,
\* and the millisecond of the slice it is given is enough for it.
SliceTooShort ==
  \E i \in DOMAIN tasks :
    tasks[i] = cpu /\ HalfCreated(i) /\ priority[tasks[i + 1]] < INITIAL_PRIO

DoTimer ==
  /\ iflag
  /\ ~SliceTooShort
  /\ priority' = [v \in Task |-> IF v \in Linked THEN Aged(v) ELSE priority[v]]
  /\ Scheduler(priority')
  /\ UNCHANGED <<tasks, iflag>>

----------------------------------------------------------------------------
(* new_task(), called by the task the processor executes *)

\* Mutant: the new task is linked before current instead of after it.
LinkAfter_mutant(i, t) == tasks' = InsertAt(tasks, i, t)

LinkAfter(i, t) == tasks' = InsertAt(tasks, i + 1, t)

NewTask(t) ==
  /\ t \notin Linked
  /\ iflag \/ Len(tasks) <= BootTasks
  /\ \E i \in DOMAIN tasks :
       /\ tasks[i] = current
       /\ ~HalfCreated(i)
       /\ LinkAfter(i, t)
  /\ priority' = [priority EXCEPT ![t] = INITIAL_PRIO]
  /\ state' = [state EXCEPT ![t] = TS_STOPPED]
  /\ UNCHANGED <<current, cpu, iflag>>

PublishTask ==
  /\ \E i \in DOMAIN tasks :
       /\ tasks[i] = cpu
       /\ HalfCreated(i)
       /\ state' = [state EXCEPT ![tasks[i + 1]] = TS_RUNABLE]
  /\ UNCHANGED <<tasks, priority, current, cpu, iflag>>

\* init() enables interrupts once its tasks exist.
Sti ==
  /\ ~iflag
  /\ Len(tasks) = BootTasks + 1
  /\ \A i \in DOMAIN tasks : ~HalfCreated(i)
  /\ iflag' = TRUE
  /\ UNCHANGED <<tasks, state, priority, current, cpu>>

----------------------------------------------------------------------------
\* TASK0 is initialised statically, RUNNING.  The fields of an unlinked task
\* mean nothing until new_task writes them.
Init ==
  /\ tasks = <<TASK0>>
  /\ state = [v \in Task |-> IF v = TASK0 THEN TS_RUNNING ELSE TS_STOPPED]
  /\ priority = [v \in Task |-> INITIAL_PRIO]
  /\ current = TASK0
  /\ cpu = TASK0
  /\ iflag = FALSE

Create == PublishTask \/ \E t \in Task : NewTask(t)

Next == DoTimer \/ Create \/ Sti

\* init() is straight-line code that nothing interrupts, the PIT raises ticks
\* for ever, and a task that is in new_task goes on with it when it runs.
Fairness ==
  WF_vars(DoTimer) /\ WF_vars(PublishTask) /\ WF_vars(~iflag /\ (Create \/ Sti))

Spec == Init /\ [][Next]_vars

FairSpec == Spec /\ Fairness

----------------------------------------------------------------------------
(* Properties *)

\* Every variable has the type its C declaration intends (task.h, task.c).
TypeOK ==
  /\ tasks \in Seq(Task)
  /\ state \in [Task -> 0 .. 4]
  /\ priority \in [Task -> Int]
  /\ current \in Task
  /\ cpu \in Task
  /\ iflag \in BOOLEAN

\* The list is a chain: no insertion ever links a task twice, and TASK0,
\* where every traversal starts, stays its head.
ListOK ==
  /\ tasks[1] = TASK0
  /\ \A i, j \in DOMAIN tasks : tasks[i] = tasks[j] => i = j

\* What scheduler() relies on: the variable current names the task the
\* processor executes, which is in the list and is the only RUNNING one.
CurrentRuns ==
  /\ current = cpu
  /\ cpu \in Linked
  /\ \A v \in Task : state[v] = TS_RUNNING <=> v = cpu

\* With three tasks or more the penalty of the running task, the bonus of the
\* others and the clamp of do_timer keep every priority in this interval: the
\* int never overflows, however long the system runs.  A task is passed over by
\* every other one at most; the 30 are for one that is linked while its creator
\* waits, with a better priority than its creator's, and cannot run before.
PriorityBounded ==
  \A v \in Linked : priority[v] \in -(31 + 10 * Cardinality(Task)) .. 220

\* After a tick no runnable task has a better priority than the running one.
BestAfterTick ==
  [][DoTimer => \A v \in Linked :
        state'[v] = TS_RUNABLE => priority'[current'] <= priority'[v]]_vars

\* A runnable task gets the processor in the end, whatever is created while
\* it waits.
NoStarvation == \A t \in Task : (state[t] = TS_RUNABLE) ~> (cpu = t)
=============================================================================
