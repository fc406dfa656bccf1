-------------------------------- MODULE Sem --------------------------------
(***************************************************************************)
(* The semaphores of sem.c over the scheduler of Sched, with the spin lock *)
(* of mutex.h and sleep_on, wake_up and the call of scheduler() of task.c. *)
(*                                                                         *)
(* A task runs at privilege level 3 with interrupts enabled, so a tick may *)
(* fall between any two steps of sem_wait and sem_post.  A step is a piece *)
(* of code that touches shared state once: `current', the state of a task, *)
(* the mutex, the count or the wait queue; the loop of scheduler() over    *)
(* the list counts as one.  Every step is one of the task the processor    *)
(* executes, cpu, which need not be the task in current.                   *)
(*                                                                         *)
(* The ljmp of scheduler() through the TSS descriptor of set_tss, whose    *)
(* privilege level is 0, faults at level 3: general_protection() halts the *)
(* machine.  Only do_timer, at level 0, can switch tasks.                  *)
(***************************************************************************)
EXTENDS Sched

CONSTANTS Sems,       \* the semaphores
          SemInit,    \* the val of each sem_init
          Program,    \* the loop of each task: a sequence of <<call, semaphore>>
          MayFail,    \* the outcomes of kmalloc that are considered: TRUE is NULL
          None        \* no task

ASSUME ProgramAssumption ==
  /\ SemInit \in [Sems -> Nat]
  /\ DOMAIN Program \subseteq Task
  /\ \A p \in DOMAIN Program : Program[p] \in Seq({"wait", "post"} \X Sems) /\ Program[p] # <<>>
  /\ MayFail \subseteq BOOLEAN
  /\ None \notin Task

VARIABLES mutex,   \* semaphore_t.mutex: a task holds it
          count,   \* semaphore_t.count
          wq,      \* semaphore_t.wq: the tasks of its items
          pc,      \* where each task is in sem_wait or sem_post
          at,      \* which call of its loop each task makes next
          me,      \* the local t of sleep_on_queue
          pick,    \* the local tmp of scheduler()
          halted   \* the machine has stopped

semvars == <<mutex, count, wq, pc, at, me, pick, halted>>
allvars == <<vars, semvars>>

Client == DOMAIN Program
Call(p) == Program[p][at[p]][1]
Sm(p)   == Program[p][at[p]][2]

----------------------------------------------------------------------------
\* p executes its step at label l and goes on at m.
Step(p, l, m) ==
  /\ iflag /\ ~halted /\ cpu = p
  /\ pc[p] = l
  /\ pc' = [pc EXCEPT ![p] = m]

\* Mutant: mutex_lock ignores what xchgl returned.
MutexFree_mutant(p) == TRUE

\* The spin lock is free (xchgl returned 0); otherwise the task spins on.
MutexFree(p) == ~mutex[Sm(p)]

MutexLock(p) ==
  /\ MutexFree(p)
  /\ Step(p, "call", IF Call(p) = "wait" THEN "decrement" ELSE "increment")
  /\ mutex' = [mutex EXCEPT ![Sm(p)] = TRUE]
  /\ UNCHANGED <<vars, count, wq, at, me, pick, halted>>

MutexUnlock(p) ==
  /\ Step(p, "unlock", "call")
  /\ mutex' = [mutex EXCEPT ![Sm(p)] = FALSE]
  /\ at' = [at EXCEPT ![p] = (at[p] % Len(Program[p])) + 1]
  /\ UNCHANGED <<vars, count, wq, me, pick, halted>>

(* sem_wait() *)

MustSleep(c) == c < 0

Decrement(p) ==
  LET c == count[Sm(p)] - 1 IN
  /\ Step(p, "decrement", IF MustSleep(c) THEN "kmalloc" ELSE "unlock")
  /\ count' = [count EXCEPT ![Sm(p)] = c]
  /\ UNCHANGED <<vars, mutex, wq, at, me, pick, halted>>

\* sleep_on_queue: without memory for the item it reports that and returns.
KmallocItem(p) ==
  /\ \E failed \in MayFail : Step(p, "kmalloc", IF failed THEN "unlock" ELSE "get_current")
  /\ UNCHANGED <<vars, mutex, count, wq, at, me, pick, halted>>

GetCurrent(p) ==
  /\ Step(p, "get_current", "test_sleep")
  /\ me' = [me EXCEPT ![p] = current]
  /\ UNCHANGED <<vars, mutex, count, wq, at, pick, halted>>

Sleeps(v) == state[v] = TS_SLEEP

\* A task that already sleeps is not queued again; the item is not freed.
TestSleep(p) ==
  /\ Step(p, "test_sleep", IF Sleeps(me[p]) THEN "unlock" ELSE "mark")
  /\ UNCHANGED <<vars, mutex, count, wq, at, me, pick, halted>>

SetState(v, s) ==
  /\ state' = [state EXCEPT ![v] = s]
  /\ UNCHANGED <<tasks, priority, current, cpu, iflag>>

Mark(p) ==
  /\ Step(p, "mark", "enqueue")
  /\ SetState(me[p], TS_SLEEP)
  /\ UNCHANGED <<mutex, count, wq, at, me, pick, halted>>

\* Mutant: the item is linked before its task is filled in.
Enqueued_mutant(q, t) == Append(q, None)

\* kfree(t), of a task, finds no block of that address and does nothing.
Enqueued(q, t) == IF q # <<>> /\ Head(q) = t THEN q ELSE Append(q, t)

Enqueue(p) ==
  /\ Step(p, "enqueue", "sleep_on")
  /\ wq' = [wq EXCEPT ![Sm(p)] = Enqueued(@, me[p])]
  /\ UNCHANGED <<vars, mutex, count, at, me, pick, halted>>

\* sleep_on reads current for its test and again for the assignment.
MaySleep(v) == v # TASK0

SleepOn(p) ==
  /\ Step(p, "sleep_on", IF MaySleep(current) THEN "sleep_set" ELSE "scheduler")
  /\ UNCHANGED <<vars, mutex, count, wq, at, me, pick, halted>>

SleepSet(p) ==
  /\ Step(p, "sleep_set", "scheduler")
  /\ SetState(current, TS_SLEEP)
  /\ UNCHANGED <<mutex, count, wq, at, me, pick, halted>>

\* scheduler(), in a task: the reset of current, the loop, the switch.
ResetCurrent(p) ==
  /\ Step(p, "scheduler", "pick")
  /\ current' = Base
  /\ UNCHANGED <<tasks, state, priority, cpu, iflag, mutex, count, wq, at, me, pick, halted>>

PickTask(p) ==
  /\ Step(p, "pick", "switch")
  /\ \/ \E i \in DOMAIN tasks :
          /\ Picked(i, priority)
          /\ pick' = [pick EXCEPT ![p] = tasks[i]]
     \/ /\ \A i \in DOMAIN tasks : ~Candidate(tasks[i], priority)
        /\ pick' = [pick EXCEPT ![p] = None]
  /\ UNCHANGED <<vars, mutex, count, wq, at, me, halted>>

Switches(p) == pick[p] # None /\ pick[p] # current

SwitchTask(p) ==
  /\ Step(p, "switch", IF Switches(p) THEN "ljmp" ELSE "unlock")
  /\ IF Switches(p)
       THEN /\ state' = [state EXCEPT ![current] = TS_RUNABLE, ![pick[p]] = TS_RUNNING]
            /\ current' = pick[p]
       ELSE UNCHANGED <<state, current>>
  /\ UNCHANGED <<tasks, priority, cpu, iflag, mutex, count, wq, at, me, pick, halted>>

Ljmp(p) ==
  /\ Step(p, "ljmp", "ljmp")
  /\ halted' = TRUE
  /\ UNCHANGED <<vars, mutex, count, wq, at, me, pick>>

(* sem_post() *)

\* Mutant: off by one, a count of 0 wakes nobody.
MustWake_mutant(c) == c < 0

MustWake(c) == c <= 0

Increment(p) ==
  LET c == count[Sm(p)] + 1 IN
  /\ Step(p, "increment", IF MustWake(c) THEN "wake_up" ELSE "unlock")
  /\ count' = [count EXCEPT ![Sm(p)] = c]
  /\ UNCHANGED <<vars, mutex, wq, at, me, pick, halted>>

\* wake_up_queue: the task of the first item becomes runnable, then the item
\* is removed.
WakeUp(p) ==
  /\ Step(p, "wake_up", "remove_head")
  /\ IF wq[Sm(p)] # <<>> THEN SetState(Head(wq[Sm(p)]), TS_RUNABLE) ELSE UNCHANGED vars
  /\ UNCHANGED <<mutex, count, wq, at, me, pick, halted>>

\* Mutant: wake_up_queue leaves the item of the woken task in the queue.
Removed_mutant(q) == q

Removed(q) == IF q # <<>> THEN Tail(q) ELSE q

RemoveHead(p) ==
  /\ Step(p, "remove_head", "unlock")
  /\ wq' = [wq EXCEPT ![Sm(p)] = Removed(@)]
  /\ UNCHANGED <<vars, mutex, count, at, me, pick, halted>>

----------------------------------------------------------------------------
SemInitState ==
  /\ Init
  /\ mutex = [s \in Sems |-> FALSE]
  /\ count = SemInit
  /\ wq = [s \in Sems |-> <<>>]
  /\ pc = [p \in Client |-> "call"]
  /\ at = [p \in Client |-> 1]
  /\ me = [p \in Client |-> None]
  /\ pick = [p \in Client |-> None]
  /\ halted = FALSE

SemWait(p) ==
  \/ Decrement(p) \/ KmallocItem(p) \/ GetCurrent(p) \/ TestSleep(p) \/ Mark(p)
  \/ Enqueue(p) \/ SleepOn(p) \/ SleepSet(p)
  \/ ResetCurrent(p) \/ PickTask(p) \/ SwitchTask(p) \/ Ljmp(p)

SemPost(p) == Increment(p) \/ WakeUp(p) \/ RemoveHead(p)

TaskStep(p) == MutexLock(p) \/ SemWait(p) \/ SemPost(p) \/ MutexUnlock(p)

Tick == ~halted /\ DoTimer /\ UNCHANGED semvars

Boot == ~iflag /\ (Create \/ Sti) /\ UNCHANGED semvars

SemNext == Boot \/ Tick \/ \E p \in Client : TaskStep(p)

SemSpec == SemInitState /\ [][SemNext]_allvars

----------------------------------------------------------------------------
(* Properties *)

Labels == {"call", "decrement", "kmalloc", "get_current", "test_sleep", "mark",
           "enqueue", "sleep_on", "sleep_set", "scheduler", "pick", "switch",
           "ljmp", "increment", "wake_up", "remove_head", "unlock"}

\* Every variable has the type its C declaration intends (sem.h, mutex.h).
SemTypeOK ==
  /\ mutex \in [Sems -> BOOLEAN]
  /\ count \in [Sems -> Int]
  /\ wq \in [Sems -> Seq(Task)]
  /\ pc \in [Client -> Labels]
  /\ at \in [Client -> Nat] /\ \A p \in Client : at[p] \in DOMAIN Program[p]
  /\ me \in [Client -> Task \union {None}]
  /\ pick \in [Client -> Task \union {None}]
  /\ halted \in BOOLEAN

Inside(p, s) == pc[p] # "call" /\ Sm(p) = s

\* The mutex of a semaphore is taken exactly while one task is between its
\* mutex_lock and its mutex_unlock, however ticks and sleeps intervene.
MutexHeld ==
  \A s \in Sems :
    /\ mutex[s] <=> \E p \in Client : Inside(p, s)
    /\ \A p, q \in Client : Inside(p, s) /\ Inside(q, s) => p = q

\* When nobody is inside a semaphore its queue has at most as many items as
\* its count says there are waiters: a post never removes an item in vain.
QueueWithinCount ==
  \A s \in Sems :
    ~mutex[s] => Len(wq[s]) <= (IF count[s] < 0 THEN -count[s] ELSE 0)

\* Whom a call of scheduler() has made current, in the place of a task that
\* will execute its ljmp: it may sleep again since it was picked.
Jumped == {pick[p] : p \in {q \in Client : pc[q] = "ljmp"}}

\* The item that wake_up_queue is about to remove.
Leaving(s, i) == i = 1 /\ \E p \in Client : Inside(p, s) /\ pc[p] = "remove_head"

\* A queued task sleeps until a sem_post takes it off its queue, whichever
\* tick comes between the assignments of sleep_on_queue, sleep_on, scheduler
\* and wake_up_queue.  There are two exceptions: TASK0, which is queued in the
\* place of any task that is switched out asleep, and a task that scheduler(),
\* called from another one, took for runnable before a tick.
QueuedSleeps ==
  \A s \in Sems : \A i \in DOMAIN wq[s] :
    \/ wq[s][i] \in Jumped \union {TASK0}
    \/ state[wq[s][i]] = TS_SLEEP
    \/ Leaving(s, i)
=============================================================================
