------------------------------- MODULE MCSem -------------------------------
(***************************************************************************)
(* The client of the semaphores that sem.c comes with, sem_test1: two      *)
(* tasks that hand one token to and fro through two semaphores.            *)
(***************************************************************************)
EXTENDS Sem

CONSTANTS tt1, tt2, s1, s2,
          MaxCount,  \* bound: the largest count considered, up or down
          MaxDrift   \* bound: how far a priority may drift from INITIAL_PRIO

TestInit == (s1 :> 1) @@ (s2 :> 0)

\* The loops of do_tt1 and do_tt2.
TestProgram ==
  (tt1 :> << <<"wait", s1>>, <<"post", s2>> >>) @@
  (tt2 :> << <<"wait", s2>>, <<"post", s1>> >>)

\* A tick that leaves a single task awake worsens its priority for ever, and
\* so does a failing kmalloc with the count: the search stops there.
Bound ==
  /\ \A v \in Task : priority[v] \in INITIAL_PRIO - MaxDrift .. INITIAL_PRIO + MaxDrift
  /\ \A s \in Sems : count[s] \in -MaxCount .. MaxCount

\* The token of sem_test1: with s1 at 1 and s2 at 0, the two tasks are never
\* both between their sem_wait and their sem_post.
OneToken == ~(at[tt1] = 2 /\ at[tt2] = 2)
=============================================================================
