------------------------------ MODULE MCSched ------------------------------
(***************************************************************************)
(* Sched with a history variable that counts the ticks every runnable task *)
(* is passed over, the instance of TimeSharing it implements and the       *)
(* bounds TLC checks.                                                      *)
(***************************************************************************)
EXTENDS Sched

CONSTANT Patience  \* the longest wait, in ticks

VARIABLE waited

mcvars == <<tasks, state, priority, current, cpu, iflag, waited>>

\* The count stops at one more than Patience, where it refutes TimeSharing.
Passed ==
  [v \in Task |-> IF state'[v] # TS_RUNABLE THEN 0
                   ELSE IF waited[v] > Patience THEN waited[v] ELSE waited[v] + 1]

MCInit == Init /\ waited = [v \in Task |-> 0]

MCNext ==
  \/ DoTimer /\ waited' = Passed
  \/ (Create \/ Sti) /\ UNCHANGED waited

MCSpec ==
  /\ MCInit
  /\ [][MCNext]_mcvars
  /\ WF_mcvars(DoTimer /\ waited' = Passed)
  /\ WF_mcvars(PublishTask /\ UNCHANGED waited)
  /\ WF_mcvars(~iflag /\ (Create \/ Sti) /\ UNCHANGED waited)

TS == INSTANCE TimeSharing WITH
        First <- TASK0,
        ready <- {v \in Linked : state[v] # TS_STOPPED},
        running <- cpu

\* The scheduler is a fair time-sharing of the processor: ticks go on for
\* ever, each gives the processor to one ready task, and none is passed over
\* more than Patience ticks in a row (do_timer and scheduler, with tasks
\* created while others run).
ImplementsTimeSharing == TS!Spec
=============================================================================
