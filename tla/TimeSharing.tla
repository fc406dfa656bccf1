---------------------------- MODULE TimeSharing ----------------------------
(***************************************************************************)
(* What the scheduler of evilos promises the tasks that compete for the    *)
(* processor, without priorities or a list: at every tick one ready task   *)
(* is given the processor, no ready task sees more than Patience ticks go  *)
(* by without getting it, and the ticks never stop.                        *)
(***************************************************************************)
EXTENDS Naturals

CONSTANTS Task, First, Patience

VARIABLES ready,    \* the tasks that compete
          running,  \* the one that has the processor
          waited    \* ticks each ready task has been passed over

vars == <<ready, running, waited>>

Init ==
  /\ ready = {First}
  /\ running = First
  /\ waited = [t \in Task |-> 0]

Join(t) ==
  /\ ready' = ready \union {t}
  /\ UNCHANGED <<running, waited>>

Tick ==
  /\ running' \in ready
  /\ waited' = [t \in Task |->
                  IF t \in ready \ {running'} THEN waited[t] + 1 ELSE 0]
  /\ \A t \in Task : waited'[t] <= Patience
  /\ UNCHANGED ready

Next == Tick \/ \E t \in Task : Join(t)

Spec == Init /\ [][Next]_vars /\ []<><<Tick>>_vars
=============================================================================
