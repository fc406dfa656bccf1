------------------------------- MODULE MCPipe -------------------------------
(***************************************************************************)
(* Tasks that open a pipe, read, write and close it in any order.          *)
(***************************************************************************)
EXTENDS Pipe

CONSTANTS t1, t2,   \* the tasks
          MaxPos    \* bound: how many bytes go through a pipe

Bound == \A s \in Slot : bq[s].write_pos <= MaxPos

\* The counts of fg[], which grow for ever, decide nothing of what read and
\* write do: states that differ in them alone are explored once.
View == <<bq, pc, fd, count, buf, got>>
=============================================================================
