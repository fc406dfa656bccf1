-------------------------------- MODULE Fifo --------------------------------
(***************************************************************************)
(* What a pipe promises: bytes come out in the order in which they went    *)
(* in, each once; a write takes what there is room for, a read gives what  *)
(* there is.                                                               *)
(***************************************************************************)
EXTENDS Naturals, Sequences, SequencesExt

CONSTANTS Slot, Byte, Capacity

VARIABLES open,    \* the pipes of which an end is open
          queue,   \* the bytes in each pipe
          got      \* what the last read gave

fifo == <<open, queue, got>>

Least(a, b) == IF a <= b THEN a ELSE b

Init ==
  /\ open = {}
  /\ queue = [s \in Slot |-> <<>>]
  /\ got = <<>>

Open(s) ==
  /\ s \notin open
  /\ open' = open \union {s}
  /\ UNCHANGED <<queue, got>>

\* The bytes that nobody has read are gone.
Shut(s) ==
  /\ s \in open
  /\ open' = open \ {s}
  /\ queue' = [queue EXCEPT ![s] = <<>>]
  /\ UNCHANGED got

Put(s, data) ==
  /\ s \in open
  /\ queue' = [queue EXCEPT ![s] = @ \o SubSeq(data, 1, Least(Len(data), Capacity - Len(@)))]
  /\ UNCHANGED <<open, got>>

Take(s, n) ==
  LET k == Least(n, Len(queue[s])) IN
  /\ s \in open
  /\ got' = SubSeq(queue[s], 1, k)
  /\ queue' = [queue EXCEPT ![s] = SubSeq(@, k + 1, Len(@))]
  /\ UNCHANGED open

Next ==
  \E s \in Slot :
    \/ Open(s)
    \/ Shut(s)
    \/ \E data \in BoundedSeq(Byte, Capacity + 1) : Put(s, data)
    \/ \E n \in 0..Capacity : Take(s, n)

Spec == Init /\ [][Next]_fifo
=============================================================================
