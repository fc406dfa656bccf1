-------------------------------- MODULE Pipe --------------------------------
(***************************************************************************)
(* The pipes of eeos_pipe.c: descriptors, the ring buffer behind a pair of *)
(* them, its mutex, and the semaphores fg[] that count calls.              *)
(*                                                                         *)
(* A read or a write is a sequence of steps with a tick, and so any step   *)
(* of the other tasks, between any two.  create, close and deinit are one  *)
(* step each: they take no lock, and the clients considered here neither   *)
(* let two of them overlap nor close an end that a call is using           *)
(* (MayClose).                                                             *)
(*                                                                         *)
(* sem_wait is one step that always returns.  In sem.c a caller that finds *)
(* no unit either comes back without one or never comes back and keeps the *)
(* semaphore locked (module Sem); the second is a task that takes no       *)
(* further step, which every behaviour of this module may do.              *)
(***************************************************************************)
EXTENDS Integers, Sequences, SequencesExt, FiniteSetsExt

CONSTANTS Task,       \* the callers
          Byte,       \* what a buffer holds
          Size,       \* maxcount of a pipe
          NR_PIPE,    \* the elements of bq[] and of fg[]
          MaxPipes,   \* the pipes the clients have open at a time
          MaxCall     \* bound: the largest count of a call

\* fg[] has NR_PIPE elements and is indexed with a descriptor: with 8 of them
\* the first two pipes stay inside.
ASSUME PipeAssumption ==
  /\ Byte # {} /\ 0 \in Byte
  /\ Size \in Nat \ {0}
  /\ NR_PIPE \in Nat /\ MaxPipes \in Nat \ {0} /\ 2 * MaxPipes + 2 < NR_PIPE
  /\ MaxCall \in Nat \ {0}

VARIABLES bq,      \* g_mgr.bq
          fg,      \* g_mgr.fg, the count of each semaphore
          pc,      \* where each task is
          fd,      \* the arguments of its call: the descriptor,
          count,   \*   how many bytes,
          buf,     \*   and the bytes of the caller's buffer
          got      \* history: what the last read gave to its caller

vars == <<bq, fg, pc, fd, count, buf, got>>

MIN_PIPE_NO == 3
Slot == 0..(MaxPipes - 1)
PIPE_HANDLE(d) == (d - MIN_PIPE_NO) \div 2
Rd(s) == 2 * s + MIN_PIPE_NO
Wr(s) == 2 * s + MIN_PIPE_NO + 1
Fd == {Rd(s) : s \in Slot} \union {Wr(s) : s \in Slot}

Null == <<>>

\* memset(bq, 0, sizeof(ByteQueue))
ZeroQueue ==
  [p |-> Null, mtx |-> "null", nbytes |-> 0, maxcount |-> 0,
   read_pos |-> 0, write_pos |-> 0, rd_opened |-> FALSE, wr_opened |-> FALSE]

Opened(q) == q.rd_opened \/ q.wr_opened

\* Mutant: kmalloc does not clear the memory.
NewBuffer_mutant == [i \in 0..(Size - 1) |-> -1]

\* kmalloc() clears the memory.
NewBuffer == [i \in 0..(Size - 1) |-> 0]

\* The slot the call of t is about.
At(t) == PIPE_HANDLE(fd[t])
Queue(t) == bq[At(t)]

----------------------------------------------------------------------------
(* eeos_pipe_create, eeos_pipe_close, eeos_pipe_deinit *)

\* Without memory for the buffer or for its mutex the slot stays closed.
Created(failed) ==
  LET q == [ZeroQueue EXCEPT !.maxcount = Size] IN
  CASE failed = "p"   -> q
    [] failed = "mtx" -> [q EXCEPT !.p = NewBuffer]
    [] OTHER          -> [q EXCEPT !.p = NewBuffer, !.mtx = "free",
                                   !.rd_opened = TRUE, !.wr_opened = TRUE]

Create ==
  LET free == {s \in Slot : ~Opened(bq[s])} IN
  /\ free # {}
  /\ \E failed \in {"none", "p", "mtx"} :
       LET s == Min(free) IN
       /\ bq' = [bq EXCEPT ![s] = Created(failed)]
       /\ fg' = IF failed = "none" THEN [fg EXCEPT ![s] = 1] ELSE fg
  /\ UNCHANGED <<pc, fd, count, buf, got>>

Inside(t, s) == pc[t] # "idle" /\ At(t) = s

\* Clients close an end that no call is using.
MayClose(d) == \A t \in Task : pc[t] = "idle" \/ fd[t] # d

EndClosed(q, d) ==
  IF d = Rd(PIPE_HANDLE(d)) THEN [q EXCEPT !.rd_opened = FALSE]
                            ELSE [q EXCEPT !.wr_opened = FALSE]

\* Mutant: the buffer goes with the first end that is closed.
LastClosed_mutant(q) == ZeroQueue

LastClosed(q) == IF Opened(q) THEN q ELSE ZeroQueue

Close(d) ==
  LET q == bq[PIPE_HANDLE(d)] IN
  /\ MayClose(d)
  /\ IF d = Rd(PIPE_HANDLE(d)) THEN q.rd_opened ELSE q.wr_opened
  /\ bq' = [bq EXCEPT ![PIPE_HANDLE(d)] = LastClosed(EndClosed(q, d))]
  /\ UNCHANGED <<fg, pc, fd, count, buf, got>>

\* The loop returns after the first slot that is open.
Deinit ==
  LET open == {s \in Slot : Opened(bq[s])} IN
  /\ open # {}
  /\ \A t \in Task : ~Inside(t, Min(open))
  /\ bq' = [bq EXCEPT ![Min(open)] = ZeroQueue]
  /\ UNCHANGED <<fg, pc, fd, count, buf, got>>

----------------------------------------------------------------------------
(* eeos_pipe_read and eeos_pipe_write *)

\* t executes its step at l and goes on at m.
Step(t, l, m) == pc[t] = l /\ pc' = [pc EXCEPT ![t] = m]

Least(a, b) == IF a <= b THEN a ELSE b

\* sem_wait and sem_post on fg[i], as far as the count goes.
Wait(i) == fg' = [fg EXCEPT ![i] = @ - 1]
Post(i) == fg' = [fg EXCEPT ![i] = @ + 1]

\* Mutant: a full buffer does not stop a write.
Room_mutant(q) == q.maxcount

\* emptys of eeos_pipe_write.
Room(q) == q.maxcount - q.nbytes

\* The ring is addressed with positions that only grow.
Cell(q, pos) == pos % q.maxcount

\* Mutant: read_pos moves by what was asked for.
TakenBy_mutant(t) == count[t]

\* How many bytes the copy loops of t have moved: readbytes, writebytes.
TakenBy(t) == Len(buf[t])

CallRead(t) ==
  \E s \in Slot, n \in 1..MaxCall :
    /\ Step(t, "idle", "sem_wait")
    /\ bq[s].rd_opened
    /\ fd' = [fd EXCEPT ![t] = Rd(s)]
    /\ count' = [count EXCEPT ![t] = n]
    /\ buf' = [buf EXCEPT ![t] = <<>>]
    /\ UNCHANGED <<bq, fg, got>>

CallWrite(t) ==
  \E s \in Slot : \E data \in BoundedSeq(Byte, MaxCall) \ {<<>>} :
    /\ Step(t, "idle", "lock")
    /\ bq[s].wr_opened
    /\ fd' = [fd EXCEPT ![t] = Wr(s)]
    /\ count' = [count EXCEPT ![t] = Len(data)]
    /\ buf' = [buf EXCEPT ![t] = data]
    /\ UNCHANGED <<bq, fg, got>>

SemWait(t) ==
  /\ Step(t, "sem_wait", "lock")
  /\ Wait(fd[t])
  /\ UNCHANGED <<bq, fd, count, buf, got>>

Reading(t) == fd[t] = Rd(At(t))

\* Mutant: mutex_lock does not look at what xchgl returned.
MutexFree_mutant(q) == TRUE

MutexFree(q) == q.mtx = "free"

Lock(t) ==
  /\ Step(t, "lock", IF Reading(t) THEN "copy_out" ELSE "copy_in")
  /\ MutexFree(Queue(t))
  /\ bq' = [bq EXCEPT ![At(t)].mtx = "held"]
  /\ UNCHANGED <<fg, fd, count, buf, got>>

CopyOut(t) ==
  LET q == Queue(t) IN
  /\ Step(t, "copy_out", "advance")
  /\ buf' = [buf EXCEPT ![t] = [j \in 1..Least(count[t], q.write_pos - q.read_pos) |->
                                  q.p[Cell(q, q.read_pos + j - 1)]]]
  /\ UNCHANGED <<bq, fg, fd, count, got>>

CopyIn(t) ==
  LET q == Queue(t)
      n == Least(count[t], Room(q))
      Source(i) == {j \in 1..n : Cell(q, q.write_pos + j - 1) = i} IN
  /\ Step(t, "copy_in", "advance")
  /\ bq' = [bq EXCEPT ![At(t)].p =
              [i \in DOMAIN @ |-> IF Source(i) = {} THEN @[i] ELSE buf[t][Max(Source(i))]]]
  /\ buf' = [buf EXCEPT ![t] = SubSeq(@, 1, n)]
  /\ UNCHANGED <<fg, fd, count, got>>

\* read_pos or write_pos, then nbytes from both.
Advance(t) ==
  LET q == Queue(t)
      r == IF Reading(t) THEN q.read_pos + TakenBy(t) ELSE q.read_pos
      w == IF Reading(t) THEN q.write_pos ELSE q.write_pos + TakenBy(t) IN
  /\ Step(t, "advance", "sem_post")
  /\ bq' = [bq EXCEPT ![At(t)].read_pos = r, ![At(t)].write_pos = w, ![At(t)].nbytes = w - r]
  /\ got' = IF Reading(t) THEN buf[t] ELSE got
  /\ UNCHANGED <<fg, fd, count, buf>>

\* A read posts for the writers, a write for the readers.
SemPost(t) ==
  /\ Step(t, "sem_post", "unlock")
  /\ Post(IF Reading(t) THEN fd[t] + 1 ELSE fd[t] - 1)
  /\ UNCHANGED <<bq, fd, count, buf, got>>

Unlock(t) ==
  /\ Step(t, "unlock", "idle")
  /\ bq' = [bq EXCEPT ![At(t)].mtx = "free"]
  /\ fd' = [fd EXCEPT ![t] = Rd(0)] /\ count' = [count EXCEPT ![t] = 0] /\ buf' = [buf EXCEPT ![t] = <<>>]
  /\ UNCHANGED <<fg, got>>

(* eeos_fd_select and eeos_fd_isset *)

\* select posts the semaphore with the index of the descriptor in the set,
\* here a set of one, and reports every descriptor as ready.
Select ==
  /\ Post(0)
  /\ UNCHANGED <<bq, pc, fd, count, buf, got>>

\* isset of a descriptor that is in the set.
IsSet(d) == fg[d] >= 0

----------------------------------------------------------------------------
Init ==
  /\ bq = [s \in Slot |-> ZeroQueue]
  /\ fg = [i \in 0..(NR_PIPE - 1) |-> 0]
  /\ pc = [t \in Task |-> "idle"]
  /\ fd = [t \in Task |-> Rd(0)]
  /\ count = [t \in Task |-> 0]
  /\ buf = [t \in Task |-> <<>>]
  /\ got = <<>>

Call(t) ==
  \/ CallRead(t) \/ CallWrite(t)
  \/ SemWait(t) \/ Lock(t) \/ CopyOut(t) \/ CopyIn(t) \/ Advance(t) \/ SemPost(t) \/ Unlock(t)

Next ==
  \/ Create \/ Deinit \/ Select
  \/ \E d \in Fd : Close(d)
  \/ \E t \in Task : Call(t)

Spec == Init /\ [][Next]_vars

----------------------------------------------------------------------------
(* Properties *)

Labels == {"idle", "sem_wait", "lock", "copy_out", "copy_in", "advance", "sem_post", "unlock"}

\* Every variable has the type its C declaration intends.
TypeOK ==
  /\ \A s \in Slot :
       /\ bq[s].p \in {Null} \union [0..(Size - 1) -> Byte]
       /\ bq[s].mtx \in {"null", "free", "held"}
       /\ bq[s].maxcount \in {0, Size}
       /\ bq[s].nbytes \in Int /\ bq[s].read_pos \in Nat /\ bq[s].write_pos \in Nat
       /\ bq[s].rd_opened \in BOOLEAN /\ bq[s].wr_opened \in BOOLEAN
  /\ fg \in [0..(NR_PIPE - 1) -> Int]
  /\ pc \in [Task -> Labels]
  /\ fd \in [Task -> Fd]
  /\ count \in [Task -> 0..MaxCall]
  /\ buf \in [Task -> Seq(Byte)]
  /\ got \in Seq(Byte)

Critical == {"copy_out", "copy_in", "advance", "sem_post", "unlock"}

\* The mutex of a pipe is held exactly while one task is between its
\* mutex_lock and its mutex_unlock, and that task's pipe is not freed under it.
MutexHeld ==
  \A s \in Slot :
    /\ bq[s].mtx = "held" <=> \E t \in Task : pc[t] \in Critical /\ At(t) = s
    /\ \A t, u \in Task : {pc[t], pc[u]} \subseteq Critical /\ At(t) = s /\ At(u) = s => t = u

\* nbytes is what lies between the two positions, and never more than the
\* buffer holds: a write never overtakes the reader by a whole round.
NeverOverfull ==
  \A s \in Slot :
    /\ bq[s].nbytes = bq[s].write_pos - bq[s].read_pos
    /\ bq[s].nbytes \in 0..bq[s].maxcount

\* Whoever is in a call has a pipe to use: the buffer that his copy loop
\* indexes modulo maxcount is there (a maxcount of 0 would be a division by
\* zero), although the other end may be closed at any moment.
BufferThere ==
  \A t \in Task : pc[t] # "idle" => Opened(Queue(t)) /\ Queue(t).p # Null /\ Queue(t).maxcount = Size

\* What do_ttt1 takes eeos_fd_isset for: when nobody is in a call and the read
\* end is reported as set, there is something to read.
ReadyMeansBytes ==
  \A s \in Slot :
    bq[s].rd_opened /\ (\A t \in Task : ~Inside(t, s)) /\ IsSet(Rd(s)) => bq[s].nbytes > 0

\* The bytes between the positions.
Content(q) == [i \in 1..(q.write_pos - q.read_pos) |-> q.p[Cell(q, q.read_pos + i - 1)]]

F == INSTANCE Fifo WITH
       Capacity <- Size,
       open <- {s \in Slot : Opened(bq[s])},
       queue <- [s \in Slot |-> Content(bq[s])]

\* A pipe is a queue of bytes, for any readers and writers at its two ends.
ImplementsFifo == F!Spec
=============================================================================
