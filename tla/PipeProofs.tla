------------------------------ MODULE PipeProofs ------------------------------
(***************************************************************************)
(* The invariants of module Pipe, for any number of tasks and pipes, any   *)
(* size of buffer and calls of any length.                                 *)
(***************************************************************************)
EXTENDS Pipe, WellFoundedInduction, SequenceTheorems, TLAPS

USE PipeAssumption

ByteQueue ==
  [p : {Null} \union [0..(Size - 1) -> Byte], mtx : {"null", "free", "held"},
   nbytes : Int, maxcount : {0, Size}, read_pos : Nat, write_pos : Nat,
   rd_opened : BOOLEAN, wr_opened : BOOLEAN]

Typed ==
  /\ bq \in [Slot -> ByteQueue]
  /\ fg \in [0..(NR_PIPE - 1) -> Int]
  /\ pc \in [Task -> Labels]
  /\ fd \in [Task -> Fd]
  /\ count \in [Task -> 0..MaxCall]
  /\ buf \in [Task -> Seq(Byte)]
  /\ got \in Seq(Byte)

\* A pipe of which an end is open has its buffer and its mutex; one that has
\* none is empty.
OpenOK ==
  \A s \in Slot :
    IF Opened(bq[s]) THEN bq[s].p # Null /\ bq[s].maxcount = Size /\ bq[s].mtx # "null"
    ELSE bq[s].mtx = "null" /\ bq[s].nbytes = 0 /\ bq[s].read_pos = 0 /\ bq[s].write_pos = 0

\* A call keeps its end open, its steps are those of its direction, and until
\* it copies, a writer has as many bytes as it was asked to write.
TaskOK(t) ==
  /\ pc[t] # "idle" => IF Reading(t) THEN Queue(t).rd_opened ELSE Queue(t).wr_opened
  /\ pc[t] \in {"sem_wait", "copy_out"} => Reading(t)
  /\ pc[t] = "copy_in" => ~Reading(t)
  /\ pc[t] \in {"lock", "copy_in"} /\ ~Reading(t) => Len(buf[t]) = count[t]

CallOK == \A t \in Task : TaskOK(t)

\* What has been copied fits between the positions as they are.
Fits(t) ==
  pc[t] = "advance" =>
    Len(buf[t]) <= IF Reading(t) THEN Queue(t).nbytes ELSE Queue(t).maxcount - Queue(t).nbytes

AdvanceOK == \A t \in Task : Fits(t)

PipeInv == Typed /\ OpenOK /\ CallOK /\ MutexHeld /\ NeverOverfull /\ AdvanceOK

----------------------------------------------------------------------------
(* Arithmetic of descriptors and of the ring *)

LEMMA Descriptors ==
  /\ \A d \in Fd : /\ PIPE_HANDLE(d) \in Slot
                   /\ d = Rd(PIPE_HANDLE(d)) \/ d = Wr(PIPE_HANDLE(d))
                   /\ d \in 3..(NR_PIPE - 1)
  /\ \A s \in Slot : /\ Rd(s) \in Fd /\ Wr(s) \in Fd /\ Rd(s) # Wr(s)
                     /\ PIPE_HANDLE(Rd(s)) = s /\ PIPE_HANDLE(Wr(s)) = s
<1>1. \A s \in Slot : /\ PIPE_HANDLE(Rd(s)) = s /\ PIPE_HANDLE(Wr(s)) = s /\ Rd(s) # Wr(s)
                      /\ Rd(s) \in 3..(NR_PIPE - 1) /\ Wr(s) \in 3..(NR_PIPE - 1)
  BY DEF PIPE_HANDLE, Rd, Wr, Slot, MIN_PIPE_NO
<1> QED
  BY <1>1 DEF Fd

\* The least open or free slot is one of them.
LEMMA LeastSlot == ASSUME NEW S \in SUBSET Slot, S # {} PROVE Min(S) \in S
<1>1. \E x \in S : \A y \in S : x <= y
  <2> DEFINE R == OpToRel(<, Nat)
  <2>1. S \subseteq Nat
    BY DEF Slot
  <2>2. PICK x \in S : \A y \in S : ~(<<y, x>> \in R)
    BY <2>1, NatLessThanWellFounded, WFMin
  <2>3. \A y \in S : ~(y < x)
    BY <2>1, <2>2 DEF OpToRel
  <2> QED
    BY <2>1, <2>3
<1> QED
  BY <1>1 DEF Min

\* A position modulo the size is an index of the buffer.
LEMMA CellInside == \A pos \in Int : pos % Size \in 0..(Size - 1)
BY SMT

\* Two positions less than a round apart have cells of their own.
LEMMA SameCell ==
  ASSUME NEW pos \in Nat, NEW j \in 1..Size, NEW k \in 1..Size,
         (pos + j - 1) % Size = (pos + k - 1) % Size
  PROVE  k = j
<1> DEFINE x == pos + j - 1
           y == pos + k - 1
<1>1. x = Size * (x \div Size) + (x % Size) /\ y = Size * (y \div Size) + (y % Size)
  BY SMT
<1>2. x \div Size \in Int /\ y \div Size \in Int /\ x - y = Size * (x \div Size) - Size * (y \div Size)
  BY <1>1
<1>3. x - y = Size * ((x \div Size) - (y \div Size)) /\ x - y \in (1 - Size)..(Size - 1)
  BY <1>2
<1>4. ASSUME NEW m \in Int, Size * m \in (1 - Size)..(Size - 1) PROVE m = 0
  <2>1. CASE m >= 1
    <3>1. Size * m = Size * (m - 1) + Size /\ Size * (m - 1) >= 0
      BY <2>1
    <3> QED
      BY <1>4, <3>1
  <2>2. CASE m <= -1
    <3>1. Size * m = Size * (m + 1) - Size /\ Size * (m + 1) <= 0
      BY <2>2
    <3> QED
      BY <1>4, <3>1
  <2> QED
    BY <2>1, <2>2
<1>5. (x \div Size) - (y \div Size) = 0
  BY <1>2, <1>3, <1>4
<1> QED
  BY <1>3, <1>5

LEMMA OnlyElement == ASSUME NEW S, NEW x \in S, x \in Nat, \A y \in S : y = x PROVE Max(S) = x
<1>1. \E z \in S : \A y \in S : z >= y
  OBVIOUS
<1> QED
  BY <1>1 DEF Max

----------------------------------------------------------------------------
(* The steps *)

LEMMA PipeInvInit == Init => PipeInv
<1> SUFFICES ASSUME Init PROVE PipeInv
  OBVIOUS
<1>1. ZeroQueue \in ByteQueue /\ ~Opened(ZeroQueue)
  BY DEF ZeroQueue, ByteQueue, Opened
<1>2. 0 \in Slot
  BY DEF Slot
<1>3. Typed
  BY <1>1, <1>2, Descriptors DEF Init, Typed, Labels
<1> QED
  BY <1>1, <1>3 DEF Init, PipeInv, OpenOK, CallOK, TaskOK, MutexHeld, NeverOverfull, AdvanceOK, Fits, Critical, ZeroQueue, Null

\* An action that changes one slot nobody is inside of, and no call, needs
\* only the new slot to be in order.
LEMMA SlotStep ==
  ASSUME PipeInv, NEW s \in Slot, NEW q \in ByteQueue,
         bq' = [bq EXCEPT ![s] = q], UNCHANGED <<pc, fd, count, buf, got>>,
         fg' \in [0..(NR_PIPE - 1) -> Int],
         \A t \in Task : ~Inside(t, s),
         q.mtx # "held",
         IF Opened(q) THEN q.p # Null /\ q.maxcount = Size /\ q.mtx # "null"
                      ELSE q.mtx = "null" /\ q.nbytes = 0 /\ q.read_pos = 0 /\ q.write_pos = 0,
         q.nbytes = q.write_pos - q.read_pos, q.nbytes \in 0..q.maxcount
  PROVE  PipeInv'
<1>1. bq' \in [Slot -> ByteQueue] /\ \A r \in Slot : bq'[r] = IF r = s THEN q ELSE bq[r]
  BY DEF PipeInv, Typed
<1>2. Typed'
  BY <1>1 DEF PipeInv, Typed
<1>3. OpenOK'
  BY <1>1 DEF PipeInv, OpenOK
<1>4. \A t \in Task : pc[t] # "idle" => At(t) \in Slot /\ At(t)' = At(t) /\ Queue(t)' = Queue(t) /\ Reading(t)' = Reading(t)
  BY <1>1, Descriptors DEF PipeInv, Typed, At, Queue, Reading, Inside
<1>5. CallOK'
  BY <1>4 DEF PipeInv, CallOK, TaskOK, TaskOK
<1>6. MutexHeld'
  BY <1>1, <1>4 DEF PipeInv, MutexHeld, Critical, Inside
<1>7. NeverOverfull'
  BY <1>1 DEF PipeInv, NeverOverfull
<1>8. AdvanceOK'
  BY <1>4 DEF PipeInv, AdvanceOK, Fits
<1> QED
  BY <1>2, <1>3, <1>5, <1>6, <1>7, <1>8 DEF PipeInv

\* A task inside a pipe keeps an end of it open.
LEMMA InsideOpen == PipeInv => \A t \in Task, s \in Slot : Inside(t, s) => Opened(bq[s])
BY DEF PipeInv, CallOK, TaskOK, Inside, Queue, Opened

\* What create leaves in its slot.
LEMMA CreatedType ==
  ASSUME NEW failed \in {"none", "p", "mtx"}
  PROVE  /\ Created(failed) \in ByteQueue /\ Created(failed).mtx # "held"
         /\ IF Opened(Created(failed))
            THEN Created(failed).p # Null /\ Created(failed).maxcount = Size /\ Created(failed).mtx # "null"
            ELSE /\ Created(failed).mtx = "null" /\ Created(failed).nbytes = 0
                 /\ Created(failed).read_pos = 0 /\ Created(failed).write_pos = 0
         /\ Created(failed).nbytes = 0 /\ Created(failed).write_pos = 0 /\ Created(failed).read_pos = 0
         /\ Created(failed).maxcount = Size
<1>1. NewBuffer \in [0..(Size - 1) -> Byte] /\ NewBuffer # Null
  <2>1. 0 \in DOMAIN NewBuffer /\ DOMAIN Null = {}
    BY DEF NewBuffer, Null
  <2> QED
    BY <2>1 DEF NewBuffer
<1>2. \E p \in {Null, NewBuffer}, m \in {"null", "free"}, o \in BOOLEAN :
        /\ o => p = NewBuffer /\ m = "free"
        /\ ~o => m = "null"
        /\ Created(failed) = [p |-> p, mtx |-> m, nbytes |-> 0, maxcount |-> Size,
                               read_pos |-> 0, write_pos |-> 0, rd_opened |-> o, wr_opened |-> o]
  <2>1. CASE failed = "p"
    <3>1. Created(failed) = [p |-> Null, mtx |-> "null", nbytes |-> 0, maxcount |-> Size,
                             read_pos |-> 0, write_pos |-> 0, rd_opened |-> FALSE, wr_opened |-> FALSE]
      BY <2>1 DEF Created, ZeroQueue
    <3> QED
      BY <3>1
  <2>2. CASE failed = "mtx"
    <3>1. Created(failed) = [p |-> NewBuffer, mtx |-> "null", nbytes |-> 0, maxcount |-> Size,
                             read_pos |-> 0, write_pos |-> 0, rd_opened |-> FALSE, wr_opened |-> FALSE]
      BY <2>2 DEF Created, ZeroQueue
    <3> QED
      BY <3>1
  <2>3. CASE failed = "none"
    <3>1. Created(failed) = [p |-> NewBuffer, mtx |-> "free", nbytes |-> 0, maxcount |-> Size,
                             read_pos |-> 0, write_pos |-> 0, rd_opened |-> TRUE, wr_opened |-> TRUE]
      BY <2>3 DEF Created, ZeroQueue
    <3> QED
      BY <3>1
  <2> QED
    BY <2>1, <2>2, <2>3
<1> QED
  BY <1>1, <1>2 DEF ByteQueue, Opened

LEMMA CreateStep == PipeInv /\ Create => PipeInv'
<1> SUFFICES ASSUME PipeInv, Create PROVE PipeInv'
  OBVIOUS
<1>0. Min({r \in Slot : ~Opened(bq[r])}) \in {r \in Slot : ~Opened(bq[r])}
  BY LeastSlot DEF Create
<1>1. PICK s \in Slot :
        /\ ~Opened(bq[s])
        /\ \E failed \in {"none", "p", "mtx"} :
             /\ bq' = [bq EXCEPT ![s] = Created(failed)]
             /\ fg' = IF failed = "none" THEN [fg EXCEPT ![s] = 1] ELSE fg
  BY <1>0 DEF Create
<1>2. PICK failed \in {"none", "p", "mtx"} :
        /\ bq' = [bq EXCEPT ![s] = Created(failed)]
        /\ fg' = IF failed = "none" THEN [fg EXCEPT ![s] = 1] ELSE fg
  BY <1>1
<1>4. /\ Created(failed) \in ByteQueue /\ Created(failed).mtx # "held"
      /\ IF Opened(Created(failed))
         THEN Created(failed).p # Null /\ Created(failed).maxcount = Size /\ Created(failed).mtx # "null"
         ELSE /\ Created(failed).mtx = "null" /\ Created(failed).nbytes = 0
              /\ Created(failed).read_pos = 0 /\ Created(failed).write_pos = 0
      /\ Created(failed).nbytes = 0 /\ Created(failed).write_pos = 0 /\ Created(failed).read_pos = 0
      /\ Created(failed).maxcount = Size
  BY CreatedType
<1>5. \A t \in Task : ~Inside(t, s)
  BY <1>1, InsideOpen
<1>6. fg' \in [0..(NR_PIPE - 1) -> Int]
  <2>1. fg \in [0..(NR_PIPE - 1) -> Int]
    BY DEF PipeInv, Typed
  <2>2. [fg EXCEPT ![s] = 1] \in [0..(NR_PIPE - 1) -> Int]
    BY <2>1 DEF Slot
  <2> QED
    BY <1>2, <2>1, <2>2
<1>7. UNCHANGED <<pc, fd, count, buf, got>>
  BY DEF Create
<1>8. /\ Created(failed).nbytes = Created(failed).write_pos - Created(failed).read_pos
      /\ Created(failed).nbytes \in 0..Created(failed).maxcount
  BY <1>4
<1> QED
  BY <1>1, <1>2, <1>4, <1>5, <1>6, <1>7, <1>8, SlotStep

LEMMA DeinitStep == PipeInv /\ Deinit => PipeInv'
<1> SUFFICES ASSUME PipeInv, Deinit PROVE PipeInv'
  OBVIOUS
<1> DEFINE s == Min({r \in Slot : Opened(bq[r])})
<1>1. s \in Slot
  BY LeastSlot DEF Deinit
<1>2. bq' = [bq EXCEPT ![s] = ZeroQueue] /\ \A t \in Task : ~Inside(t, s)
  BY DEF Deinit
<1> HIDE DEF s
<1>3. /\ ZeroQueue \in ByteQueue /\ ZeroQueue.mtx = "null" /\ ~Opened(ZeroQueue)
      /\ ZeroQueue.nbytes = 0 /\ ZeroQueue.read_pos = 0 /\ ZeroQueue.write_pos = 0 /\ ZeroQueue.maxcount = 0
  BY DEF ZeroQueue, ByteQueue, Opened
<1>4. UNCHANGED <<pc, fd, count, buf, got>> /\ fg' \in [0..(NR_PIPE - 1) -> Int]
  BY DEF Deinit, PipeInv, Typed
<1>5. ZeroQueue.mtx # "held" /\ ZeroQueue.nbytes = ZeroQueue.write_pos - ZeroQueue.read_pos
      /\ ZeroQueue.nbytes \in 0..ZeroQueue.maxcount
  BY <1>3
<1> QED
  BY <1>1, <1>2, <1>3, <1>4, <1>5, SlotStep

LEMMA SelectStep == PipeInv /\ Select => PipeInv'
<1> SUFFICES ASSUME PipeInv, Select PROVE PipeInv'
  OBVIOUS
<1>1. Typed'
  BY DEF PipeInv, Typed, Select, Post
<1> QED
  BY <1>1 DEF PipeInv, Select, OpenOK, CallOK, TaskOK, MutexHeld, NeverOverfull, AdvanceOK, Fits, Queue, At, Reading

LEMMA CloseStep == ASSUME PipeInv, NEW d \in Fd, Close(d) PROVE PipeInv'
<1> DEFINE s == PIPE_HANDLE(d)
           e == EndClosed(bq[s], d)
           q == LastClosed(e)
<1>1. s \in Slot /\ (d = Rd(s) \/ d = Wr(s)) /\ Rd(s) # Wr(s) /\ bq' = [bq EXCEPT ![s] = q] /\ bq[s] \in ByteQueue
  BY Descriptors DEF Close, PipeInv, Typed
<1>2. /\ e \in ByteQueue /\ e.p = bq[s].p /\ e.mtx = bq[s].mtx /\ e.nbytes = bq[s].nbytes
      /\ e.maxcount = bq[s].maxcount /\ e.read_pos = bq[s].read_pos /\ e.write_pos = bq[s].write_pos
      /\ e.rd_opened = (IF d = Rd(s) THEN FALSE ELSE bq[s].rd_opened)
      /\ e.wr_opened = (IF d = Rd(s) THEN bq[s].wr_opened ELSE FALSE)
  BY <1>1 DEF EndClosed, ByteQueue
<1>3. CASE ~Opened(e)
  <2>1. q = ZeroQueue
    BY <1>3 DEF LastClosed
  <2>2. \A t \in Task : ~Inside(t, s)
    <3> SUFFICES ASSUME NEW t \in Task, Inside(t, s) PROVE FALSE
      OBVIOUS
    <3>1. pc[t] # "idle" /\ At(t) = s /\ fd[t] # d /\ fd[t] \in Fd
      BY DEF Inside, Close, MayClose, PipeInv, Typed
    <3>2. fd[t] = Rd(s) \/ fd[t] = Wr(s)
      BY <3>1, Descriptors DEF At
    <3>3. IF Reading(t) THEN bq[s].rd_opened ELSE bq[s].wr_opened
      BY <3>1 DEF PipeInv, CallOK, TaskOK, Queue
    <3> QED
      BY <1>1, <1>2, <1>3, <3>1, <3>2, <3>3 DEF Opened, Reading
  <2>3. /\ ZeroQueue \in ByteQueue /\ ZeroQueue.mtx = "null" /\ ~Opened(ZeroQueue)
        /\ ZeroQueue.nbytes = 0 /\ ZeroQueue.read_pos = 0 /\ ZeroQueue.write_pos = 0 /\ ZeroQueue.maxcount = 0
    BY DEF ZeroQueue, ByteQueue, Opened
  <2>4. UNCHANGED <<pc, fd, count, buf, got>> /\ fg' \in [0..(NR_PIPE - 1) -> Int]
    BY DEF Close, PipeInv, Typed
  <2>5. ZeroQueue.mtx # "held" /\ ZeroQueue.nbytes = ZeroQueue.write_pos - ZeroQueue.read_pos
        /\ ZeroQueue.nbytes \in 0..ZeroQueue.maxcount
    BY <2>3
  <2> HIDE DEF q, s
  <2> QED
    BY <1>1, <2>1, <2>2, <2>3, <2>4, <2>5, SlotStep
<1>4. CASE Opened(e)
  <2>1. q = e /\ Opened(bq[s])
    BY <1>2, <1>4 DEF LastClosed, Opened
  <2> HIDE DEF q, e, s
  <2>2. bq' \in [Slot -> ByteQueue] /\ \A r \in Slot : bq'[r] = IF r = s THEN e ELSE bq[r]
    BY <1>1, <1>2, <2>1 DEF PipeInv, Typed
  <2>3. Typed'
    BY <2>2 DEF PipeInv, Typed, Close
  <2>4. OpenOK'
    BY <1>2, <1>4, <2>1, <2>2 DEF PipeInv, OpenOK
  <2>5. \A t \in Task : /\ At(t) \in Slot /\ At(t)' = At(t) /\ Reading(t)' = Reading(t)
                        /\ Queue(t).nbytes = Queue(t)'.nbytes /\ Queue(t).maxcount = Queue(t)'.maxcount
    BY <1>2, <2>2, Descriptors DEF PipeInv, Typed, At, Queue, Reading, Close
  <2>6. CallOK'
    <3>1. ASSUME NEW t \in Task, pc[t] # "idle"
          PROVE  IF Reading(t) THEN bq'[At(t)].rd_opened ELSE bq'[At(t)].wr_opened
      <4>1. IF Reading(t) THEN bq[At(t)].rd_opened ELSE bq[At(t)].wr_opened
        BY <3>1 DEF PipeInv, CallOK, TaskOK, Queue
      <4>2. fd[t] # d /\ fd[t] \in Fd
        BY <3>1 DEF Close, MayClose, PipeInv, Typed
      <4>3. fd[t] = Rd(At(t)) \/ fd[t] = Wr(At(t))
        BY <4>2, Descriptors DEF At
      <4> QED
        BY <1>1, <1>2, <2>2, <2>5, <4>1, <4>2, <4>3 DEF Reading
    <3> QED
      BY <2>5, <3>1 DEF PipeInv, CallOK, TaskOK, Queue, Close
  <2>7. MutexHeld'
    BY <1>2, <2>2, <2>5 DEF PipeInv, MutexHeld, Close, Critical
  <2>8. NeverOverfull'
    BY <1>2, <2>2 DEF PipeInv, NeverOverfull
  <2>9. AdvanceOK'
    BY <2>5 DEF PipeInv, AdvanceOK, Fits, Close
  <2> QED
    BY <2>3, <2>4, <2>6, <2>7, <2>8, <2>9 DEF PipeInv
<1> QED
  BY <1>3, <1>4

\* A step of a call that leaves the pipes alone.
LEMMA TaskStep ==
  ASSUME PipeInv, NEW t \in Task, bq' = bq, Typed',
         \A u \in Task : u # t => pc'[u] = pc[u] /\ fd'[u] = fd[u] /\ count'[u] = count[u] /\ buf'[u] = buf[u],
         pc'[t] \in Critical <=> pc[t] \in Critical,
         pc[t] \in Critical => fd'[t] = fd[t],
         TaskOK(t)', Fits(t)'
  PROVE  PipeInv'
<1>1. OpenOK' /\ NeverOverfull'
  BY DEF PipeInv, OpenOK, NeverOverfull
<1>2. \A u \in Task : u # t => At(u)' = At(u) /\ Queue(u)' = Queue(u) /\ Reading(u)' = Reading(u)
  BY DEF At, Queue, Reading
<1>3. CallOK'
  BY <1>2 DEF PipeInv, CallOK, TaskOK
<1>4. AdvanceOK'
  BY <1>2 DEF PipeInv, AdvanceOK, Fits
<1>5. \A u \in Task : /\ pc'[u] \in Critical <=> pc[u] \in Critical
                      /\ pc[u] \in Critical => At(u)' = At(u)
  BY DEF At
<1>6. MutexHeld'
  BY <1>5 DEF PipeInv, MutexHeld
<1> QED
  BY <1>1, <1>3, <1>4, <1>6 DEF PipeInv

\* A step of a call that changes its pipe: t has the mutex, or takes it.
LEMMA QueueStep ==
  ASSUME PipeInv, NEW t \in Task, NEW q \in ByteQueue, pc[t] # "idle",
         bq' = [bq EXCEPT ![At(t)] = q],
         UNCHANGED fg, pc' \in [Task -> Labels], count' \in [Task -> 0..MaxCall],
         fd' \in [Task -> Fd], buf' \in [Task -> Seq(Byte)], got' \in Seq(Byte),
         pc'[t] # "idle" => fd'[t] = fd[t],
         \A u \in Task : u # t => pc'[u] = pc[u] /\ fd'[u] = fd[u] /\ count'[u] = count[u] /\ buf'[u] = buf[u],
         pc[t] \in Critical \/ Queue(t).mtx = "free",
         q.mtx # "null",
         q.mtx = "held" <=> pc'[t] \in Critical,
         Queue(t).p # Null => q.p # Null,
         q.maxcount = Queue(t).maxcount,
         q.rd_opened = Queue(t).rd_opened, q.wr_opened = Queue(t).wr_opened,
         q.nbytes = q.write_pos - q.read_pos, q.nbytes \in 0..q.maxcount,
         TaskOK(t)', Fits(t)'
  PROVE  PipeInv'
<1> DEFINE s == At(t)
<1>1. s \in Slot /\ bq[s] = Queue(t) /\ bq' \in [Slot -> ByteQueue]
      /\ \A r \in Slot : bq'[r] = IF r = s THEN q ELSE bq[r]
  BY Descriptors DEF PipeInv, Typed, At, Queue
<1>2. Opened(bq[s]) /\ Opened(q)
  BY <1>1 DEF PipeInv, CallOK, TaskOK, Opened
<1>s. s = At(t)
  OBVIOUS
<1> HIDE DEF s
<1>3. Typed'
  BY <1>1 DEF PipeInv, Typed
<1>4. OpenOK'
  BY <1>1, <1>2 DEF PipeInv, OpenOK
<1>5. NeverOverfull'
  BY <1>1 DEF PipeInv, NeverOverfull
<1>6. \A u \in Task :
        u # t => /\ At(u)' = At(u) /\ Reading(u)' = Reading(u) /\ At(u) \in Slot
                 /\ Queue(u)'.rd_opened = Queue(u).rd_opened
                 /\ Queue(u)'.wr_opened = Queue(u).wr_opened
                 /\ (At(u) # s => Queue(u)' = Queue(u))
  BY <1>1, Descriptors DEF PipeInv, Typed, At, Queue, Reading
<1>t. \A u \in Task : u # t => pc'[u] = pc[u] /\ fd'[u] = fd[u] /\ count'[u] = count[u] /\ buf'[u] = buf[u]
  OBVIOUS
<1>7. ASSUME NEW u \in Task, u # t, At(u) = s PROVE pc[u] \notin Critical
  <2>1. /\ bq[s].mtx = "held" <=> \E v \in Task : pc[v] \in Critical /\ At(v) = s
        /\ {pc[t], pc[u]} \subseteq Critical /\ At(t) = s /\ At(u) = s => t = u
    BY <1>1, <1>7 DEF PipeInv, MutexHeld
  <2> QED
    BY <1>1, <1>s, <1>7, <2>1
<1>8. CallOK'
  <2> SUFFICES ASSUME NEW u \in Task, u # t PROVE TaskOK(u)'
    BY DEF CallOK
  <2>1. TaskOK(u)
    BY DEF PipeInv, CallOK
  <2>2. pc'[u] = pc[u] /\ fd'[u] = fd[u] /\ count'[u] = count[u] /\ buf'[u] = buf[u]
    BY <1>t
  <2>3. /\ Reading(u)' = Reading(u)
        /\ Queue(u)'.rd_opened = Queue(u).rd_opened /\ Queue(u)'.wr_opened = Queue(u).wr_opened
    BY <1>6 DEF At, Queue, Reading
  <2> QED
    BY <2>1, <2>2, <2>3 DEF TaskOK
<1>9. AdvanceOK'
  <2> SUFFICES ASSUME NEW u \in Task, u # t PROVE Fits(u)'
    BY DEF AdvanceOK
  <2>1. CASE At(u) = s
    <3>1. pc'[u] \notin Critical
      BY <1>7, <1>t, <2>1
    <3> QED
      BY <3>1 DEF Fits, Critical
  <2>2. CASE At(u) # s
    <3>1. pc'[u] = pc[u] /\ fd'[u] = fd[u] /\ buf'[u] = buf[u]
      BY <1>t
    <3>2. At(u) \in Slot
      BY Descriptors DEF PipeInv, Typed, At
    <3>3. bq'[At(u)] = bq[At(u)]
      BY <1>1, <2>2, <3>2
    <3>4. Fits(u)
      BY DEF PipeInv, AdvanceOK
    <3> QED
      BY <3>1, <3>3, <3>4 DEF Fits, At, Queue, Reading
  <2> QED
    BY <2>1, <2>2
<1>10. MutexHeld'
  <2> SUFFICES ASSUME NEW r \in Slot
               PROVE  /\ bq'[r].mtx = "held" <=> \E u \in Task : pc'[u] \in Critical /\ At(u)' = r
                      /\ \A u, v \in Task : {pc'[u], pc'[v]} \subseteq Critical /\ At(u)' = r /\ At(v)' = r => u = v
    BY DEF MutexHeld
  <2>1. pc'[t] \in Critical => At(t)' = s
    BY <1>s DEF At, Critical
  <2>2. CASE r = s
    <3>1. \A u \in Task : u # t /\ At(u)' = s => pc'[u] \notin Critical
      BY <1>6, <1>7, <1>t DEF At
    <3>2. bq'[r].mtx = "held" <=> pc'[t] \in Critical
      BY <1>1, <2>2
    <3> QED
      BY <2>1, <2>2, <3>1, <3>2
  <2>3. CASE r # s
    <3>1. ASSUME NEW u \in Task
          PROVE  (pc'[u] \in Critical /\ At(u)' = r) <=> (pc[u] \in Critical /\ At(u) = r)
      <4>1. CASE u = t
        BY <1>s, <2>1, <2>3, <4>1
      <4>2. CASE u # t
        BY <1>6, <1>t, <4>2 DEF At
      <4> QED
        BY <4>1, <4>2
    <3>2. bq'[r] = bq[r]
      BY <1>1, <2>3
    <3>3. \A u, v \in Task : {pc'[u], pc'[v]} \subseteq Critical /\ At(u)' = r /\ At(v)' = r => u = v
      BY <3>1 DEF PipeInv, MutexHeld
    <3> QED
      BY <3>1, <3>2, <3>3 DEF PipeInv, MutexHeld
  <2> QED
    BY <2>2, <2>3
<1> QED
  BY <1>3, <1>4, <1>5, <1>8, <1>9, <1>10 DEF PipeInv

LEMMA CallReadStep == ASSUME PipeInv, NEW t \in Task, CallRead(t) PROVE PipeInv'
<1>1. PICK s \in Slot, n \in 1..MaxCall :
        /\ bq[s].rd_opened
        /\ fd' = [fd EXCEPT ![t] = Rd(s)] /\ count' = [count EXCEPT ![t] = n]
        /\ buf' = [buf EXCEPT ![t] = <<>>]
        /\ pc[t] = "idle" /\ pc' = [pc EXCEPT ![t] = "sem_wait"]
        /\ UNCHANGED <<bq, fg, got>>
  BY DEF CallRead, Step
<1>2. /\ pc'[t] = "sem_wait" /\ fd'[t] = Rd(s)
      /\ \A u \in Task : u # t => pc'[u] = pc[u] /\ fd'[u] = fd[u] /\ count'[u] = count[u] /\ buf'[u] = buf[u]
  BY <1>1 DEF PipeInv, Typed
<1>3. Typed'
  <2>1. Rd(s) \in Fd /\ n \in 0..MaxCall /\ "sem_wait" \in Labels /\ <<>> \in Seq(Byte)
    BY Descriptors DEF Labels
  <2>2. Typed
    BY DEF PipeInv
  <2> QED
    BY <1>1, <2>1, <2>2 DEF Typed
<1>4. TaskOK(t)' /\ Fits(t)'
  BY <1>1, <1>2, Descriptors DEF TaskOK, Fits, Reading, Queue, At
<1>5. bq' = bq /\ pc[t] \notin Critical /\ pc'[t] \notin Critical
  BY <1>1, <1>2 DEF Critical
<1> QED
  BY <1>2, <1>3, <1>4, <1>5, TaskStep

LEMMA CallWriteStep == ASSUME PipeInv, NEW t \in Task, CallWrite(t) PROVE PipeInv'
<1>1. PICK s \in Slot, data \in BoundedSeq(Byte, MaxCall) \ {<<>>} :
        /\ bq[s].wr_opened
        /\ fd' = [fd EXCEPT ![t] = Wr(s)] /\ count' = [count EXCEPT ![t] = Len(data)]
        /\ buf' = [buf EXCEPT ![t] = data]
        /\ pc[t] = "idle" /\ pc' = [pc EXCEPT ![t] = "lock"]
        /\ UNCHANGED <<bq, fg, got>>
  BY DEF CallWrite, Step
<1>2. data \in Seq(Byte) /\ Len(data) \in 0..MaxCall
  <2>1. PICK m \in 0..MaxCall : data \in [1..m -> Byte]
    BY DEF BoundedSeq, SeqOf
  <2> QED
    BY <2>1
<1>3. /\ pc'[t] = "lock" /\ fd'[t] = Wr(s) /\ count'[t] = Len(data) /\ buf'[t] = data
      /\ \A u \in Task : u # t => pc'[u] = pc[u] /\ fd'[u] = fd[u] /\ count'[u] = count[u] /\ buf'[u] = buf[u]
  BY <1>1 DEF PipeInv, Typed
<1>4. Typed'
  <2>1. Wr(s) \in Fd /\ "lock" \in Labels
    BY Descriptors DEF Labels
  <2>2. Typed
    BY DEF PipeInv
  <2> QED
    BY <1>1, <1>2, <2>1, <2>2 DEF Typed
<1>5. TaskOK(t)' /\ Fits(t)'
  BY <1>1, <1>3, Descriptors DEF TaskOK, Fits, Reading, Queue, At
<1>6. bq' = bq /\ pc[t] \notin Critical /\ pc'[t] \notin Critical
  BY <1>1, <1>3 DEF Critical
<1> QED
  BY <1>3, <1>4, <1>5, <1>6, TaskStep

LEMMA SemWaitStep == ASSUME PipeInv, NEW t \in Task, SemWait(t) PROVE PipeInv'
<1>1. /\ pc[t] = "sem_wait" /\ pc' = [pc EXCEPT ![t] = "lock"] /\ UNCHANGED <<bq, fd, count, buf, got>>
      /\ fg' = [fg EXCEPT ![fd[t]] = @ - 1]
  BY DEF SemWait, Step, Wait
<1>2. fd[t] \in 0..(NR_PIPE - 1)
  BY Descriptors DEF PipeInv, Typed
<1>3. pc'[t] = "lock" /\ fd'[t] = fd[t] /\ \A u \in Task : u # t => pc'[u] = pc[u]
  BY <1>1 DEF PipeInv, Typed
<1>4. Typed'
  BY <1>1, <1>2 DEF PipeInv, Typed, Labels
<1>5. TaskOK(t)
  BY DEF PipeInv, CallOK
<1>6. TaskOK(t)' /\ Fits(t)'
  BY <1>1, <1>3, <1>5 DEF TaskOK, Fits, Reading, Queue, At
<1>7. pc[t] \notin Critical /\ pc'[t] \notin Critical
  BY <1>1, <1>3 DEF Critical
<1>8. bq' = bq /\ \A u \in Task : u # t => pc'[u] = pc[u] /\ fd'[u] = fd[u] /\ count'[u] = count[u] /\ buf'[u] = buf[u]
  BY <1>1, <1>3
<1> QED
  BY <1>3, <1>4, <1>6, <1>7, <1>8, TaskStep

LEMMA SemPostStep == ASSUME PipeInv, NEW t \in Task, SemPost(t) PROVE PipeInv'
<1> DEFINE d == IF Reading(t) THEN fd[t] + 1 ELSE fd[t] - 1
<1>1. /\ pc[t] = "sem_post" /\ pc' = [pc EXCEPT ![t] = "unlock"] /\ UNCHANGED <<bq, fd, count, buf, got>>
      /\ fg' = [fg EXCEPT ![d] = @ + 1]
  BY DEF SemPost, Step, Post
<1>2. d \in 0..(NR_PIPE - 1)
  <2>1. fd[t] \in Fd /\ At(t) \in Slot /\ (fd[t] = Rd(At(t)) \/ fd[t] = Wr(At(t)))
    BY Descriptors DEF PipeInv, Typed, At
  <2> QED
    BY <2>1 DEF Reading, Rd, Wr, Slot, MIN_PIPE_NO
<1> HIDE DEF d
<1>3. pc'[t] = "unlock" /\ fd'[t] = fd[t] /\ \A u \in Task : u # t => pc'[u] = pc[u]
  BY <1>1 DEF PipeInv, Typed
<1>4. Typed'
  BY <1>1, <1>2 DEF PipeInv, Typed, Labels
<1>5. TaskOK(t)
  BY DEF PipeInv, CallOK
<1>6. TaskOK(t)' /\ Fits(t)'
  BY <1>1, <1>3, <1>5 DEF TaskOK, Fits, Reading, Queue, At
<1>7. pc[t] \in Critical /\ pc'[t] \in Critical
  BY <1>1, <1>3 DEF Critical
<1>8. bq' = bq /\ \A u \in Task : u # t => pc'[u] = pc[u] /\ fd'[u] = fd[u] /\ count'[u] = count[u] /\ buf'[u] = buf[u]
  BY <1>1, <1>3
<1> QED
  BY <1>3, <1>4, <1>6, <1>7, <1>8, TaskStep

LEMMA CopyOutStep == ASSUME PipeInv, NEW t \in Task, CopyOut(t) PROVE PipeInv'
<1> DEFINE q == Queue(t)
           n == Least(count[t], q.write_pos - q.read_pos)
           data == [j \in 1..n |-> q.p[Cell(q, q.read_pos + j - 1)]]
<1>1. /\ pc[t] = "copy_out" /\ pc' = [pc EXCEPT ![t] = "advance"] /\ buf' = [buf EXCEPT ![t] = data]
      /\ UNCHANGED <<bq, fg, fd, count, got>>
  BY DEF CopyOut, Step
<1>2. At(t) \in Slot /\ q = bq[At(t)] /\ q \in ByteQueue
  BY Descriptors DEF PipeInv, Typed, At, Queue
<1>3. TaskOK(t) /\ Reading(t)
  BY <1>1 DEF PipeInv, CallOK, TaskOK
<1>4. Opened(q) /\ q.p # Null /\ q.maxcount = Size /\ q.p \in [0..(Size - 1) -> Byte]
  BY <1>1, <1>2, <1>3 DEF PipeInv, OpenOK, TaskOK, Opened, ByteQueue
<1>5. q.nbytes = q.write_pos - q.read_pos /\ q.nbytes \in 0..Size /\ q.read_pos \in Nat /\ q.write_pos \in Nat
  BY <1>2, <1>4 DEF PipeInv, NeverOverfull, ByteQueue
<1>6. n \in 0..q.nbytes
  BY <1>5 DEF PipeInv, Typed, Least
<1>7. \A j \in 1..n : q.p[Cell(q, q.read_pos + j - 1)] \in Byte
  <2> SUFFICES ASSUME NEW j \in 1..n PROVE q.p[Cell(q, q.read_pos + j - 1)] \in Byte
    OBVIOUS
  <2>1. q.read_pos + j - 1 \in Int
    BY <1>5, <1>6
  <2>2. Cell(q, q.read_pos + j - 1) \in 0..(Size - 1)
    BY <1>4, <2>1, CellInside DEF Cell
  <2> QED
    BY <1>4, <2>2
<1> HIDE DEF q
<1>8. data \in Seq(Byte) /\ Len(data) = n
  <2>1. n \in Nat
    BY <1>5, <1>6
  <2> HIDE DEF n
  <2> QED
    BY <1>7, <2>1
<1> HIDE DEF n, data
<1>9. Typed'
  BY <1>1, <1>8 DEF PipeInv, Typed, Labels
<1>10. /\ pc'[t] = "advance" /\ fd'[t] = fd[t] /\ buf'[t] = data
       /\ \A u \in Task : u # t => pc'[u] = pc[u] /\ fd'[u] = fd[u] /\ count'[u] = count[u] /\ buf'[u] = buf[u]
  BY <1>1 DEF PipeInv, Typed
<1>11. TaskOK(t)'
  BY <1>1, <1>3, <1>10 DEF TaskOK, Reading, Queue, At
<1>12. Fits(t)'
  BY <1>1, <1>3, <1>5, <1>6, <1>8, <1>10 DEF Fits, Reading, Queue, At, q
<1>13. bq' = bq /\ pc[t] \in Critical /\ pc'[t] \in Critical
  BY <1>1, <1>10 DEF Critical
<1> QED
  BY <1>9, <1>10, <1>11, <1>12, <1>13, TaskStep

LEMMA LockStep == ASSUME PipeInv, NEW t \in Task, Lock(t) PROVE PipeInv'
<1> DEFINE l == IF Reading(t) THEN "copy_out" ELSE "copy_in"
<1>1. /\ pc[t] = "lock" /\ pc' = [pc EXCEPT ![t] = l] /\ Queue(t).mtx = "free"
      /\ bq' = [bq EXCEPT ![At(t)].mtx = "held"] /\ UNCHANGED <<fg, fd, count, buf, got>>
  BY DEF Lock, Step, MutexFree
<1>2. At(t) \in Slot /\ Queue(t) = bq[At(t)] /\ Queue(t) \in ByteQueue
  BY Descriptors DEF PipeInv, Typed, At, Queue
<1>3. PICK q \in ByteQueue :
        /\ q.mtx = "held" /\ q.p = Queue(t).p /\ q.nbytes = Queue(t).nbytes /\ q.maxcount = Queue(t).maxcount
        /\ q.read_pos = Queue(t).read_pos /\ q.write_pos = Queue(t).write_pos
        /\ q.rd_opened = Queue(t).rd_opened /\ q.wr_opened = Queue(t).wr_opened
        /\ bq' = [bq EXCEPT ![At(t)] = q]
  <2> DEFINE q == [Queue(t) EXCEPT !.mtx = "held"]
  <2>1. bq' = [bq EXCEPT ![At(t)] = q]
    BY <1>1, <1>2
  <2>2. q \in ByteQueue /\ q.mtx = "held" /\ q.p = Queue(t).p /\ q.nbytes = Queue(t).nbytes
        /\ q.maxcount = Queue(t).maxcount /\ q.read_pos = Queue(t).read_pos /\ q.write_pos = Queue(t).write_pos
        /\ q.rd_opened = Queue(t).rd_opened /\ q.wr_opened = Queue(t).wr_opened
    BY <1>2 DEF ByteQueue
  <2> HIDE DEF q
  <2> QED
    BY <2>1, <2>2
<1>4. /\ pc'[t] = l /\ fd'[t] = fd[t] /\ count'[t] = count[t] /\ buf'[t] = buf[t]
      /\ \A u \in Task : u # t => pc'[u] = pc[u] /\ fd'[u] = fd[u] /\ count'[u] = count[u] /\ buf'[u] = buf[u]
  BY <1>1 DEF PipeInv, Typed
<1>5. /\ pc' \in [Task -> Labels] /\ count' \in [Task -> 0..MaxCall] /\ fd' \in [Task -> Fd]
      /\ buf' \in [Task -> Seq(Byte)] /\ got' \in Seq(Byte) /\ UNCHANGED fg
  BY <1>1 DEF PipeInv, Typed, Labels
<1>6. q.nbytes = q.write_pos - q.read_pos /\ q.nbytes \in 0..q.maxcount
  BY <1>2, <1>3 DEF PipeInv, NeverOverfull
<1>7. bq'[At(t)] = q
  BY <1>2, <1>3 DEF PipeInv, Typed
<1>8. TaskOK(t)
  BY DEF PipeInv, CallOK
<1>9. TaskOK(t)' /\ Fits(t)'
  <2>1. Reading(t)' = Reading(t) /\ Queue(t)' = q
    BY <1>4, <1>7 DEF Reading, Queue, At
  <2> QED
    BY <1>1, <1>3, <1>4, <1>8, <2>1 DEF TaskOK, Fits
<1>10. pc'[t] \in Critical /\ pc[t] # "idle" /\ q.mtx # "null" /\ (Queue(t).p # Null => q.p # Null)
  BY <1>1, <1>3, <1>4 DEF Critical
<1> HIDE DEF l
<1> QED
  BY <1>1, <1>3, <1>4, <1>5, <1>6, <1>9, <1>10, QueueStep

LEMMA UnlockStep == ASSUME PipeInv, NEW t \in Task, Unlock(t) PROVE PipeInv'
<1>1. /\ pc[t] = "unlock" /\ pc' = [pc EXCEPT ![t] = "idle"] /\ bq' = [bq EXCEPT ![At(t)].mtx = "free"]
      /\ fd' = [fd EXCEPT ![t] = Rd(0)] /\ count' = [count EXCEPT ![t] = 0] /\ buf' = [buf EXCEPT ![t] = <<>>]
      /\ UNCHANGED <<fg, got>>
  BY DEF Unlock, Step
<1>2. At(t) \in Slot /\ Queue(t) = bq[At(t)] /\ Queue(t) \in ByteQueue /\ 0 \in Slot
  BY Descriptors DEF PipeInv, Typed, At, Queue, Slot
<1>3. PICK q \in ByteQueue :
        /\ q.mtx = "free" /\ q.p = Queue(t).p /\ q.nbytes = Queue(t).nbytes /\ q.maxcount = Queue(t).maxcount
        /\ q.read_pos = Queue(t).read_pos /\ q.write_pos = Queue(t).write_pos
        /\ q.rd_opened = Queue(t).rd_opened /\ q.wr_opened = Queue(t).wr_opened
        /\ bq' = [bq EXCEPT ![At(t)] = q]
  <2> DEFINE q == [Queue(t) EXCEPT !.mtx = "free"]
  <2>1. bq' = [bq EXCEPT ![At(t)] = q]
    BY <1>1, <1>2
  <2>2. q \in ByteQueue /\ q.mtx = "free" /\ q.p = Queue(t).p /\ q.nbytes = Queue(t).nbytes
        /\ q.maxcount = Queue(t).maxcount /\ q.read_pos = Queue(t).read_pos /\ q.write_pos = Queue(t).write_pos
        /\ q.rd_opened = Queue(t).rd_opened /\ q.wr_opened = Queue(t).wr_opened
    BY <1>2 DEF ByteQueue
  <2> HIDE DEF q
  <2> QED
    BY <2>1, <2>2
<1>4. /\ pc'[t] = "idle"
      /\ \A u \in Task : u # t => pc'[u] = pc[u] /\ fd'[u] = fd[u] /\ count'[u] = count[u] /\ buf'[u] = buf[u]
  BY <1>1 DEF PipeInv, Typed
<1>5. /\ pc' \in [Task -> Labels] /\ count' \in [Task -> 0..MaxCall] /\ fd' \in [Task -> Fd]
      /\ buf' \in [Task -> Seq(Byte)] /\ got' \in Seq(Byte) /\ UNCHANGED fg
  BY <1>1, <1>2, Descriptors DEF PipeInv, Typed, Labels
<1>6. q.nbytes = q.write_pos - q.read_pos /\ q.nbytes \in 0..q.maxcount
  BY <1>2, <1>3 DEF PipeInv, NeverOverfull
<1>7. TaskOK(t)' /\ Fits(t)'
  BY <1>4 DEF TaskOK, Fits
<1>8. /\ pc'[t] \notin Critical /\ pc[t] \in Critical /\ pc[t] # "idle"
      /\ q.mtx # "null" /\ q.mtx # "held" /\ (Queue(t).p # Null => q.p # Null)
  BY <1>1, <1>3, <1>4 DEF Critical
<1> QED
  BY <1>1, <1>3, <1>4, <1>5, <1>6, <1>7, <1>8, QueueStep

LEMMA Moved ==
  ASSUME NEW o \in ByteQueue, NEW r \in Nat, NEW w \in Nat
  PROVE  [o EXCEPT !.read_pos = r, !.write_pos = w, !.nbytes = w - r] =
           [p |-> o.p, mtx |-> o.mtx, nbytes |-> w - r, maxcount |-> o.maxcount, read_pos |-> r,
            write_pos |-> w, rd_opened |-> o.rd_opened, wr_opened |-> o.wr_opened]
<1> DEFINE a == [o EXCEPT !.read_pos = r]
           b == [a EXCEPT !.write_pos = w]
           c == [b EXCEPT !.nbytes = w - r]
<1>1. a \in ByteQueue /\ a.read_pos = r /\ a.p = o.p /\ a.mtx = o.mtx /\ a.maxcount = o.maxcount
      /\ a.rd_opened = o.rd_opened /\ a.wr_opened = o.wr_opened
  BY DEF ByteQueue
<1> HIDE DEF a
<1>2. b \in ByteQueue /\ b.read_pos = r /\ b.write_pos = w /\ b.p = o.p /\ b.mtx = o.mtx /\ b.maxcount = o.maxcount
      /\ b.rd_opened = o.rd_opened /\ b.wr_opened = o.wr_opened
  BY <1>1 DEF ByteQueue
<1> HIDE DEF b
<1>3. c = [p |-> o.p, mtx |-> o.mtx, nbytes |-> w - r, maxcount |-> o.maxcount, read_pos |-> r,
           write_pos |-> w, rd_opened |-> o.rd_opened, wr_opened |-> o.wr_opened]
  BY <1>2 DEF ByteQueue
<1>4. c = [o EXCEPT !.read_pos = r, !.write_pos = w, !.nbytes = w - r]
  BY DEF a, b
<1> QED
  BY <1>3, <1>4

\* A pipe of which one position has moved.
LEMMA Advanced ==
  ASSUME PipeInv, NEW t \in Task, Advance(t)
  PROVE  \E q \in ByteQueue :
           /\ q.mtx = "held" /\ q.p = Queue(t).p /\ q.maxcount = Queue(t).maxcount
           /\ q.read_pos = IF Reading(t) THEN Queue(t).read_pos + Len(buf[t]) ELSE Queue(t).read_pos
           /\ q.write_pos = IF Reading(t) THEN Queue(t).write_pos ELSE Queue(t).write_pos + Len(buf[t])
           /\ q.nbytes = q.write_pos - q.read_pos /\ q.nbytes \in 0..q.maxcount
           /\ q.rd_opened = Queue(t).rd_opened /\ q.wr_opened = Queue(t).wr_opened
           /\ bq' = [bq EXCEPT ![At(t)] = q]
<1> DEFINE o == Queue(t)
           r == IF Reading(t) THEN o.read_pos + TakenBy(t) ELSE o.read_pos
           w == IF Reading(t) THEN o.write_pos ELSE o.write_pos + TakenBy(t)
<1>1. /\ pc[t] = "advance" /\ pc' = [pc EXCEPT ![t] = "sem_post"]
      /\ bq' = [bq EXCEPT ![At(t)].read_pos = r, ![At(t)].write_pos = w, ![At(t)].nbytes = w - r]
      /\ got' = IF Reading(t) THEN buf[t] ELSE got
      /\ UNCHANGED <<fg, fd, count, buf>>
  BY DEF Advance, Step
<1>2. At(t) \in Slot /\ o = bq[At(t)] /\ o \in ByteQueue
  BY Descriptors DEF PipeInv, Typed, At, Queue
<1>3. TaskOK(t) /\ Fits(t) /\ TakenBy(t) = Len(buf[t]) /\ Len(buf[t]) \in Nat
  BY DEF PipeInv, CallOK, AdvanceOK, TakenBy, Typed
<1>4. /\ o.nbytes = o.write_pos - o.read_pos /\ o.nbytes \in 0..o.maxcount /\ o.maxcount \in Nat
      /\ o.read_pos \in Nat /\ o.write_pos \in Nat
  BY <1>2 DEF PipeInv, NeverOverfull, ByteQueue
<1>5. o.mtx = "held"
  BY <1>1, <1>2 DEF PipeInv, MutexHeld, Critical
<1>6. r \in Nat /\ w \in Nat /\ w - r \in 0..o.maxcount
  <2>1. TakenBy(t) \in Nat /\ TakenBy(t) <= IF Reading(t) THEN o.nbytes ELSE o.maxcount - o.nbytes
    BY <1>1, <1>3 DEF Fits
  <2> HIDE DEF o
  <2>2. CASE Reading(t)
    BY <1>4, <2>1, <2>2
  <2>3. CASE ~Reading(t)
    BY <1>4, <2>1, <2>3
  <2> QED
    BY <2>2, <2>3
<1>7. PICK q \in ByteQueue :
        /\ q.mtx = "held" /\ q.p = o.p /\ q.maxcount = o.maxcount
        /\ q.read_pos = r /\ q.write_pos = w /\ q.nbytes = w - r
        /\ q.rd_opened = o.rd_opened /\ q.wr_opened = o.wr_opened
        /\ bq' = [bq EXCEPT ![At(t)] = q]
  <2> HIDE DEF r, w, o
  <2> DEFINE q == [o EXCEPT !.read_pos = r, !.write_pos = w, !.nbytes = w - r]
  <2>1. bq' = [bq EXCEPT ![At(t)] = q]
    BY <1>1, <1>2
  <2>2. q = [p |-> o.p, mtx |-> o.mtx, nbytes |-> w - r, maxcount |-> o.maxcount, read_pos |-> r,
             write_pos |-> w, rd_opened |-> o.rd_opened, wr_opened |-> o.wr_opened]
    BY <1>2, <1>6, Moved
  <2> HIDE DEF q
  <2>3. /\ q.mtx = "held" /\ q.p = o.p /\ q.maxcount = o.maxcount
        /\ q.read_pos = r /\ q.write_pos = w /\ q.nbytes = w - r
        /\ q.rd_opened = o.rd_opened /\ q.wr_opened = o.wr_opened
    BY <1>5, <2>2
  <2>4. q \in ByteQueue
    BY <1>2, <1>6, <2>2 DEF ByteQueue
  <2> QED
    BY <2>1, <2>3, <2>4
<1> QED
  BY <1>3, <1>6, <1>7

LEMMA AdvanceStep == ASSUME PipeInv, NEW t \in Task, Advance(t) PROVE PipeInv'
<1>1. /\ pc[t] = "advance" /\ pc' = [pc EXCEPT ![t] = "sem_post"]
      /\ got' = (IF Reading(t) THEN buf[t] ELSE got) /\ UNCHANGED <<fg, fd, count, buf>>
  BY DEF Advance, Step
<1>2. PICK q \in ByteQueue :
        /\ q.mtx = "held" /\ q.p = Queue(t).p /\ q.maxcount = Queue(t).maxcount
        /\ q.nbytes = q.write_pos - q.read_pos /\ q.nbytes \in 0..q.maxcount
        /\ q.rd_opened = Queue(t).rd_opened /\ q.wr_opened = Queue(t).wr_opened
        /\ bq' = [bq EXCEPT ![At(t)] = q]
  BY Advanced
<1>3. At(t) \in Slot /\ TaskOK(t)
  BY Descriptors DEF PipeInv, Typed, At, CallOK
<1>4. /\ pc'[t] = "sem_post" /\ fd'[t] = fd[t]
      /\ \A u \in Task : u # t => pc'[u] = pc[u] /\ fd'[u] = fd[u] /\ count'[u] = count[u] /\ buf'[u] = buf[u]
  BY <1>1 DEF PipeInv, Typed
<1>5. /\ pc' \in [Task -> Labels] /\ count' \in [Task -> 0..MaxCall] /\ fd' \in [Task -> Fd]
      /\ buf' \in [Task -> Seq(Byte)] /\ got' \in Seq(Byte) /\ UNCHANGED fg
  BY <1>1 DEF PipeInv, Typed, Labels
<1>6. TaskOK(t)' /\ Fits(t)'
  <2>1. Reading(t)' = Reading(t) /\ Queue(t)' = q
    BY <1>2, <1>3, <1>4 DEF Reading, Queue, At, PipeInv, Typed
  <2> QED
    BY <1>1, <1>2, <1>3, <1>4, <2>1 DEF TaskOK, Fits
<1>7. /\ pc'[t] \in Critical /\ pc[t] \in Critical /\ pc[t] # "idle" /\ q.mtx # "null"
      /\ (Queue(t).p # Null => q.p # Null)
  BY <1>1, <1>2, <1>4 DEF Critical
<1> QED
  BY <1>2, <1>4, <1>5, <1>6, <1>7, QueueStep

\* A pipe into which n bytes have been written behind those it has.
LEMMA CopiedIn ==
  ASSUME PipeInv, NEW t \in Task, CopyIn(t)
  PROVE  \E q \in ByteQueue, n \in Nat :
           /\ n <= Size - Queue(t).nbytes /\ n <= Len(buf[t])
           /\ Queue(t).maxcount = Size /\ Queue(t).p # Null
           /\ q.mtx = "held" /\ q.p # Null /\ q.maxcount = Size /\ q.nbytes = Queue(t).nbytes
           /\ q.read_pos = Queue(t).read_pos /\ q.write_pos = Queue(t).write_pos
           /\ q.rd_opened = Queue(t).rd_opened /\ q.wr_opened = Queue(t).wr_opened
           /\ \A j \in 1..n : q.p[(Queue(t).write_pos + j - 1) % Size] = buf[t][j]
           /\ \A i \in 0..(Size - 1) :
                (\A j \in 1..n : (Queue(t).write_pos + j - 1) % Size # i) => q.p[i] = Queue(t).p[i]
           /\ bq' = [bq EXCEPT ![At(t)] = q]
           /\ buf' = [buf EXCEPT ![t] = SubSeq(buf[t], 1, n)] /\ SubSeq(buf[t], 1, n) \in Seq(Byte)
           /\ Len(SubSeq(buf[t], 1, n)) = n
           /\ \A j \in 1..n : SubSeq(buf[t], 1, n)[j] = buf[t][j]
<1> DEFINE o == Queue(t)
           n == Least(count[t], Room(o))
           Source(i) == {j \in 1..n : Cell(o, o.write_pos + j - 1) = i}
           p == [i \in DOMAIN o.p |-> IF Source(i) = {} THEN o.p[i] ELSE buf[t][Max(Source(i))]]
           data == SubSeq(buf[t], 1, n)
<1>1. /\ pc[t] = "copy_in" /\ pc' = [pc EXCEPT ![t] = "advance"]
      /\ bq' = [bq EXCEPT ![At(t)].p = [i \in DOMAIN @ |-> IF Source(i) = {} THEN @[i] ELSE buf[t][Max(Source(i))]]]
      /\ buf' = [buf EXCEPT ![t] = SubSeq(@, 1, n)] /\ UNCHANGED <<fg, fd, count, got>>
  BY DEF CopyIn, Step
<1>2. At(t) \in Slot /\ o = bq[At(t)] /\ o \in ByteQueue /\ buf[t] \in Seq(Byte) /\ count[t] \in Nat
  BY Descriptors DEF PipeInv, Typed, At, Queue
<1>3. TaskOK(t) /\ ~Reading(t) /\ Len(buf[t]) = count[t]
  BY <1>1 DEF PipeInv, CallOK, TaskOK
<1>4. Opened(o) /\ o.p # Null /\ o.maxcount = Size /\ o.p \in [0..(Size - 1) -> Byte]
  BY <1>1, <1>2, <1>3 DEF PipeInv, OpenOK, TaskOK, Opened, ByteQueue
<1>5. /\ o.nbytes = o.write_pos - o.read_pos /\ o.nbytes \in 0..Size
      /\ o.read_pos \in Nat /\ o.write_pos \in Nat /\ o.mtx = "held"
  BY <1>1, <1>2, <1>4 DEF PipeInv, NeverOverfull, MutexHeld, Critical, ByteQueue
<1>6. n \in Nat /\ n <= Size - o.nbytes /\ n <= Len(buf[t]) /\ n <= Size
  BY <1>2, <1>3, <1>4, <1>5 DEF Least, Room
<1>7. data \in Seq(Byte) /\ Len(data) = n
  <2> HIDE DEF n
  <2> QED
    BY <1>2, <1>6
<1>8. \A i : Source(i) # {} => Max(Source(i)) \in Source(i)
  <2> SUFFICES ASSUME NEW i, Source(i) # {} PROVE Max(Source(i)) \in Source(i)
    OBVIOUS
  <2>1. PICK j \in 1..n : Cell(o, o.write_pos + j - 1) = i
    OBVIOUS
  <2>2. \A k \in Source(i) : k = j
    <3> SUFFICES ASSUME NEW k \in 1..n, Cell(o, o.write_pos + k - 1) = i PROVE k = j
      OBVIOUS
    <3> QED
      <4>1. (o.write_pos + j - 1) % Size = (o.write_pos + k - 1) % Size
        BY <1>4, <2>1 DEF Cell
      <4>2. j \in 1..Size /\ k \in 1..Size
        BY <1>6
      <4> HIDE DEF o, n
      <4> QED
        BY <1>5, <4>1, <4>2, SameCell
  <2> QED
    <3>1. j \in Source(i) /\ j \in Nat
      BY <1>6, <2>1
    <3> HIDE DEF Source
    <3> QED
      BY <2>2, <3>1, OnlyElement
<1>9. p \in [0..(Size - 1) -> Byte] /\ p # Null
  <2>1. \A i \in 1..Len(buf[t]) : buf[t][i] \in Byte
    BY <1>2
  <2>2. \A i \in 0..(Size - 1) : p[i] \in Byte
    <3> SUFFICES ASSUME NEW i \in 0..(Size - 1) PROVE p[i] \in Byte
      OBVIOUS
    <3>1. p[i] = IF Source(i) = {} THEN o.p[i] ELSE buf[t][Max(Source(i))]
      BY <1>4
    <3>2. Max(Source(i)) \in 1..Len(buf[t]) \/ Source(i) = {}
      <4> HIDE DEF Source, n, o
      <4>1. Source(i) # {} => Max(Source(i)) \in 1..n
        BY <1>8 DEF Source
      <4> QED
        BY <1>2, <1>6, <4>1
    <3> HIDE DEF p, Source, n, o
    <3> QED
      BY <1>4, <2>1, <3>1, <3>2
  <2>3. DOMAIN p = 0..(Size - 1) /\ 0 \in DOMAIN p /\ DOMAIN Null = {}
    BY <1>4 DEF Null
  <2> QED
    BY <1>4, <2>2, <2>3
<1>13. \A i \in 0..(Size - 1) :
         (\A j \in 1..n : (o.write_pos + j - 1) % Size # i) => p[i] = o.p[i]
  <2> SUFFICES ASSUME NEW i \in 0..(Size - 1), \A j \in 1..n : (o.write_pos + j - 1) % Size # i
               PROVE  p[i] = o.p[i]
    OBVIOUS
  <2>1. Source(i) = {}
    BY <1>4 DEF Cell
  <2> QED
    BY <1>4, <2>1
<1>14. \A j \in 1..n : p[(o.write_pos + j - 1) % Size] = buf[t][j]
  <2> SUFFICES ASSUME NEW j \in 1..n PROVE p[(o.write_pos + j - 1) % Size] = buf[t][j]
    OBVIOUS
  <2> DEFINE i == (o.write_pos + j - 1) % Size
  <2>1. i \in 0..(Size - 1)
    <3>1. o.write_pos + j - 1 \in Int
      BY <1>5, <1>6
    <3> QED
      BY <3>1, CellInside
  <2>2. j \in Source(i)
    BY <1>4 DEF Cell
  <2>3. Max(Source(i)) \in 1..n /\ (o.write_pos + Max(Source(i)) - 1) % Size = i
    <3>1. Max(Source(i)) \in Source(i)
      <4> HIDE DEF Source
      <4> QED
        BY <1>8, <2>2
    <3> DEFINE m == Max(Source(i))
    <3>2. Cell(o, o.write_pos + m - 1) = i /\ m \in 1..n
      BY <3>1
    <3> HIDE DEF m, Source, i
    <3>3. (o.write_pos + m - 1) % Size = i
      BY <1>4, <3>2 DEF Cell
    <3> QED
      BY <3>2, <3>3 DEF m
  <2>4. p[i] = buf[t][Max(Source(i))]
    BY <1>4, <2>1, <2>2
  <2> DEFINE m == Max(Source(i))
  <2>5. j \in 1..Size /\ m \in 1..Size
    <3> HIDE DEF m
    <3>1. m \in 1..n
      BY <2>3 DEF m
    <3> QED
      BY <1>6, <3>1
  <2>6. (o.write_pos + j - 1) % Size = (o.write_pos + m - 1) % Size
    BY <2>3
  <2> HIDE DEF m, Source, o, n
  <2>7. m = j
    BY <1>5, <2>5, <2>6, SameCell
  <2> QED
    BY <2>4, <2>7 DEF m
<1>10. bq' = [bq EXCEPT ![At(t)] = [o EXCEPT !.p = p]]
  BY <1>1, <1>2
<1> HIDE DEF p, Source, n, data
<1>11. buf' = [buf EXCEPT ![t] = data]
  BY <1>1 DEF data
<1> HIDE DEF o
<1>12. PICK q \in ByteQueue :
        /\ q.mtx = "held" /\ q.p = p /\ q.maxcount = o.maxcount /\ q.nbytes = o.nbytes
        /\ q.read_pos = o.read_pos /\ q.write_pos = o.write_pos
        /\ q.rd_opened = o.rd_opened /\ q.wr_opened = o.wr_opened
        /\ bq' = [bq EXCEPT ![At(t)] = q]
  <2> DEFINE q == [o EXCEPT !.p = p]
  <2>1. q \in ByteQueue /\ q.mtx = "held" /\ q.p = p /\ q.nbytes = o.nbytes
        /\ q.maxcount = o.maxcount /\ q.read_pos = o.read_pos /\ q.write_pos = o.write_pos
        /\ q.rd_opened = o.rd_opened /\ q.wr_opened = o.wr_opened
    BY <1>2, <1>5, <1>9 DEF ByteQueue
  <2> HIDE DEF q
  <2> QED
    BY <1>10, <2>1 DEF q
<1> HIDE DEF o
<1>15. buf' = [buf EXCEPT ![t] = SubSeq(buf[t], 1, n)] /\ \A j \in 1..n : data[j] = buf[t][j]
  BY <1>2, <1>6, <1>11 DEF data
<1> QED
  BY <1>4, <1>6, <1>7, <1>9, <1>12, <1>13, <1>14, <1>15 DEF o, data

LEMMA CopyInStep == ASSUME PipeInv, NEW t \in Task, CopyIn(t) PROVE PipeInv'
<1>1. pc[t] = "copy_in" /\ pc' = [pc EXCEPT ![t] = "advance"] /\ UNCHANGED <<fg, fd, count, got>>
  BY DEF CopyIn, Step
<1>2. PICK q \in ByteQueue, n \in Nat :
        /\ n <= Size - Queue(t).nbytes
        /\ Queue(t).maxcount = Size /\ q.mtx = "held" /\ q.p # Null /\ q.maxcount = Size /\ q.nbytes = Queue(t).nbytes
        /\ q.read_pos = Queue(t).read_pos /\ q.write_pos = Queue(t).write_pos
        /\ q.rd_opened = Queue(t).rd_opened /\ q.wr_opened = Queue(t).wr_opened
        /\ bq' = [bq EXCEPT ![At(t)] = q]
        /\ buf' = [buf EXCEPT ![t] = SubSeq(buf[t], 1, n)] /\ SubSeq(buf[t], 1, n) \in Seq(Byte)
        /\ Len(SubSeq(buf[t], 1, n)) = n
  BY CopiedIn
<1> DEFINE data == SubSeq(buf[t], 1, n)
<1>3. data \in Seq(Byte) /\ Len(data) = n /\ buf' = [buf EXCEPT ![t] = data]
  BY <1>2
<1> HIDE DEF data
<1>4. At(t) \in Slot /\ Queue(t) = bq[At(t)] /\ TaskOK(t) /\ ~Reading(t)
  BY <1>1, Descriptors DEF PipeInv, Typed, At, CallOK, TaskOK, Queue
<1>5. Queue(t).nbytes = Queue(t).write_pos - Queue(t).read_pos /\ Queue(t).nbytes \in 0..Size
  BY <1>2, <1>4 DEF PipeInv, NeverOverfull
<1>6. /\ pc'[t] = "advance" /\ fd'[t] = fd[t] /\ buf'[t] = data
      /\ \A u \in Task : u # t => pc'[u] = pc[u] /\ fd'[u] = fd[u] /\ count'[u] = count[u] /\ buf'[u] = buf[u]
  BY <1>1, <1>3 DEF PipeInv, Typed
<1>7. /\ pc' \in [Task -> Labels] /\ count' \in [Task -> 0..MaxCall] /\ fd' \in [Task -> Fd]
      /\ buf' \in [Task -> Seq(Byte)] /\ got' \in Seq(Byte) /\ UNCHANGED fg
  BY <1>1, <1>3 DEF PipeInv, Typed, Labels
<1>8. TaskOK(t)' /\ Fits(t)'
  <2>1. Reading(t)' = Reading(t) /\ Queue(t)' = q
    BY <1>2, <1>4, <1>6 DEF Reading, Queue, At, PipeInv, Typed
  <2> QED
    BY <1>1, <1>2, <1>3, <1>4, <1>6, <2>1 DEF TaskOK, Fits
<1>9. /\ pc'[t] \in Critical /\ pc[t] \in Critical /\ pc[t] # "idle" /\ q.mtx # "null" /\ q.p # Null
      /\ q.maxcount = Queue(t).maxcount /\ q.nbytes = q.write_pos - q.read_pos /\ q.nbytes \in 0..q.maxcount
  BY <1>1, <1>2, <1>5, <1>6 DEF Critical
<1> QED
  BY <1>2, <1>6, <1>7, <1>8, <1>9, QueueStep

LEMMA PipeInvNext == PipeInv /\ [Next]_vars => PipeInv'
<1> SUFFICES ASSUME PipeInv, [Next]_vars PROVE PipeInv'
  OBVIOUS
<1>1. CASE Create
  BY <1>1, CreateStep
<1>2. CASE Deinit
  BY <1>2, DeinitStep
<1>3. CASE Select
  BY <1>3, SelectStep
<1>4. CASE \E d \in Fd : Close(d)
  BY <1>4, CloseStep
<1>5. CASE \E t \in Task : Call(t)
  <2> SUFFICES ASSUME NEW t \in Task, Call(t) PROVE PipeInv'
    BY <1>5
  <2> QED
    BY CallReadStep, CallWriteStep, SemWaitStep, LockStep, CopyOutStep, CopyInStep, AdvanceStep, SemPostStep, UnlockStep
       DEF Call
<1>6. CASE UNCHANGED vars
  BY <1>6 DEF vars, PipeInv, Typed, OpenOK, CallOK, TaskOK, MutexHeld, NeverOverfull, AdvanceOK, Fits, Queue, At, Reading
<1> QED
  BY <1>1, <1>2, <1>3, <1>4, <1>5, <1>6 DEF Next

----------------------------------------------------------------------------
(* The theorems *)

\* Whatever the readers, the writers and those who create and close pipes do,
\* every variable keeps its type, the byte queues of pipes that are closed and
\* created again included.
THEOREM PipeTyped == Spec => []TypeOK
<1>1. PipeInv => TypeOK
  BY DEF PipeInv, Typed, TypeOK, ByteQueue
<1> QED
  BY <1>1, PipeInvInit, PipeInvNext, PTL DEF Spec

\* The mutex of eeos_pipe_read and eeos_pipe_write is held by exactly one task
\* from its lock to its unlock.
THEOREM PipeExclusive == Spec => []MutexHeld
<1>1. PipeInv => MutexHeld
  BY DEF PipeInv
<1> QED
  BY <1>1, PipeInvInit, PipeInvNext, PTL DEF Spec

\* A write never overtakes the reader: nbytes is the distance of the positions
\* and at most maxcount.
THEOREM NoOverrun == Spec => []NeverOverfull
<1>1. PipeInv => NeverOverfull
  BY DEF PipeInv
<1> QED
  BY <1>1, PipeInvInit, PipeInvNext, PTL DEF Spec

\* A call has its buffer, and a maxcount to divide by, for as long as it lasts,
\* although the other end may be closed at any moment.
THEOREM BuffersStay == Spec => []BufferThere
<1>1. PipeInv => BufferThere
  <2> SUFFICES ASSUME PipeInv, NEW t \in Task, pc[t] # "idle"
               PROVE  Opened(Queue(t)) /\ Queue(t).p # Null /\ Queue(t).maxcount = Size
    BY DEF BufferThere
  <2>1. At(t) \in Slot /\ Queue(t) = bq[At(t)]
    BY Descriptors DEF PipeInv, Typed, At, Queue
  <2>2. Opened(Queue(t))
    BY DEF PipeInv, CallOK, TaskOK, Opened
  <2> QED
    BY <2>1, <2>2 DEF PipeInv, OpenOK
<1> QED
  BY <1>1, PipeInvInit, PipeInvNext, PTL DEF Spec

----------------------------------------------------------------------------
(* A pipe is a queue of bytes *)

Pipes == {s \in Slot : Opened(bq[s])}
Queues == [s \in Slot |-> Content(bq[s])]

\* Where the copy loop of t begins.
From(t) == IF Reading(t) THEN Queue(t).read_pos ELSE Queue(t).write_pos

\* Until the positions are advanced, what was copied is in both buffers.
Copied(t) ==
  pc[t] = "advance" => \A j \in 1..Len(buf[t]) : buf[t][j] = Queue(t).p[Cell(Queue(t), From(t) + j - 1)]

CopiedOK == \A t \in Task : Copied(t)

\* Two states of a pipe that have the same bytes.
Alike(q, r) ==
  /\ r.p = q.p /\ r.maxcount = q.maxcount /\ r.read_pos = q.read_pos /\ r.write_pos = q.write_pos
  /\ (Opened(r) <=> Opened(q))

LEMMA CopiedInit == Init => CopiedOK
BY DEF Init, CopiedOK, Copied

LEMMA SameQueues ==
  ASSUME \A s \in Slot : Alike(bq[s], bq'[s])
  PROVE  Pipes' = Pipes /\ Queues' = Queues
<1>1. \A s \in Slot : Content(bq'[s]) = Content(bq[s]) /\ (Opened(bq'[s]) <=> Opened(bq[s]))
  BY DEF Alike, Content, Cell
<1> QED
  BY <1>1 DEF Pipes, Queues

\* What a task has copied stays copied while nobody touches its pipe.
LEMMA StaysCopied ==
  ASSUME PipeInv, CopiedOK, NEW t \in Task, pc'[t] = "advance",
         pc[t] = "advance", fd'[t] = fd[t], buf'[t] = buf[t], Alike(bq[At(t)], bq'[At(t)])
  PROVE  Copied(t)'
<1>1. At(t) \in Slot /\ Copied(t)
  BY Descriptors DEF PipeInv, Typed, At, CopiedOK
<1>2. At(t)' = At(t) /\ Reading(t)' = Reading(t)
  BY DEF At, Reading
<1>3. /\ Queue(t)'.p = Queue(t).p /\ Queue(t)'.maxcount = Queue(t).maxcount
      /\ Queue(t)'.read_pos = Queue(t).read_pos /\ Queue(t)'.write_pos = Queue(t).write_pos
  BY <1>1, <1>2 DEF Queue, Alike
<1>4. From(t)' = From(t) /\ \A pos : Cell(Queue(t)', pos) = Cell(Queue(t), pos)
  BY <1>2, <1>3 DEF From, Cell
<1>5. \A j \in 1..Len(buf[t]) : buf[t][j] = Queue(t).p[Cell(Queue(t), From(t) + j - 1)]
  BY <1>1 DEF Copied
<1>6. \A j \in 1..Len(buf'[t]) : buf'[t][j] = Queue(t)'.p[Cell(Queue(t)', From(t)' + j - 1)]
  BY <1>3, <1>4, <1>5
<1> QED
  BY <1>6 DEF Copied

\* A step that neither moves a byte nor opens or closes a pipe is not seen.
LEMMA Unseen ==
  ASSUME PipeInv, CopiedOK, \A s \in Slot : Alike(bq[s], bq'[s]), got' = got,
         \A t \in Task : pc'[t] = "advance" => pc[t] = "advance" /\ fd'[t] = fd[t] /\ buf'[t] = buf[t]
  PROVE  CopiedOK' /\ UNCHANGED <<Pipes, Queues, got>>
<1>1. ASSUME NEW t \in Task, pc'[t] = "advance" PROVE Copied(t)'
  <2>1. At(t) \in Slot
    BY Descriptors DEF PipeInv, Typed, At
  <2> QED
    BY <1>1, <2>1, StaysCopied
<1> QED
  BY <1>1, SameQueues DEF CopiedOK, Copied

\* A pipe that is opened or closed has no bytes.
LEMMA SlotSeen ==
  ASSUME PipeInv, CopiedOK, NEW s \in Slot, NEW q \in ByteQueue, bq' = [bq EXCEPT ![s] = q],
         UNCHANGED <<pc, fd, buf, got>>, \A t \in Task : ~Inside(t, s), q.read_pos = 0, q.write_pos = 0
  PROVE  /\ CopiedOK'
         /\ Pipes' = IF Opened(q) THEN Pipes \union {s} ELSE Pipes \ {s}
         /\ Queues' = [Queues EXCEPT ![s] = <<>>]
<1>1. bq' \in [Slot -> ByteQueue] /\ \A r \in Slot : bq'[r] = IF r = s THEN q ELSE bq[r]
  BY DEF PipeInv, Typed
<1>2. Content(q) = <<>>
  BY DEF Content
<1>3. Queues' = [Queues EXCEPT ![s] = <<>>]
  BY <1>1, <1>2 DEF Queues
<1>4. Pipes' = IF Opened(q) THEN Pipes \union {s} ELSE Pipes \ {s}
  BY <1>1 DEF Pipes
<1>5. CopiedOK'
  <2> SUFFICES ASSUME NEW t \in Task, pc[t] = "advance" PROVE Copied(t)'
    BY DEF CopiedOK, Copied
  <2>1. At(t) # s /\ At(t) \in Slot
    BY Descriptors DEF Inside, PipeInv, Typed, At
  <2>2. At(t)' = At(t) /\ Reading(t)' = Reading(t)
    BY DEF At, Reading
  <2>3. Queue(t)' = Queue(t)
    BY <1>1, <2>1, <2>2 DEF Queue
  <2>4. From(t)' = From(t) /\ Copied(t)
    BY <2>2, <2>3 DEF From, CopiedOK
  <2> QED
    BY <2>2, <2>3, <2>4 DEF Copied
<1> QED
  BY <1>3, <1>4, <1>5

\* Of a pipe that is not open nothing is left.
LEMMA ClosedEmpty == ASSUME PipeInv, NEW s \in Slot, ~Opened(bq[s]) PROVE Queues = [Queues EXCEPT ![s] = <<>>]
<1>1. bq[s].read_pos = 0 /\ bq[s].write_pos = 0
  BY DEF PipeInv, OpenOK
<1>2. Content(bq[s]) = <<>>
  BY <1>1 DEF Content
<1> QED
  BY <1>2 DEF Queues

LEMMA CreateSeen ==
  PipeInv /\ CopiedOK /\ Create => CopiedOK' /\ ((\E s \in Slot : F!Open(s)) \/ UNCHANGED <<Pipes, Queues, got>>)
<1> SUFFICES ASSUME PipeInv, CopiedOK, Create
             PROVE  CopiedOK' /\ ((\E s \in Slot : F!Open(s)) \/ UNCHANGED <<Pipes, Queues, got>>)
  OBVIOUS
<1>1. Min({r \in Slot : ~Opened(bq[r])}) \in {r \in Slot : ~Opened(bq[r])}
  BY LeastSlot DEF Create
<1>2. PICK s \in Slot, failed \in {"none", "p", "mtx"} :
        ~Opened(bq[s]) /\ bq' = [bq EXCEPT ![s] = Created(failed)]
  BY <1>1 DEF Create
<1>3. Created(failed) \in ByteQueue /\ Created(failed).read_pos = 0 /\ Created(failed).write_pos = 0
  BY CreatedType
<1>4. (\A t \in Task : ~Inside(t, s)) /\ UNCHANGED <<pc, fd, buf, got>>
  BY <1>2, InsideOpen DEF Create
<1>5. /\ CopiedOK' /\ Queues' = Queues
      /\ Pipes' = IF Opened(Created(failed)) THEN Pipes \union {s} ELSE Pipes \ {s}
  BY <1>2, <1>3, <1>4, SlotSeen, ClosedEmpty
<1>6. s \notin Pipes
  BY <1>2 DEF Pipes
<1>7. CASE Opened(Created(failed))
  <2>1. F!Open(s)
    BY <1>4, <1>5, <1>6, <1>7 DEF F!Open, Pipes, Queues
  <2> QED
    BY <1>5, <2>1
<1>8. CASE ~Opened(Created(failed))
  BY <1>4, <1>5, <1>6, <1>8
<1> QED
  BY <1>7, <1>8

LEMMA DeinitSeen == PipeInv /\ CopiedOK /\ Deinit => CopiedOK' /\ \E s \in Slot : F!Shut(s)
<1> SUFFICES ASSUME PipeInv, CopiedOK, Deinit PROVE CopiedOK' /\ \E s \in Slot : F!Shut(s)
  OBVIOUS
<1>1. Min({r \in Slot : Opened(bq[r])}) \in {r \in Slot : Opened(bq[r])}
  BY LeastSlot DEF Deinit
<1>2. PICK s \in Slot : /\ Opened(bq[s]) /\ bq' = [bq EXCEPT ![s] = ZeroQueue]
                        /\ \A t \in Task : ~Inside(t, s)
  BY <1>1 DEF Deinit
<1>3. ZeroQueue \in ByteQueue /\ ZeroQueue.read_pos = 0 /\ ZeroQueue.write_pos = 0 /\ ~Opened(ZeroQueue)
  BY DEF ZeroQueue, ByteQueue, Opened
<1>4. UNCHANGED <<pc, fd, buf, got>>
  BY DEF Deinit
<1>5. CopiedOK' /\ Queues' = [Queues EXCEPT ![s] = <<>>] /\ Pipes' = Pipes \ {s}
  BY <1>2, <1>3, <1>4, SlotSeen
<1>6. F!Shut(s)
  BY <1>2, <1>4, <1>5 DEF F!Shut, Pipes, Queues
<1> QED
  BY <1>5, <1>6

LEMMA CloseSeen ==
  ASSUME PipeInv, CopiedOK, NEW d \in Fd, Close(d)
  PROVE  CopiedOK' /\ ((\E s \in Slot : F!Shut(s)) \/ UNCHANGED <<Pipes, Queues, got>>)
<1> DEFINE s == PIPE_HANDLE(d)
           e == EndClosed(bq[s], d)
           q == LastClosed(e)
<1>1. s \in Slot /\ bq' = [bq EXCEPT ![s] = q] /\ bq[s] \in ByteQueue /\ UNCHANGED <<pc, fd, count, buf, got>>
  BY Descriptors DEF Close, PipeInv, Typed
<1>2. /\ e \in ByteQueue /\ e.p = bq[s].p /\ e.maxcount = bq[s].maxcount
      /\ e.read_pos = bq[s].read_pos /\ e.write_pos = bq[s].write_pos
      /\ (Opened(e) => Opened(bq[s])) /\ Opened(bq[s])
  BY <1>1 DEF Close, EndClosed, ByteQueue, Opened
<1>3. bq' \in [Slot -> {bq'[r] : r \in Slot}] /\ \A r \in Slot : bq'[r] = IF r = s THEN q ELSE bq[r]
  BY <1>1 DEF PipeInv, Typed
<1>4. CASE ~Opened(e)
  <2>1. q = ZeroQueue
    BY <1>4 DEF LastClosed
  <2>2. ZeroQueue \in ByteQueue /\ ZeroQueue.read_pos = 0 /\ ZeroQueue.write_pos = 0 /\ ~Opened(ZeroQueue)
    BY DEF ZeroQueue, ByteQueue, Opened
  <2> HIDE DEF s, q, e
  <2>3. \A t \in Task : ~Inside(t, s)
    <3>1. PipeInv'
      BY CloseStep
    <3>2. \A t \in Task : Inside(t, s)' => Opened(bq'[s])
      BY <1>1, <3>1 DEF PipeInv, CallOK, TaskOK, Inside, Queue, Opened
    <3>3. \A t \in Task : Inside(t, s)' <=> Inside(t, s)
      BY <1>1 DEF Inside, At, s
    <3> QED
      BY <1>1, <1>3, <2>1, <2>2, <3>2, <3>3
  <2>4. CopiedOK' /\ Queues' = [Queues EXCEPT ![s] = <<>>] /\ Pipes' = Pipes \ {s}
    BY <1>1, <2>1, <2>2, <2>3, SlotSeen
  <2>5. PICK r \in Slot : r = s
    BY <1>1
  <2>6. F!Shut(r)
    BY <1>1, <1>2, <2>4, <2>5 DEF F!Shut, Pipes, Queues
  <2> QED
    BY <2>4, <2>6
<1>5. CASE Opened(e)
  <2>1. q = e
    BY <1>5 DEF LastClosed
  <2> HIDE DEF s, q, e
  <2>2. bq'[s] = e /\ \A r \in Slot : r # s => bq'[r] = bq[r]
    BY <1>1, <1>3, <2>1
  <2>3. \A r \in Slot : Alike(bq[r], bq'[r])
    BY <1>2, <1>5, <2>2 DEF Alike
  <2> QED
    BY <1>1, <2>3, Unseen
<1> QED
  BY <1>4, <1>5

\* A caller starts, waits for or posts its semaphore, or takes or releases the mutex.
LEMMA QuietSeen ==
  ASSUME PipeInv, CopiedOK, NEW t \in Task,
         CallRead(t) \/ CallWrite(t) \/ SemWait(t) \/ SemPost(t) \/ Lock(t) \/ Unlock(t)
  PROVE  CopiedOK' /\ UNCHANGED <<Pipes, Queues, got>>
<1>1. At(t) \in Slot /\ bq \in [Slot -> ByteQueue] /\ pc \in [Task -> Labels] /\ fd \in [Task -> Fd] /\ buf \in [Task -> Seq(Byte)]
  BY Descriptors DEF PipeInv, Typed, At
<1>2. \A s \in Slot : Alike(bq[s], bq'[s])
  <2>1. CASE UNCHANGED bq
    BY <2>1 DEF Alike
  <2>2. CASE \E m \in {"free", "held"} : bq' = [bq EXCEPT ![At(t)].mtx = m]
    <3>1. PICK m \in {"free", "held"} : bq' = [bq EXCEPT ![At(t)].mtx = m]
      BY <2>2
    <3>2. \A s \in Slot : bq'[s] = IF s = At(t) THEN [bq[s] EXCEPT !.mtx = m] ELSE bq[s]
      BY <1>1, <3>1
    <3>3. \A q \in ByteQueue : Alike(q, [q EXCEPT !.mtx = m]) /\ Alike(q, q)
      BY DEF ByteQueue, Alike, Opened
    <3> QED
      BY <1>1, <3>2, <3>3
  <2> QED
    BY <2>1, <2>2 DEF CallRead, CallWrite, SemWait, SemPost, Lock, Unlock
<1>3. got' = got
  BY DEF CallRead, CallWrite, SemWait, SemPost, Lock, Unlock
<1>4. pc'[t] # "advance" /\ \A u \in Task : u # t => pc'[u] = pc[u] /\ fd'[u] = fd[u] /\ buf'[u] = buf[u]
  <2>1. CASE CallRead(t)
    BY <1>1, <2>1 DEF CallRead, Step
  <2>2. CASE CallWrite(t)
    BY <1>1, <2>2 DEF CallWrite, Step
  <2>3. CASE SemWait(t) \/ SemPost(t)
    BY <1>1, <2>3 DEF SemWait, SemPost, Step
  <2>4. CASE Lock(t)
    BY <1>1, <2>4 DEF Lock, Step
  <2>5. CASE Unlock(t)
    BY <1>1, <2>5 DEF Unlock, Step
  <2> QED
    BY <2>1, <2>2, <2>3, <2>4, <2>5
<1>5. \A u \in Task : pc'[u] = "advance" => pc[u] = "advance" /\ fd'[u] = fd[u] /\ buf'[u] = buf[u]
  BY <1>4
<1> QED
  BY <1>2, <1>3, <1>5, Unseen

\* Who is about to advance has a pipe of his own.
LEMMA ApartFrom ==
  ASSUME PipeInv, NEW t \in Task, NEW u \in Task, u # t, pc[t] \in Critical, pc[u] = "advance"
  PROVE  At(u) # At(t) /\ At(u) \in Slot /\ At(t) \in Slot
<1>1. At(u) \in Slot /\ At(t) \in Slot
  BY Descriptors DEF PipeInv, Typed, At
<1>2. pc[u] \in Critical
  BY DEF Critical
<1> QED
  BY <1>1, <1>2 DEF PipeInv, MutexHeld

\* What an open pipe has.
LEMMA ContentType ==
  ASSUME NEW q \in ByteQueue, q.p # Null, q.maxcount = Size, q.write_pos - q.read_pos \in 0..Size
  PROVE  /\ Content(q) \in Seq(Byte) /\ Len(Content(q)) = q.write_pos - q.read_pos
         /\ \A i \in 1..(q.write_pos - q.read_pos) : Content(q)[i] = q.p[(q.read_pos + i - 1) % Size]
<1> DEFINE n == q.write_pos - q.read_pos
           c == [i \in 1..n |-> q.p[Cell(q, q.read_pos + i - 1)]]
<1>1. q.p \in [0..(Size - 1) -> Byte] /\ q.read_pos \in Nat /\ n \in Nat
  BY DEF ByteQueue
<1> HIDE DEF n
<1>2. \A i \in 1..n : c[i] = q.p[(q.read_pos + i - 1) % Size] /\ c[i] \in Byte
  <2> SUFFICES ASSUME NEW i \in 1..n
               PROVE  c[i] = q.p[(q.read_pos + i - 1) % Size] /\ c[i] \in Byte
    OBVIOUS
  <2>1. c[i] = q.p[(q.read_pos + i - 1) % Size]
    BY DEF Cell
  <2>2. q.read_pos + i - 1 \in Int
    BY <1>1
  <2>3. (q.read_pos + i - 1) % Size \in 0..(Size - 1)
    BY <2>2, CellInside
  <2> HIDE DEF c
  <2> QED
    BY <1>1, <2>1, <2>3
<1>3. c \in Seq(Byte) /\ Len(c) = n
  BY <1>1, <1>2
<1>4. Content(q) = c
  BY DEF Content, n
<1> HIDE DEF c
<1> QED
  BY <1>2, <1>3, <1>4 DEF n

LEMMA CopyOutSeen ==
  ASSUME PipeInv, CopiedOK, NEW t \in Task, CopyOut(t)
  PROVE  CopiedOK' /\ UNCHANGED <<Pipes, Queues, got>>
<1> DEFINE q == Queue(t)
           n == Least(count[t], q.write_pos - q.read_pos)
           data == [j \in 1..n |-> q.p[Cell(q, q.read_pos + j - 1)]]
<1>1. /\ pc[t] = "copy_out" /\ pc' = [pc EXCEPT ![t] = "advance"] /\ buf' = [buf EXCEPT ![t] = data]
      /\ UNCHANGED <<bq, fg, fd, count, got>>
  BY DEF CopyOut, Step
<1>2. TaskOK(t) /\ Reading(t)
  BY <1>1 DEF PipeInv, CallOK, TaskOK
<1>3. buf'[t] \in Seq(Byte)
  BY CopyOutStep DEF PipeInv, Typed
<1>4. buf'[t] = data
  BY <1>1 DEF PipeInv, Typed
<1>5. Queue(t)' = q /\ From(t)' = q.read_pos /\ At(t)' = At(t)
  BY <1>1, <1>2 DEF Queue, At, From, Reading
<1>6. Copied(t)'
  <2>1. \A j \in 1..Len(buf'[t]) : buf'[t][j] = q.p[Cell(q, q.read_pos + j - 1)]
    <3> HIDE DEF q, n
    <3>1. DOMAIN data = 1..n /\ \A j \in 1..n : data[j] = q.p[Cell(q, q.read_pos + j - 1)]
      OBVIOUS
    <3> HIDE DEF data
    <3>2. DOMAIN buf'[t] = 1..Len(buf'[t])
      BY <1>3
    <3> QED
      BY <1>4, <3>1, <3>2
  <2> HIDE DEF q, n, data
  <2>2. \A pos : Cell(q, pos)' = Cell(q, pos)
    BY <1>1 DEF Cell, q, Queue, At
  <2>3. \A j \in 1..Len(buf'[t]) : buf'[t][j] = Queue(t)'.p[Cell(Queue(t)', From(t)' + j - 1)]
    BY <1>5, <2>1
  <2> QED
    BY <2>3 DEF Copied
<1>7. ASSUME NEW u \in Task, u # t, pc'[u] = "advance" PROVE Copied(u)'
  <2>1. pc[u] = "advance" /\ fd'[u] = fd[u] /\ buf'[u] = buf[u]
    BY <1>1, <1>7 DEF PipeInv, Typed
  <2>2. Alike(bq[At(u)], bq'[At(u)])
    BY <1>1 DEF Alike
  <2> QED
    BY <1>7, <2>1, <2>2, StaysCopied
<1>8. CopiedOK'
  BY <1>6, <1>7 DEF CopiedOK, Copied
<1> QED
  BY <1>1, <1>8 DEF Pipes, Queues

LEMMA CopyInSeen ==
  ASSUME PipeInv, CopiedOK, NEW t \in Task, CopyIn(t)
  PROVE  CopiedOK' /\ UNCHANGED <<Pipes, Queues, got>>
<1> DEFINE o == Queue(t)
<1>1. pc[t] = "copy_in" /\ pc' = [pc EXCEPT ![t] = "advance"] /\ UNCHANGED <<fg, fd, count, got>>
  BY DEF CopyIn, Step
<1>2. PICK q \in ByteQueue, n \in Nat :
        /\ n <= Size - o.nbytes /\ o.maxcount = Size /\ o.p # Null
        /\ q.p # Null /\ q.maxcount = Size
        /\ q.read_pos = o.read_pos /\ q.write_pos = o.write_pos
        /\ q.rd_opened = o.rd_opened /\ q.wr_opened = o.wr_opened
        /\ \A j \in 1..n : q.p[(o.write_pos + j - 1) % Size] = buf[t][j]
        /\ \A i \in 0..(Size - 1) :
             (\A j \in 1..n : (o.write_pos + j - 1) % Size # i) => q.p[i] = o.p[i]
        /\ bq' = [bq EXCEPT ![At(t)] = q]
        /\ buf' = [buf EXCEPT ![t] = SubSeq(buf[t], 1, n)]
        /\ Len(SubSeq(buf[t], 1, n)) = n
        /\ \A j \in 1..n : SubSeq(buf[t], 1, n)[j] = buf[t][j]
  BY CopiedIn
<1>3. At(t) \in Slot /\ o = bq[At(t)] /\ o \in ByteQueue /\ TaskOK(t) /\ ~Reading(t) /\ pc[t] \in Critical
  BY <1>1, Descriptors DEF PipeInv, Typed, At, CallOK, TaskOK, Queue, Critical
<1>4. /\ o.nbytes = o.write_pos - o.read_pos /\ o.nbytes \in 0..Size
      /\ o.read_pos \in Nat /\ o.write_pos \in Nat
  BY <1>2, <1>3 DEF PipeInv, NeverOverfull, ByteQueue
<1>5. bq'[At(t)] = q /\ \A s \in Slot : s # At(t) => bq'[s] = bq[s]
  BY <1>2, <1>3 DEF PipeInv, Typed
<1> HIDE DEF o
<1>6. \A i \in 1..o.nbytes : q.p[(o.read_pos + i - 1) % Size] = o.p[(o.read_pos + i - 1) % Size]
  <2> SUFFICES ASSUME NEW i \in 1..o.nbytes
               PROVE  q.p[(o.read_pos + i - 1) % Size] = o.p[(o.read_pos + i - 1) % Size]
    OBVIOUS
  <2>1. ASSUME NEW j \in 1..n PROVE (o.write_pos + j - 1) % Size # (o.read_pos + i - 1) % Size
    <3> DEFINE k == o.nbytes + j
    <3>0. n <= Size - o.nbytes
      BY <1>2
    <3>1. k \in 1..Size /\ i \in 1..Size /\ i # k /\ o.write_pos + j - 1 = o.read_pos + k - 1
      BY <1>4, <3>0
    <3> HIDE DEF k
    <3> QED
      BY <1>4, <3>1, SameCell
  <2>2. o.read_pos + i - 1 \in Int
    BY <1>4
  <2>3. (o.read_pos + i - 1) % Size \in 0..(Size - 1)
    BY <2>2, CellInside
  <2> QED
    BY <1>2, <2>1, <2>3
<1>7. Content(q) = Content(o)
  <2>1. /\ Content(q) = [i \in 1..o.nbytes |-> q.p[(o.read_pos + i - 1) % Size]]
        /\ Content(o) = [i \in 1..o.nbytes |-> o.p[(o.read_pos + i - 1) % Size]]
    BY <1>2, <1>4 DEF Content, Cell
  <2> QED
    BY <1>6, <2>1
<1>8. Pipes' = Pipes /\ Queues' = Queues
  <2>1. \A s \in Slot : Content(bq'[s]) = Content(bq[s]) /\ (Opened(bq'[s]) <=> Opened(bq[s]))
    BY <1>2, <1>3, <1>5, <1>7 DEF Opened
  <2> QED
    BY <2>1 DEF Pipes, Queues
<1>9. Copied(t)'
  <2>1. Reading(t)' = Reading(t) /\ Queue(t)' = q /\ From(t)' = q.write_pos
    BY <1>1, <1>3, <1>5 DEF Reading, Queue, At, From
  <2>2. Len(buf'[t]) = n /\ \A j \in 1..n : buf'[t][j] = buf[t][j]
    BY <1>2 DEF PipeInv, Typed
  <2>3. \A j \in 1..Len(buf'[t]) : buf'[t][j] = Queue(t)'.p[Cell(Queue(t)', From(t)' + j - 1)]
    BY <1>2, <2>1, <2>2 DEF Cell
  <2> QED
    BY <2>3 DEF Copied
<1>10. ASSUME NEW u \in Task, u # t, pc'[u] = "advance" PROVE Copied(u)'
  <2>1. pc[u] = "advance" /\ fd'[u] = fd[u] /\ buf'[u] = buf[u]
    BY <1>1, <1>2, <1>10 DEF PipeInv, Typed
  <2>2. At(u) # At(t) /\ At(u) \in Slot
    BY <1>3, <1>10, <2>1, ApartFrom
  <2>3. Alike(bq[At(u)], bq'[At(u)])
    BY <1>5, <2>2 DEF Alike
  <2> QED
    BY <1>10, <2>1, <2>3, StaysCopied
<1>11. CopiedOK'
  BY <1>9, <1>10 DEF CopiedOK, Copied
<1> QED
  BY <1>1, <1>8, <1>11

\* A reader that has advanced by k has left the bytes behind the first k.
LEMMA TakeContent ==
  ASSUME NEW o \in ByteQueue, NEW q \in ByteQueue, NEW k \in Nat, NEW data \in Seq(Byte),
         o.p # Null, o.maxcount = Size, o.write_pos - o.read_pos \in 0..Size,
         k <= o.write_pos - o.read_pos, Len(data) = k,
         \A j \in 1..k : data[j] = o.p[(o.read_pos + j - 1) % Size],
         q.p = o.p, q.maxcount = o.maxcount, q.write_pos = o.write_pos, q.read_pos = o.read_pos + k
  PROVE  /\ data = SubSeq(Content(o), 1, k)
         /\ Content(q) = SubSeq(Content(o), k + 1, Len(Content(o)))
<1> DEFINE n == o.write_pos - o.read_pos
           c == Content(o)
           d == Content(q)
<1>1. o.read_pos \in Nat /\ o.write_pos \in Nat /\ n \in Nat /\ k <= n
  BY DEF ByteQueue
<1>2. c \in Seq(Byte) /\ Len(c) = n /\ \A i \in 1..n : c[i] = o.p[(o.read_pos + i - 1) % Size]
  BY ContentType
<1>3. q.write_pos - q.read_pos = n - k /\ n - k \in 0..Size
  BY <1>1
<1>4. d \in Seq(Byte) /\ Len(d) = n - k /\ \A i \in 1..(n - k) : d[i] = o.p[(o.read_pos + k + i - 1) % Size]
  <2>1. /\ d \in Seq(Byte) /\ Len(d) = q.write_pos - q.read_pos
        /\ \A i \in 1..(q.write_pos - q.read_pos) : d[i] = q.p[(q.read_pos + i - 1) % Size]
    BY <1>3, ContentType
  <2> HIDE DEF d, n
  <2> QED
    BY <1>3, <2>1
<1> HIDE DEF n, c, d
<1>5. data = SubSeq(c, 1, k)
  <2>1. /\ SubSeq(c, 1, k) \in Seq(Byte) /\ Len(SubSeq(c, 1, k)) = k
        /\ \A i \in 1..k : SubSeq(c, 1, k)[i] = c[i]
    BY <1>1, <1>2
  <2>2. \A i \in 1..k : data[i] = c[i]
    <3> SUFFICES ASSUME NEW i \in 1..k PROVE data[i] = c[i]
      OBVIOUS
    <3>1. i \in 1..n
      BY <1>1
    <3>2. c[i] = o.p[(o.read_pos + i - 1) % Size]
      BY <1>2, <3>1
    <3> QED
      BY <3>2
  <2> HIDE DEF c
  <2> QED
    BY <2>1, <2>2, SeqEqual
<1>6. d = SubSeq(c, k + 1, n)
  <2>1. /\ SubSeq(c, k + 1, n) \in Seq(Byte) /\ Len(SubSeq(c, k + 1, n)) = n - k
        /\ \A i \in 1..(n - k) : SubSeq(c, k + 1, n)[i] = c[k + i]
    <3>1. k + 1 \in Int /\ n \in Int /\ \A i \in (k + 1)..n : c[i] \in Byte
      BY <1>1, <1>2
    <3>2. /\ SubSeq(c, k + 1, n) \in Seq(Byte)
          /\ Len(SubSeq(c, k + 1, n)) = IF k + 1 <= n THEN n - (k + 1) + 1 ELSE 0
          /\ \A i \in 1..(n - (k + 1) + 1) : SubSeq(c, k + 1, n)[i] = c[k + 1 + i - 1]
      BY <3>1, SubSeqProperties
    <3> DEFINE z == SubSeq(c, k + 1, n)
    <3> HIDE DEF z
    <3>3. /\ z \in Seq(Byte) /\ Len(z) = IF k + 1 <= n THEN n - (k + 1) + 1 ELSE 0
          /\ \A i \in 1..(n - (k + 1) + 1) : z[i] = c[k + 1 + i - 1]
      BY <3>2 DEF z
    <3>4. Len(z) = n - k /\ \A i \in 1..(n - k) : z[i] = c[k + i]
      BY <1>1, <3>3
    <3> QED
      BY <3>3, <3>4 DEF z
  <2>2. \A i \in 1..(n - k) : c[k + i] = o.p[(o.read_pos + k + i - 1) % Size]
    <3> SUFFICES ASSUME NEW i \in 1..(n - k) PROVE c[k + i] = o.p[(o.read_pos + k + i - 1) % Size]
      OBVIOUS
    <3>1. k + i \in 1..n /\ o.read_pos + (k + i) - 1 = o.read_pos + k + i - 1
      BY <1>1
    <3>2. c[k + i] = o.p[(o.read_pos + (k + i) - 1) % Size]
      BY <1>2, <3>1
    <3> QED
      BY <3>1, <3>2
  <2> DEFINE z == SubSeq(c, k + 1, n)
  <2>3. z \in Seq(Byte) /\ Len(z) = Len(d) /\ \A i \in 1..(n - k) : z[i] = d[i]
    BY <1>4, <2>1, <2>2
  <2> HIDE DEF z
  <2> QED
    BY <1>4, <2>3, SeqEqual DEF z
<1> QED
  BY <1>2, <1>5, <1>6 DEF c, d

\* A writer that has advanced has put what it has copied behind the others.
LEMMA PutContent ==
  ASSUME NEW o \in ByteQueue, NEW q \in ByteQueue, NEW k \in Nat, NEW data \in Seq(Byte),
         o.p # Null, o.maxcount = Size, o.write_pos - o.read_pos \in 0..Size,
         k <= Size - (o.write_pos - o.read_pos), Len(data) = k,
         \A j \in 1..k : data[j] = o.p[(o.write_pos + j - 1) % Size],
         q.p = o.p, q.maxcount = o.maxcount, q.read_pos = o.read_pos, q.write_pos = o.write_pos + k
  PROVE  Content(q) = Content(o) \o data
<1> DEFINE n == o.write_pos - o.read_pos
           c == Content(o)
           d == Content(q)
<1>1. o.read_pos \in Nat /\ o.write_pos \in Nat /\ n \in Nat /\ o.write_pos = o.read_pos + n
  BY DEF ByteQueue
<1>2. c \in Seq(Byte) /\ Len(c) = n /\ \A i \in 1..n : c[i] = o.p[(o.read_pos + i - 1) % Size]
  BY ContentType
<1>3. q.write_pos - q.read_pos = n + k /\ n + k \in 0..Size
  BY <1>1
<1>4. d \in Seq(Byte) /\ Len(d) = n + k /\ \A i \in 1..(n + k) : d[i] = o.p[(o.read_pos + i - 1) % Size]
  <2>1. /\ d \in Seq(Byte) /\ Len(d) = q.write_pos - q.read_pos
        /\ \A i \in 1..(q.write_pos - q.read_pos) : d[i] = q.p[(q.read_pos + i - 1) % Size]
    BY <1>3, ContentType
  <2> HIDE DEF d, n
  <2> QED
    BY <1>3, <2>1
<1> HIDE DEF n, c, d
<1>5. /\ c \o data \in Seq(Byte) /\ Len(c \o data) = n + k
      /\ \A i \in 1..(n + k) : (c \o data)[i] = IF i <= n THEN c[i] ELSE data[i - n]
  BY <1>1, <1>2, ConcatProperties
<1>6. \A i \in 1..(n + k) : (c \o data)[i] = d[i]
  <2> SUFFICES ASSUME NEW i \in 1..(n + k) PROVE (c \o data)[i] = d[i]
    OBVIOUS
  <2>1. CASE i <= n
    <3>1. i \in 1..n
      BY <1>1, <2>1
    <3> QED
      BY <1>2, <1>4, <1>5, <2>1, <3>1
  <2>2. CASE ~(i <= n)
    <3>1. i - n \in 1..k /\ o.write_pos + (i - n) - 1 = o.read_pos + i - 1
      BY <1>1, <2>2
    <3>2. data[i - n] = o.p[(o.write_pos + (i - n) - 1) % Size]
      BY <3>1
    <3> QED
      BY <1>4, <1>5, <2>2, <3>1, <3>2
  <2> QED
    BY <2>1, <2>2
<1>7. d = c \o data
  BY <1>4, <1>5, <1>6, SeqEqual
<1> QED
  BY <1>7 DEF c, d

LEMMA AdvanceSeen ==
  ASSUME PipeInv, CopiedOK, NEW t \in Task, Advance(t)
  PROVE  /\ CopiedOK'
         /\ \E s \in Slot : \/ \E data \in F!BoundedSeq(Byte, Size + 1) : F!Put(s, data)
                            \/ \E n \in 0..Size : F!Take(s, n)
<1> DEFINE o == Queue(t)
           k == Len(buf[t])
<1>1. /\ pc[t] = "advance" /\ pc' = [pc EXCEPT ![t] = "sem_post"]
      /\ got' = (IF Reading(t) THEN buf[t] ELSE got) /\ UNCHANGED <<fg, fd, count, buf>>
  BY DEF Advance, Step
<1>2. PICK q \in ByteQueue :
        /\ q.p = o.p /\ q.maxcount = o.maxcount
        /\ q.read_pos = IF Reading(t) THEN o.read_pos + k ELSE o.read_pos
        /\ q.write_pos = IF Reading(t) THEN o.write_pos ELSE o.write_pos + k
        /\ q.rd_opened = o.rd_opened /\ q.wr_opened = o.wr_opened
        /\ bq' = [bq EXCEPT ![At(t)] = q]
  BY Advanced
<1>3. PICK s \in Slot : s = At(t)
  BY Descriptors DEF PipeInv, Typed, At
<1>4. o = bq[s] /\ o \in ByteQueue /\ TaskOK(t) /\ Fits(t) /\ Copied(t) /\ pc[t] \in Critical
      /\ buf[t] \in Seq(Byte) /\ k \in Nat
  BY <1>1, <1>3 DEF PipeInv, Typed, CallOK, TaskOK, AdvanceOK, CopiedOK, Queue, Critical
<1>5. Opened(o) /\ o.p # Null /\ o.maxcount = Size
  BY <1>1, <1>4 DEF PipeInv, OpenOK, TaskOK, Opened
<1>6. o.nbytes = o.write_pos - o.read_pos /\ o.nbytes \in 0..Size
  BY <1>4, <1>5 DEF PipeInv, NeverOverfull
<1>7. bq'[s] = q /\ \A r \in Slot : r # s => bq'[r] = bq[r]
  BY <1>2, <1>3 DEF PipeInv, Typed
<1>8. \A j \in 1..k : buf[t][j] = o.p[(From(t) + j - 1) % Size]
  BY <1>1, <1>4, <1>5 DEF Copied, Cell
<1>9. k <= IF Reading(t) THEN o.nbytes ELSE Size - o.nbytes
  BY <1>1, <1>4, <1>5 DEF Fits
<1>10. CopiedOK'
  <2>1. ASSUME NEW u \in Task, pc'[u] = "advance" PROVE Copied(u)'
    <3>1. u # t /\ pc[u] = "advance" /\ fd'[u] = fd[u] /\ buf'[u] = buf[u]
      BY <1>1, <2>1 DEF PipeInv, Typed
    <3>2. At(u) # s /\ At(u) \in Slot
      BY <1>3, <1>4, <3>1, ApartFrom
    <3>3. Alike(bq[At(u)], bq'[At(u)])
      BY <1>7, <3>2 DEF Alike
    <3> QED
      BY <2>1, <3>1, <3>3, StaysCopied
  <2> QED
    BY <2>1 DEF CopiedOK, Copied
<1>11. Pipes' = Pipes /\ s \in Pipes
  <2>1. \A r \in Slot : Opened(bq'[r]) <=> Opened(bq[r])
    BY <1>2, <1>4, <1>7 DEF Opened
  <2> QED
    BY <1>4, <1>5, <2>1 DEF Pipes
<1>12. Queues[s] = Content(o) /\ Queues' = [Queues EXCEPT ![s] = Content(q)]
  BY <1>4, <1>7 DEF Queues
<1>13. Content(o) \in Seq(Byte) /\ Len(Content(o)) = o.nbytes
  BY <1>4, <1>5, <1>6, ContentType
<1> HIDE DEF o
<1>14. CASE Reading(t)
  <2>1. From(t) = o.read_pos /\ got' = buf[t] /\ k <= o.nbytes
    BY <1>1, <1>9, <1>14 DEF From, o
  <2>2. /\ buf[t] = SubSeq(Content(o), 1, k)
        /\ Content(q) = SubSeq(Content(o), k + 1, Len(Content(o)))
    <3>1. q.p = o.p /\ q.maxcount = o.maxcount /\ q.write_pos = o.write_pos /\ q.read_pos = o.read_pos + k
      BY <1>2, <1>14
    <3>2. \A j \in 1..k : buf[t][j] = o.p[(o.read_pos + j - 1) % Size]
      BY <1>8, <2>1
    <3>3. o.write_pos - o.read_pos \in 0..Size /\ k <= o.write_pos - o.read_pos
      BY <1>6, <2>1
    <3> QED
      BY <1>4, <1>5, <3>1, <3>2, <3>3, TakeContent
  <2>3. PICK n \in 0..Size : n = k
    BY <1>4, <1>6, <2>1
  <2>4. F!Least(n, Len(Queues[s])) = n
    BY <1>12, <1>13, <2>1, <2>3 DEF F!Least
  <2>5. F!Take(s, n)
    BY <1>11, <1>12, <2>1, <2>2, <2>3, <2>4 DEF F!Take, Pipes, Queues
  <2> QED
    BY <1>10, <2>5
<1>15. CASE ~Reading(t)
  <2>1. From(t) = o.write_pos /\ got' = got /\ k <= Size - o.nbytes
    BY <1>1, <1>9, <1>15 DEF From, o
  <2>2. Content(q) = Content(o) \o buf[t]
    <3>1. q.p = o.p /\ q.maxcount = o.maxcount /\ q.read_pos = o.read_pos /\ q.write_pos = o.write_pos + k
      BY <1>2, <1>15
    <3>2. \A j \in 1..k : buf[t][j] = o.p[(o.write_pos + j - 1) % Size]
      BY <1>8, <2>1
    <3>3. o.write_pos - o.read_pos \in 0..Size /\ k <= Size - (o.write_pos - o.read_pos)
      BY <1>6, <2>1
    <3> QED
      BY <1>4, <1>5, <3>1, <3>2, <3>3, PutContent
  <2>3. PICK data \in F!BoundedSeq(Byte, Size + 1) : data = buf[t]
    <3>1. k \in 0..(Size + 1) /\ buf[t] \in [1..k -> Byte]
      BY <1>4, <1>6, <2>1
    <3> HIDE DEF k
    <3> QED
      BY <3>1 DEF F!BoundedSeq, F!SeqOf
  <2>4. F!Least(Len(data), Size - Len(Queues[s])) = k
    BY <1>4, <1>6, <1>12, <1>13, <2>1, <2>3 DEF F!Least
  <2>5. SubSeq(data, 1, k) = data
    BY <1>4, <2>3, SubSeqFull
  <2>6. F!Put(s, data)
    BY <1>11, <1>12, <2>1, <2>2, <2>3, <2>4, <2>5 DEF F!Put, Pipes, Queues
  <2> QED
    BY <1>10, <2>6
<1> QED
  BY <1>14, <1>15

----------------------------------------------------------------------------
(* The theorem *)

LEMMA FifoInit == Init => F!Init
<1> SUFFICES ASSUME Init PROVE F!Init
  OBVIOUS
<1>1. ~Opened(ZeroQueue) /\ Content(ZeroQueue) = <<>>
  BY DEF ZeroQueue, Opened, Content
<1> QED
  BY <1>1 DEF Init, F!Init

LEMMA FifoStep ==
  PipeInv /\ CopiedOK /\ [Next]_vars => CopiedOK' /\ [F!Next]_<<Pipes, Queues, got>>
<1> SUFFICES ASSUME PipeInv, CopiedOK, [Next]_vars
             PROVE  CopiedOK' /\ [F!Next]_<<Pipes, Queues, got>>
  OBVIOUS
<1>1. (\E s \in Slot : F!Open(s) \/ F!Shut(s)) => F!Next
  BY DEF F!Next
<1>2. CASE Create
  BY <1>1, <1>2, CreateSeen
<1>3. CASE Deinit
  BY <1>1, <1>3, DeinitSeen
<1>4. CASE \E d \in Fd : Close(d)
  BY <1>1, <1>4, CloseSeen
<1>5. CASE Select \/ UNCHANGED vars
  <2>1. UNCHANGED <<bq, pc, fd, buf, got>>
    BY <1>5 DEF Select, vars
  <2>2. \A s \in Slot : Alike(bq[s], bq'[s])
    BY <2>1 DEF Alike
  <2> QED
    BY <2>1, <2>2, Unseen
<1>6. ASSUME NEW t \in Task, Call(t) PROVE CopiedOK' /\ [F!Next]_<<Pipes, Queues, got>>
  <2>1. CASE Advance(t)
    <3>1. CopiedOK' /\ \E s \in Slot : \/ \E data \in F!BoundedSeq(Byte, Size + 1) : F!Put(s, data)
                                       \/ \E n \in 0..Size : F!Take(s, n)
      BY <2>1, AdvanceSeen
    <3>2. PICK s \in Slot : \/ \E data \in F!BoundedSeq(Byte, Size + 1) : F!Put(s, data)
                            \/ \E n \in 0..Size : F!Take(s, n)
      BY <3>1
    <3>3. CASE \E data \in F!BoundedSeq(Byte, Size + 1) : F!Put(s, data)
      <4>1. PICK data \in F!BoundedSeq(Byte, Size + 1) : F!Put(s, data)
        BY <3>3
      <4>2. F!Next
        BY <4>1 DEF F!Next
      <4> QED
        BY <3>1, <4>2
    <3>4. CASE \E n \in 0..Size : F!Take(s, n)
      <4>1. PICK n \in 0..Size : F!Take(s, n)
        BY <3>4
      <4>2. F!Next
        BY <4>1 DEF F!Next
      <4> QED
        BY <3>1, <4>2
    <3> QED
      BY <3>2, <3>3, <3>4
  <2>2. CASE ~Advance(t)
    BY <1>6, <2>2, QuietSeen, CopyOutSeen, CopyInSeen DEF Call
  <2> QED
    BY <2>1, <2>2
<1> QED
  BY <1>2, <1>3, <1>4, <1>5, <1>6 DEF Next

\* To its clients a pipe is a queue of bytes: however the copy loops of several
\* readers and writers interleave and wherever the ring wraps around, every byte
\* is read once, in the order in which the bytes were written.
THEOREM PipeIsFifo == Spec => ImplementsFifo
<1>1. PipeInv /\ [Next]_vars => PipeInv'
  BY PipeInvNext
<1>2. Init => PipeInv
  BY PipeInvInit
<1>3. Init => F!Init /\ CopiedOK
  BY FifoInit, CopiedInit
<1>4. PipeInv /\ CopiedOK /\ [Next]_vars => CopiedOK' /\ [F!Next]_(F!fifo)
  BY FifoStep DEF F!fifo, Pipes, Queues
<1> QED
  BY <1>1, <1>2, <1>3, <1>4, PTL DEF Spec, ImplementsFifo, F!Spec
=============================================================================
