----------------------------- MODULE SemProofs -----------------------------
(***************************************************************************)
(* The invariants of module Sem, for any tasks, semaphores and loops of    *)
(* calls on them.                                                          *)
(***************************************************************************)
EXTENDS Sem, SchedProofs

USE TaskAssumption, ProgramAssumption

\* How many tasks a count says are waiting.
Waiters(c) == IF c < 0 THEN -c ELSE 0

\* sem_wait counts its task before it queues it, and sem_post discounts a task
\* before it takes it off the queue.
Allowed(l, c) ==
  CASE l \in {"kmalloc", "get_current", "test_sleep", "mark", "enqueue"} -> Waiters(c) - 1
    [] l \in {"wake_up", "remove_head"} -> Waiters(c) + 1
    [] OTHER -> Waiters(c)

\* sleep_on_queue has read current before it uses it.
MeKnown == \A p \in Client : pc[p] \in {"test_sleep", "mark", "enqueue"} => me[p] \in Task

WithinAllowed ==
  /\ \A s \in Sems : ~mutex[s] => Len(wq[s]) <= Waiters(count[s])
  /\ \A p \in Client : pc[p] # "call" => Len(wq[Sm(p)]) <= Allowed(pc[p], count[Sm(p)])

SemInv == TypeOK /\ SemTypeOK /\ MeKnown /\ MutexHeld /\ WithinAllowed

----------------------------------------------------------------------------
LEMMA LoopTyped ==
  ASSUME SemTypeOK, NEW p \in Client
  PROVE  Sm(p) \in Sems /\ Call(p) \in {"wait", "post"} /\ at[p] \in 1 .. Len(Program[p])
<1>1. Program[p] \in Seq({"wait", "post"} \X Sems)
  BY DEF Client
<1>2. at[p] \in 1 .. Len(Program[p])
  BY <1>1 DEF SemTypeOK
<1>3. Program[p][at[p]] \in {"wait", "post"} \X Sems
  BY <1>1, <1>2
<1> QED
  BY <1>2, <1>3 DEF Sm, Call

LEMMA SemInvInit == SemInitState => SemInv
<1> SUFFICES ASSUME SemInitState PROVE SemInv
  OBVIOUS
<1>1. TypeOK
  BY InitInv DEF SemInitState, SchedInv
<1>2. \A p \in Client : at[p] \in DOMAIN Program[p]
  <2> SUFFICES ASSUME NEW p \in Client PROVE 1 \in DOMAIN Program[p]
    BY DEF SemInitState
  <2>1. Program[p] \in Seq({"wait", "post"} \X Sems) /\ Program[p] # <<>>
    BY DEF Client
  <2> QED
    BY <2>1
<1>3. SemTypeOK
  <2>1. count \in [Sems -> Int]
    BY DEF SemInitState
  <2>2. wq \in [Sems -> Seq(Task)]
    BY DEF SemInitState
  <2> QED
    BY <1>2, <2>1, <2>2 DEF SemInitState, SemTypeOK, Labels
<1>4. MutexHeld /\ MeKnown
  BY DEF SemInitState, MutexHeld, MeKnown, Inside
<1>5. WithinAllowed
  BY DEF SemInitState, WithinAllowed, Waiters
<1> QED
  BY <1>1, <1>3, <1>4, <1>5 DEF SemInv

\* A step of a task inside a semaphore, or entering it, that leaves the other
\* semaphores and tasks alone.
LEMMA InsideStep ==
  ASSUME SemInv, NEW p \in Client, NEW s \in Sems, s = Sm(p),
         pc[p] # "call" \/ ~mutex[s],
         TypeOK', SemTypeOK',
         \A q \in Client : q # p => pc'[q] = pc[q] /\ at'[q] = at[q] /\ me'[q] = me[q],
         pc'[p] # "call" => at'[p] = at[p],
         \A r \in Sems : r # s => mutex'[r] = mutex[r] /\ count'[r] = count[r] /\ wq'[r] = wq[r],
         mutex'[s] <=> pc'[p] # "call",
         pc'[p] \in {"test_sleep", "mark", "enqueue"} => me'[p] \in Task,
         Len(wq'[s]) <= Allowed(pc'[p], count'[s])
  PROVE  SemInv'
<1>1. \A q \in Client : Sm(q) \in Sems
  BY LoopTyped DEF SemInv
<1>2. \A q \in Client : q # p => Program[q][at'[q]][2] = Sm(q) /\ pc'[q] = pc[q]
  BY DEF Sm
<1>3. pc'[p] # "call" => Program[p][at'[p]][2] = s
  BY DEF Sm
<1>4. \A q \in Client : q # p /\ pc[q] # "call" => Sm(q) # s
  <2> SUFFICES ASSUME NEW q \in Client, q # p, pc[q] # "call", Sm(q) = s PROVE FALSE
    OBVIOUS
  <2>1. /\ mutex[s] <=> \E u \in Client : pc[u] # "call" /\ Sm(u) = s
        /\ pc[p] # "call" /\ Sm(p) = s /\ pc[q] # "call" /\ Sm(q) = s => p = q
    BY DEF SemInv, MutexHeld, Inside
  <2> QED
    BY <2>1
<1>5. MutexHeld'
  <2> SUFFICES ASSUME NEW r \in Sems
               PROVE  /\ mutex'[r] <=> \E q \in Client : pc'[q] # "call" /\ Program[q][at'[q]][2] = r
                      /\ \A q, u \in Client : /\ pc'[q] # "call" /\ Program[q][at'[q]][2] = r
                                              /\ pc'[u] # "call" /\ Program[u][at'[u]][2] = r
                                              => q = u
    BY DEF MutexHeld, Inside, Sm
  <2>1. CASE r = s
    <3>1. \A q \in Client : pc'[q] # "call" /\ Program[q][at'[q]][2] = s => q = p
      BY <1>2, <1>4
    <3>2. mutex'[s] <=> pc'[p] # "call"
      OBVIOUS
    <3> QED
      BY <1>3, <2>1, <3>1, <3>2
  <2>2. CASE r # s
    <3>1. \A q \in Client : (pc'[q] # "call" /\ Program[q][at'[q]][2] = r) <=> (pc[q] # "call" /\ Sm(q) = r)
      BY <1>2, <1>3, <2>2
    <3>2. /\ mutex[r] <=> \E q \in Client : pc[q] # "call" /\ Sm(q) = r
          /\ \A q, u \in Client : pc[q] # "call" /\ Sm(q) = r /\ pc[u] # "call" /\ Sm(u) = r => q = u
      BY DEF SemInv, MutexHeld, Inside
    <3> QED
      BY <2>2, <3>1, <3>2
  <2> QED
    BY <2>1, <2>2
<1>6. MeKnown'
  BY <1>2 DEF SemInv, MeKnown
<1>7. WithinAllowed'
  <2>1. ASSUME NEW r \in Sems, ~mutex'[r] PROVE Len(wq'[r]) <= Waiters(count'[r])
    <3>1. CASE r = s
      BY <2>1, <3>1 DEF Allowed
    <3>2. CASE r # s
      BY <2>1, <3>2 DEF SemInv, WithinAllowed
    <3> QED
      BY <3>1, <3>2
  <2>2. ASSUME NEW q \in Client, pc'[q] # "call"
        PROVE  Len(wq'[Program[q][at'[q]][2]]) <= Allowed(pc'[q], count'[Program[q][at'[q]][2]])
    <3>1. CASE q = p
      BY <1>3, <2>2, <3>1
    <3>2. CASE q # p
      <4>1. Sm(q) # s /\ Program[q][at'[q]][2] = Sm(q) /\ pc'[q] = pc[q] /\ Sm(q) \in Sems
        BY <1>1, <1>2, <1>4, <2>2, <3>2
      <4>2. Len(wq[Sm(q)]) <= Allowed(pc[q], count[Sm(q)])
        BY <2>2, <4>1 DEF SemInv, WithinAllowed
      <4> QED
        BY <4>1, <4>2
    <3> QED
      BY <3>1, <3>2
  <2> QED
    BY <2>1, <2>2 DEF WithinAllowed, Sm
<1> QED
  BY <1>5, <1>6, <1>7 DEF SemInv

\* What the label of a task says about its semaphore.
LEMMA InsideFacts ==
  ASSUME SemInv, NEW p \in Client
  PROVE  /\ Sm(p) \in Sems
         /\ count[Sm(p)] \in Int /\ wq[Sm(p)] \in Seq(Task) /\ Len(wq[Sm(p)]) \in Nat
         /\ pc[p] # "call" => mutex[Sm(p)] /\ Len(wq[Sm(p)]) <= Allowed(pc[p], count[Sm(p)])
         /\ pc[p] = "call" /\ ~mutex[Sm(p)] => Len(wq[Sm(p)]) <= Waiters(count[Sm(p)])
<1>1. Sm(p) \in Sems
  BY LoopTyped DEF SemInv
<1> QED
  BY <1>1 DEF SemInv, SemTypeOK, MutexHeld, Inside, WithinAllowed

\* A step of a task inside that touches neither the semaphore nor its loop.
LEMMA QuietStep ==
  ASSUME SemInv, NEW p \in Client, NEW m \in Labels, pc[p] # "call", m # "call",
         pc' = [pc EXCEPT ![p] = m], TypeOK', UNCHANGED <<mutex, count, wq, at>>,
         me' \in [Client -> Task \union {None}], pick' \in [Client -> Task \union {None}], halted' \in BOOLEAN,
         \A q \in Client : q # p => me'[q] = me[q],
         m \in {"test_sleep", "mark", "enqueue"} => me'[p] \in Task,
         Allowed(m, count[Sm(p)]) >= Allowed(pc[p], count[Sm(p)])
  PROVE  SemInv'
<1>1. SemTypeOK'
  BY DEF SemInv, SemTypeOK
<1>2. pc'[p] = m /\ \A q \in Client : q # p => pc'[q] = pc[q]
  BY DEF SemInv, SemTypeOK
<1>3. Sm(p) \in Sems /\ mutex[Sm(p)] /\ Len(wq[Sm(p)]) <= Allowed(pc[p], count[Sm(p)]) /\ count[Sm(p)] \in Int
      /\ Len(wq[Sm(p)]) \in Nat
  BY InsideFacts
<1>4. Allowed(m, count[Sm(p)]) \in Int /\ Allowed(pc[p], count[Sm(p)]) \in Int
  BY <1>3 DEF Allowed, Waiters
<1>5. Len(wq'[Sm(p)]) <= Allowed(pc'[p], count'[Sm(p)])
  BY <1>2, <1>3, <1>4
<1> QED
  BY <1>1, <1>2, <1>3, <1>5, InsideStep

----------------------------------------------------------------------------
(* The steps of a call *)

LEMMA MutexLockStep == ASSUME SemInv, NEW p \in Client, MutexLock(p) PROVE SemInv'
<1> DEFINE s == Sm(p)
           m == IF Call(p) = "wait" THEN "decrement" ELSE "increment"
<1>1. /\ pc[p] = "call" /\ pc' = [pc EXCEPT ![p] = m] /\ ~mutex[s] /\ mutex' = [mutex EXCEPT ![s] = TRUE]
      /\ UNCHANGED <<vars, count, wq, at, me, pick, halted>>
  BY DEF MutexLock, MutexFree, Step
<1>2. /\ s \in Sems /\ count[s] \in Int /\ Len(wq[s]) \in Nat /\ Len(wq[s]) <= Waiters(count[s])
  BY <1>1, InsideFacts
<1>3. m \in Labels /\ m # "call" /\ m \notin {"test_sleep", "mark", "enqueue"} /\ Allowed(m, count[s]) = Waiters(count[s])
  BY DEF Labels, Allowed
<1>s. s = Sm(p)
  OBVIOUS
<1> HIDE DEF s, m
<1>4. pc'[p] = m /\ \A q \in Client : q # p => pc'[q] = pc[q] /\ at'[q] = at[q] /\ me'[q] = me[q]
  BY <1>1 DEF SemInv, SemTypeOK
<1>5. SemTypeOK' /\ TypeOK'
  BY <1>1, <1>2, <1>3 DEF SemInv, SemTypeOK, TypeOK, vars
<1>6. mutex'[s] /\ \A r \in Sems : r # s => mutex'[r] = mutex[r] /\ count'[r] = count[r] /\ wq'[r] = wq[r]
  BY <1>1, <1>2 DEF SemInv, SemTypeOK
<1>7. Len(wq'[s]) <= Allowed(pc'[p], count'[s])
  BY <1>1, <1>2, <1>3, <1>4
<1> QED
  BY <1>1, <1>2, <1>3, <1>4, <1>5, <1>6, <1>7, <1>s, InsideStep

LEMMA MutexUnlockStep == ASSUME SemInv, NEW p \in Client, MutexUnlock(p) PROVE SemInv'
<1> DEFINE s == Sm(p)
           n == (at[p] % Len(Program[p])) + 1
<1>1. /\ pc[p] = "unlock" /\ pc' = [pc EXCEPT ![p] = "call"] /\ mutex' = [mutex EXCEPT ![s] = FALSE]
      /\ at' = [at EXCEPT ![p] = n] /\ UNCHANGED <<vars, count, wq, me, pick, halted>>
  BY DEF MutexUnlock, Step
<1>2. /\ s \in Sems /\ count[s] \in Int /\ Len(wq[s]) \in Nat /\ Len(wq[s]) <= Waiters(count[s])
  BY <1>1, InsideFacts DEF Allowed
<1>3. n \in DOMAIN Program[p]
  <2>1. Program[p] \in Seq({"wait", "post"} \X Sems) /\ at[p] \in 1 .. Len(Program[p])
    BY LoopTyped DEF SemInv, Client
  <2> QED
    BY <2>1
<1>s. s = Sm(p)
  OBVIOUS
<1> HIDE DEF s, n
<1>4. pc'[p] = "call" /\ \A q \in Client : q # p => pc'[q] = pc[q] /\ at'[q] = at[q] /\ me'[q] = me[q]
  BY <1>1 DEF SemInv, SemTypeOK
<1>5. SemTypeOK' /\ TypeOK'
  <2>1. \A q \in Client : at'[q] \in DOMAIN Program[q]
    BY <1>1, <1>3 DEF SemInv, SemTypeOK
  <2>2. at' \in [Client -> Nat]
    <3>1. Program[p] \in Seq({"wait", "post"} \X Sems)
      BY DEF Client
    <3>2. n \in Nat
      BY <1>3, <3>1
    <3> QED
      BY <1>1, <3>2 DEF SemInv, SemTypeOK
  <2> QED
    BY <1>1, <1>2, <2>1, <2>2 DEF SemInv, SemTypeOK, TypeOK, vars, Labels
<1>6. ~mutex'[s] /\ \A r \in Sems : r # s => mutex'[r] = mutex[r] /\ count'[r] = count[r] /\ wq'[r] = wq[r]
  BY <1>1, <1>2 DEF SemInv, SemTypeOK
<1>7. Len(wq'[s]) <= Allowed(pc'[p], count'[s])
  BY <1>1, <1>2, <1>4 DEF Allowed
<1> QED
  BY <1>1, <1>2, <1>4, <1>5, <1>6, <1>7, <1>s, InsideStep

\* A step that changes the count or the queue of the semaphore p is inside.
LEMMA CountStep ==
  ASSUME SemInv, NEW p \in Client, NEW s \in Sems, s = Sm(p), NEW m \in Labels, pc[p] # "call",
         m \notin {"call", "test_sleep", "mark", "enqueue"},
         NEW c \in Int, NEW w \in Seq(Task),
         pc' = [pc EXCEPT ![p] = m], count' = [count EXCEPT ![s] = c], wq' = [wq EXCEPT ![s] = w],
         UNCHANGED <<vars, mutex, at, me, pick, halted>>,
         Len(w) <= Allowed(m, c)
  PROVE  SemInv'
<1>1. SemTypeOK' /\ TypeOK'
  BY DEF SemInv, SemTypeOK, TypeOK, vars
<1>2. pc'[p] = m /\ count'[s] = c /\ wq'[s] = w
  BY DEF SemInv, SemTypeOK
<1>3. \A q \in Client : q # p => pc'[q] = pc[q] /\ at'[q] = at[q] /\ me'[q] = me[q]
  BY DEF SemInv, SemTypeOK
<1>4. \A r \in Sems : r # s => mutex'[r] = mutex[r] /\ count'[r] = count[r] /\ wq'[r] = wq[r]
  BY DEF SemInv, SemTypeOK
<1>5. mutex'[s] <=> pc'[p] # "call"
  BY <1>2, InsideFacts
<1> QED
  BY <1>1, <1>2, <1>3, <1>4, <1>5, InsideStep

LEMMA DecrementStep == ASSUME SemInv, NEW p \in Client, Decrement(p) PROVE SemInv'
<1> DEFINE s == Sm(p)
           c == count[s] - 1
           m == IF MustSleep(c) THEN "kmalloc" ELSE "unlock"
<1>1. /\ pc[p] = "decrement" /\ pc' = [pc EXCEPT ![p] = m] /\ count' = [count EXCEPT ![s] = c]
      /\ UNCHANGED <<vars, mutex, wq, at, me, pick, halted>>
  BY DEF Decrement, Step
<1>2. s \in Sems /\ count[s] \in Int /\ wq[s] \in Seq(Task) /\ Len(wq[s]) \in Nat /\ Len(wq[s]) <= Waiters(count[s])
  BY <1>1, InsideFacts DEF Allowed
<1>3. Len(wq[s]) <= Allowed(m, c) /\ m \in Labels /\ m \notin {"call", "test_sleep", "mark", "enqueue"} /\ c \in Int
  <2> HIDE DEF s
  <2> QED
    BY <1>2 DEF Allowed, Waiters, MustSleep, Labels
<1>4. wq' = [wq EXCEPT ![s] = wq[s]]
  BY <1>1 DEF SemInv, SemTypeOK
<1>s. s = Sm(p)
  OBVIOUS
<1> HIDE DEF s, c, m
<1> QED
  BY <1>1, <1>2, <1>3, <1>4, <1>s, CountStep

LEMMA IncrementStep == ASSUME SemInv, NEW p \in Client, Increment(p) PROVE SemInv'
<1> DEFINE s == Sm(p)
           c == count[s] + 1
           m == IF MustWake(c) THEN "wake_up" ELSE "unlock"
<1>1. /\ pc[p] = "increment" /\ pc' = [pc EXCEPT ![p] = m] /\ count' = [count EXCEPT ![s] = c]
      /\ UNCHANGED <<vars, mutex, wq, at, me, pick, halted>>
  BY DEF Increment, Step
<1>2. s \in Sems /\ count[s] \in Int /\ wq[s] \in Seq(Task) /\ Len(wq[s]) \in Nat /\ Len(wq[s]) <= Waiters(count[s])
  BY <1>1, InsideFacts DEF Allowed
<1>3. Len(wq[s]) <= Allowed(m, c) /\ m \in Labels /\ m \notin {"call", "test_sleep", "mark", "enqueue"} /\ c \in Int
  <2> HIDE DEF s
  <2> QED
    BY <1>2 DEF Allowed, Waiters, MustWake, Labels
<1>4. wq' = [wq EXCEPT ![s] = wq[s]]
  BY <1>1 DEF SemInv, SemTypeOK
<1>s. s = Sm(p)
  OBVIOUS
<1> HIDE DEF s, c, m
<1> QED
  BY <1>1, <1>2, <1>3, <1>4, <1>s, CountStep

LEMMA EnqueueStep == ASSUME SemInv, NEW p \in Client, Enqueue(p) PROVE SemInv'
<1> DEFINE s == Sm(p)
           w == Enqueued(wq[s], me[p])
<1>1. /\ pc[p] = "enqueue" /\ pc' = [pc EXCEPT ![p] = "sleep_on"] /\ wq' = [wq EXCEPT ![s] = w]
      /\ UNCHANGED <<vars, mutex, count, at, me, pick, halted>>
  BY DEF Enqueue, Step
<1>2. s \in Sems /\ count[s] \in Int /\ wq[s] \in Seq(Task) /\ Len(wq[s]) \in Nat
      /\ Len(wq[s]) <= Waiters(count[s]) - 1 /\ me[p] \in Task
  BY <1>1, InsideFacts DEF Allowed, SemInv, MeKnown
<1>3. w \in Seq(Task) /\ Len(w) <= Len(wq[s]) + 1
  <2> HIDE DEF s
  <2> QED
    BY <1>2 DEF Enqueued
<1>4. Len(w) <= Allowed("sleep_on", count[s]) /\ "sleep_on" \in Labels
  <2>1. Allowed("sleep_on", count[s]) = Waiters(count[s]) /\ Waiters(count[s]) \in Int /\ "sleep_on" \in Labels
    BY <1>2 DEF Allowed, Waiters, Labels
  <2> HIDE DEF s, w
  <2> QED
    BY <1>2, <1>3, <2>1
<1>5. count' = [count EXCEPT ![s] = count[s]]
  BY <1>1 DEF SemInv, SemTypeOK
<1>s. s = Sm(p)
  OBVIOUS
<1> HIDE DEF s, w
<1> QED
  BY <1>1, <1>2, <1>3, <1>4, <1>5, <1>s, CountStep

LEMMA RemoveHeadStep == ASSUME SemInv, NEW p \in Client, RemoveHead(p) PROVE SemInv'
<1> DEFINE s == Sm(p)
           w == Removed(wq[s])
<1>1. /\ pc[p] = "remove_head" /\ pc' = [pc EXCEPT ![p] = "unlock"] /\ wq' = [wq EXCEPT ![s] = w]
      /\ UNCHANGED <<vars, mutex, count, at, me, pick, halted>>
  BY DEF RemoveHead, Step
<1>2. s \in Sems /\ count[s] \in Int /\ wq[s] \in Seq(Task) /\ Len(wq[s]) \in Nat
      /\ Len(wq[s]) <= Waiters(count[s]) + 1
  BY <1>1, InsideFacts DEF Allowed
<1>3. w \in Seq(Task) /\ (Len(w) = 0 \/ Len(w) = Len(wq[s]) - 1)
  <2> HIDE DEF s
  <2> QED
    BY <1>2 DEF Removed
<1>4. Len(w) <= Allowed("unlock", count[s]) /\ "unlock" \in Labels
  <2>1. Allowed("unlock", count[s]) = Waiters(count[s]) /\ Waiters(count[s]) \in Nat /\ "unlock" \in Labels
    BY <1>2 DEF Allowed, Waiters, Labels
  <2> HIDE DEF s, w
  <2> QED
    BY <1>2, <1>3, <2>1
<1>5. count' = [count EXCEPT ![s] = count[s]]
  BY <1>1 DEF SemInv, SemTypeOK
<1>s. s = Sm(p)
  OBVIOUS
<1> HIDE DEF s, w
<1> QED
  BY <1>1, <1>2, <1>3, <1>4, <1>5, <1>s, CountStep

LEMMA GetCurrentStep == ASSUME SemInv, NEW p \in Client, GetCurrent(p) PROVE SemInv'
<1>1. /\ pc[p] = "get_current" /\ UNCHANGED <<vars, mutex, count, wq, at, pick, halted>>
      /\ pc' = [pc EXCEPT ![p] = "test_sleep"] /\ me' = [me EXCEPT ![p] = current]
  BY DEF GetCurrent, Step
<1>2. "test_sleep" \in Labels /\ Allowed("test_sleep", count[Sm(p)]) = Allowed(pc[p], count[Sm(p)])
      /\ Allowed(pc[p], count[Sm(p)]) \in Int
  BY <1>1, InsideFacts DEF Labels, Allowed, Waiters
<1>3. TypeOK' /\ pick' \in [Client -> Task \union {None}] /\ halted' \in BOOLEAN /\ current \in Task
  BY <1>1 DEF SemInv, SemTypeOK, TypeOK, vars
<1>4. me' \in [Client -> Task \union {None}] /\ me'[p] = current /\ \A q \in Client : q # p => me'[q] = me[q]
  BY <1>1, <1>3 DEF SemInv, SemTypeOK
<1>5. /\ "test_sleep" # "call" /\ pc[p] # "call" /\ me'[p] \in Task
      /\ Allowed("test_sleep", count[Sm(p)]) >= Allowed(pc[p], count[Sm(p)])
      /\ UNCHANGED <<mutex, count, wq, at>>
  BY <1>1, <1>2, <1>3, <1>4
<1> QED
  BY <1>1, <1>2, <1>3, <1>4, <1>5, QuietStep

\* The other steps of a call leave its item alone.
LEMMA PlainStep ==
  ASSUME SemInv, NEW p \in Client, NEW m \in Labels, pc[p] # "call", m # "call",
         pc' = [pc EXCEPT ![p] = m], TypeOK', UNCHANGED <<mutex, count, wq, at, me>>,
         pick' \in [Client -> Task \union {None}], halted' \in BOOLEAN,
         m \in {"test_sleep", "mark", "enqueue"} => pc[p] \in {"test_sleep", "mark"},
         Allowed(m, count[Sm(p)]) >= Allowed(pc[p], count[Sm(p)])
  PROVE  SemInv'
<1>1. me' \in [Client -> Task \union {None}] /\ \A q \in Client : q # p => me'[q] = me[q]
  BY DEF SemInv, SemTypeOK
<1>2. m \in {"test_sleep", "mark", "enqueue"} => me'[p] \in Task
  BY DEF SemInv, MeKnown
<1> QED
  BY <1>1, <1>2, QuietStep

LEMMA StateTyped ==
  ASSUME NEW f \in [Task -> 0 .. 4], NEW v, NEW s \in 0 .. 4
  PROVE  [f EXCEPT ![v] = s] \in [Task -> 0 .. 4]
OBVIOUS

LEMMA SetStateTyped ==
  ASSUME TypeOK, NEW v, NEW s \in 0 .. 4, SetState(v, s)
  PROVE  TypeOK'
BY DEF SetState, TypeOK

LEMMA KmallocItemStep == ASSUME SemInv, NEW p \in Client, KmallocItem(p) PROVE SemInv'
<1>1. /\ pc[p] = "kmalloc" /\ UNCHANGED <<vars, mutex, count, wq, at, me, pick, halted>>
      /\ \E m \in {"unlock", "get_current"} : pc' = [pc EXCEPT ![p] = m]
  BY DEF KmallocItem, Step
<1>2. PICK m \in {"unlock", "get_current"} : pc' = [pc EXCEPT ![p] = m]
  BY <1>1
<1>3. m \in Labels /\ m # "call" /\ m \notin {"test_sleep", "mark", "enqueue"}
  BY DEF Labels
<1>4. Allowed(m, count[Sm(p)]) >= Allowed(pc[p], count[Sm(p)])
  BY <1>1, InsideFacts DEF Allowed, Waiters
<1>5. TypeOK' /\ me' \in [Client -> Task \union {None}] /\ pick' \in [Client -> Task \union {None}] /\ halted' \in BOOLEAN
  BY <1>1 DEF SemInv, SemTypeOK, TypeOK, vars
<1> QED
  BY <1>1, <1>2, <1>3, <1>4, <1>5, PlainStep

LEMMA TestSleepStep == ASSUME SemInv, NEW p \in Client, TestSleep(p) PROVE SemInv'
<1>1. /\ pc[p] = "test_sleep" /\ UNCHANGED <<vars, mutex, count, wq, at, me, pick, halted>>
      /\ \E m \in {"unlock", "mark"} : pc' = [pc EXCEPT ![p] = m]
  BY DEF TestSleep, Step
<1>2. PICK m \in {"unlock", "mark"} : pc' = [pc EXCEPT ![p] = m]
  BY <1>1
<1>3. m \in Labels /\ m # "call" /\ Allowed(m, count[Sm(p)]) >= Allowed(pc[p], count[Sm(p)])
  BY <1>1, InsideFacts DEF Labels, Allowed, Waiters
<1>4. TypeOK' /\ pick' \in [Client -> Task \union {None}] /\ halted' \in BOOLEAN
  BY <1>1 DEF SemInv, SemTypeOK, TypeOK, vars
<1> QED
  BY <1>1, <1>2, <1>3, <1>4, PlainStep

LEMMA MarkStep == ASSUME SemInv, NEW p \in Client, Mark(p) PROVE SemInv'
<1>1. /\ pc[p] = "mark" /\ UNCHANGED <<mutex, count, wq, at, me, pick, halted>>
      /\ pc' = [pc EXCEPT ![p] = "enqueue"] /\ SetState(me[p], TS_SLEEP)
  BY DEF Mark, Step
<1>2. "enqueue" \in Labels /\ Allowed("enqueue", count[Sm(p)]) >= Allowed(pc[p], count[Sm(p)])
  BY <1>1, InsideFacts DEF Labels, Allowed, Waiters
<1>3. TypeOK' /\ pick' \in [Client -> Task \union {None}] /\ halted' \in BOOLEAN
  BY <1>1, SetStateTyped DEF SemInv, SemTypeOK, TS_SLEEP
<1> QED
  BY <1>1, <1>2, <1>3, PlainStep

LEMMA SleepOnStep == ASSUME SemInv, NEW p \in Client, SleepOn(p) \/ SleepSet(p) PROVE SemInv'
<1>1. /\ pc[p] \in {"sleep_on", "sleep_set"} /\ UNCHANGED <<mutex, count, wq, at, me, pick, halted>>
      /\ \E m \in {"sleep_set", "scheduler"} : pc' = [pc EXCEPT ![p] = m]
      /\ UNCHANGED vars \/ SetState(current, TS_SLEEP)
  BY DEF SleepOn, SleepSet, Step
<1>2. PICK m \in {"sleep_set", "scheduler"} : pc' = [pc EXCEPT ![p] = m]
  BY <1>1
<1>3. m \in Labels /\ m # "call" /\ m \notin {"test_sleep", "mark", "enqueue"}
      /\ Allowed(m, count[Sm(p)]) >= Allowed(pc[p], count[Sm(p)])
  BY <1>1, InsideFacts DEF Labels, Allowed, Waiters
<1>4. TypeOK'
  <2>1. CASE UNCHANGED vars
    BY <2>1 DEF SemInv, TypeOK, vars
  <2>2. CASE SetState(current, TS_SLEEP)
    BY <2>2, SetStateTyped DEF SemInv, TS_SLEEP
  <2> QED
    BY <1>1, <2>1, <2>2
<1>5. pick' \in [Client -> Task \union {None}] /\ halted' \in BOOLEAN
  BY <1>1 DEF SemInv, SemTypeOK
<1> QED
  BY <1>1, <1>2, <1>3, <1>4, <1>5, PlainStep

LEMMA ResetCurrentStep == ASSUME SemInv, NEW p \in Client, ResetCurrent(p) PROVE SemInv'
<1>1. /\ pc[p] = "scheduler" /\ UNCHANGED <<mutex, count, wq, at, me, pick, halted>>
      /\ pc' = [pc EXCEPT ![p] = "pick"]
      /\ current' = Base /\ UNCHANGED <<tasks, state, priority, cpu, iflag>>
  BY DEF ResetCurrent, Step
<1>2. "pick" \in Labels /\ Allowed("pick", count[Sm(p)]) >= Allowed(pc[p], count[Sm(p)])
  BY <1>1, InsideFacts DEF Labels, Allowed, Waiters
<1>3. TypeOK' /\ pick' \in [Client -> Task \union {None}] /\ halted' \in BOOLEAN
  BY <1>1 DEF SemInv, SemTypeOK, TypeOK, Base
<1> QED
  BY <1>1, <1>2, <1>3, PlainStep

LEMMA PickTaskStep == ASSUME SemInv, NEW p \in Client, PickTask(p) PROVE SemInv'
<1>1. /\ pc[p] = "pick" /\ UNCHANGED <<vars, mutex, count, wq, at, me, halted>>
      /\ pc' = [pc EXCEPT ![p] = "switch"]
      /\ \E v \in Task \union {None} : pick' = [pick EXCEPT ![p] = v]
  <2>1. \A i \in DOMAIN tasks : tasks[i] \in Task
    BY DEF SemInv, TypeOK
  <2> QED
    BY <2>1 DEF PickTask, Step
<1>2. "switch" \in Labels /\ Allowed("switch", count[Sm(p)]) >= Allowed(pc[p], count[Sm(p)])
  BY <1>1, InsideFacts DEF Labels, Allowed, Waiters
<1>3. TypeOK' /\ pick' \in [Client -> Task \union {None}] /\ halted' \in BOOLEAN
  BY <1>1 DEF SemInv, SemTypeOK, TypeOK, vars
<1> QED
  BY <1>1, <1>2, <1>3, PlainStep

LEMMA SwitchTaskStep == ASSUME SemInv, NEW p \in Client, SwitchTask(p) PROVE SemInv'
<1>1. /\ pc[p] = "switch" /\ UNCHANGED <<tasks, priority, cpu, iflag, mutex, count, wq, at, me, pick, halted>>
      /\ \E m \in {"ljmp", "unlock"} : pc' = [pc EXCEPT ![p] = m]
      /\ \/ /\ pick[p] # None /\ current' = pick[p]
             /\ state' = [state EXCEPT ![current] = TS_RUNABLE, ![pick[p]] = TS_RUNNING]
         \/ UNCHANGED <<state, current>>
  BY DEF SwitchTask, Step, Switches
<1>2. PICK m \in {"ljmp", "unlock"} : pc' = [pc EXCEPT ![p] = m]
  BY <1>1
<1>3. m \in Labels /\ m # "call" /\ m \notin {"test_sleep", "mark", "enqueue"}
      /\ Allowed(m, count[Sm(p)]) >= Allowed(pc[p], count[Sm(p)])
  BY <1>1, InsideFacts DEF Labels, Allowed, Waiters
<1>4. TypeOK'
  <2>1. state' \in [Task -> 0 .. 4] /\ current' \in Task
    <3>1. state \in [Task -> 0 .. 4] /\ current \in Task /\ pick[p] \in Task \union {None}
      BY DEF SemInv, SemTypeOK, TypeOK
    <3>2. [state EXCEPT ![current] = TS_RUNABLE] \in [Task -> 0 .. 4]
      BY <3>1 DEF TS_RUNABLE
    <3>3. [state EXCEPT ![current] = TS_RUNABLE, ![pick[p]] = TS_RUNNING] \in [Task -> 0 .. 4]
      <4> DEFINE g == [state EXCEPT ![current] = TS_RUNABLE]
      <4>1. [state EXCEPT ![current] = TS_RUNABLE, ![pick[p]] = TS_RUNNING] = [g EXCEPT ![pick[p]] = TS_RUNNING]
        OBVIOUS
      <4>2. g \in [Task -> 0 .. 4] /\ TS_RUNNING \in 0 .. 4
        BY <3>2 DEF TS_RUNNING
      <4> HIDE DEF g
      <4>3. [g EXCEPT ![pick[p]] = TS_RUNNING] \in [Task -> 0 .. 4]
        BY <4>2, StateTyped
      <4> QED
        BY <4>1, <4>3
    <3> QED
      BY <1>1, <3>1, <3>3
  <2> QED
    BY <1>1, <2>1 DEF SemInv, TypeOK
<1>5. pick' \in [Client -> Task \union {None}] /\ halted' \in BOOLEAN
  BY <1>1 DEF SemInv, SemTypeOK
<1> QED
  BY <1>1, <1>2, <1>3, <1>4, <1>5, PlainStep

LEMMA LjmpStep == ASSUME SemInv, NEW p \in Client, Ljmp(p) PROVE SemInv'
<1>1. /\ pc[p] = "ljmp" /\ UNCHANGED <<vars, mutex, count, wq, at, me, pick>>
      /\ pc' = [pc EXCEPT ![p] = "ljmp"] /\ halted' = TRUE
  BY DEF Ljmp, Step
<1>2. "ljmp" \in Labels /\ Allowed("ljmp", count[Sm(p)]) >= Allowed(pc[p], count[Sm(p)])
  BY <1>1, InsideFacts DEF Labels, Allowed, Waiters
<1>3. TypeOK' /\ pick' \in [Client -> Task \union {None}] /\ halted' \in BOOLEAN
  BY <1>1 DEF SemInv, SemTypeOK, TypeOK, vars
<1> QED
  BY <1>1, <1>2, <1>3, PlainStep

LEMMA WakeUpStep == ASSUME SemInv, NEW p \in Client, WakeUp(p) PROVE SemInv'
<1>1. /\ pc[p] = "wake_up" /\ UNCHANGED <<mutex, count, wq, at, me, pick, halted>>
      /\ pc' = [pc EXCEPT ![p] = "remove_head"]
      /\ UNCHANGED vars \/ SetState(Head(wq[Sm(p)]), TS_RUNABLE)
  BY DEF WakeUp, Step
<1>2. "remove_head" \in Labels /\ Allowed("remove_head", count[Sm(p)]) >= Allowed(pc[p], count[Sm(p)])
  BY <1>1, InsideFacts DEF Labels, Allowed, Waiters
<1>3. TypeOK'
  <2>1. CASE UNCHANGED vars
    BY <2>1 DEF SemInv, TypeOK, vars
  <2>2. CASE SetState(Head(wq[Sm(p)]), TS_RUNABLE)
    BY <2>2, SetStateTyped DEF SemInv, TS_RUNABLE
  <2> QED
    BY <1>1, <2>1, <2>2
<1>4. pick' \in [Client -> Task \union {None}] /\ halted' \in BOOLEAN
  BY <1>1 DEF SemInv, SemTypeOK
<1> QED
  BY <1>1, <1>2, <1>3, <1>4, PlainStep

----------------------------------------------------------------------------
(* The steps of Sched: a tick, the creation of a task, sti *)

LEMMA SchedStep == ASSUME TypeOK, Next PROVE TypeOK'
<1>1. CASE DoTimer
  <2>1. priority' \in [Task -> Int]
    BY <1>1, AgedIsInt DEF DoTimer, TypeOK
  <2>2. Base \in Task /\ \A i \in DOMAIN tasks : tasks[i] \in Task
    BY DEF TypeOK, Base
  <2>3. CASE NoSwitch
    BY <1>1, <2>1, <2>2, <2>3 DEF DoTimer, NoSwitch, TypeOK
  <2>4. ASSUME NEW i \in DOMAIN tasks, SwitchTo(tasks[i]) PROVE TypeOK'
    BY <1>1, <2>1, <2>2, <2>4 DEF DoTimer, SwitchTo, TypeOK, TS_RUNNING, TS_RUNABLE
  <2> QED
    BY <1>1, <2>3, <2>4 DEF DoTimer, Scheduler
<1>2. CASE \E t \in Task : NewTask(t)
  <2>1. PICK t \in Task, i \in DOMAIN tasks : NewTask(t) /\ tasks' = InsertAt(tasks, i + 1, t)
    BY <1>2 DEF NewTask, LinkAfter
  <2>2. tasks \in Seq(Task) /\ i + 1 \in 1 .. Len(tasks) + 1
    BY <2>1 DEF TypeOK
  <2>3. tasks' \in Seq(Task)
    BY <2>1, <2>2, InsertAtProperties
  <2> QED
    BY <2>1, <2>3 DEF NewTask, TypeOK, TS_STOPPED, INITIAL_PRIO
<1>3. CASE PublishTask
  <2>1. PICK i \in DOMAIN tasks : state' = [state EXCEPT ![tasks[i + 1]] = TS_RUNABLE]
    BY <1>3 DEF PublishTask
  <2>2. state' \in [Task -> 0 .. 4]
    <3>1. state \in [Task -> 0 .. 4] /\ TS_RUNABLE \in 0 .. 4
      BY DEF TypeOK, TS_RUNABLE
    <3>2. [state EXCEPT ![tasks[i + 1]] = TS_RUNABLE] \in [Task -> 0 .. 4]
      BY <3>1, StateTyped
    <3> QED
      BY <2>1, <3>2
  <2> QED
    BY <1>3, <2>2 DEF PublishTask, TypeOK
<1>4. CASE Sti
  BY <1>4 DEF Sti, TypeOK
<1> QED
  BY <1>1, <1>2, <1>3, <1>4 DEF Next, Create

LEMMA OutsideStep == ASSUME SemInv, TypeOK', UNCHANGED semvars PROVE SemInv'
BY DEF SemInv, SemTypeOK, MeKnown, MutexHeld, WithinAllowed, Inside, Sm, semvars

LEMMA SemInvNext == SemInv /\ [SemNext]_allvars => SemInv'
<1> SUFFICES ASSUME SemInv, [SemNext]_allvars PROVE SemInv'
  OBVIOUS
<1>1. CASE Boot \/ Tick
  <2>1. Next /\ UNCHANGED semvars
    BY <1>1 DEF Boot, Tick, Next
  <2> QED
    BY <2>1, SchedStep, OutsideStep DEF SemInv
<1>2. CASE \E p \in Client : TaskStep(p)
  <2> SUFFICES ASSUME NEW p \in Client, TaskStep(p) PROVE SemInv'
    BY <1>2
  <2>1. CASE SemWait(p)
    BY <2>1, DecrementStep, KmallocItemStep, GetCurrentStep, TestSleepStep, MarkStep, EnqueueStep, SleepOnStep,
       ResetCurrentStep, PickTaskStep, SwitchTaskStep, LjmpStep DEF SemWait
  <2>2. CASE SemPost(p)
    BY <2>2, IncrementStep, WakeUpStep, RemoveHeadStep DEF SemPost
  <2> QED
    BY <2>1, <2>2, MutexLockStep, MutexUnlockStep DEF TaskStep
<1>3. CASE UNCHANGED allvars
  <2>1. UNCHANGED vars /\ UNCHANGED semvars
    BY <1>3 DEF allvars
  <2>2. TypeOK'
    BY <2>1 DEF SemInv, TypeOK, vars
  <2> QED
    BY <2>1, <2>2, OutsideStep
<1> QED
  BY <1>1, <1>2, <1>3 DEF SemNext

----------------------------------------------------------------------------
(* Who is queued sleeps *)

\* Item i of the queue of s is v's and stays for now.
Queued(v, s, i) == i \in DOMAIN wq[s] /\ wq[s][i] = v /\ ~Leaving(s, i)

\* A task of which QueuedSleeps says more than nothing.
Plain(v) == v # TASK0 /\ v \notin Jumped

Asleep == \A v \in Task : Plain(v) => \A s \in Sems, i \in Nat : Queued(v, s, i) => state[v] = TS_SLEEP

\* It has one item at most that stays,
Once ==
  \A v \in Task : Plain(v) => \A s, t \in Sems, i, j \in Nat :
    Queued(v, s, i) /\ Queued(v, t, j) => s = t /\ i = j

\* and none yet between the two assignments of sleep_on_queue.
Entering ==
  \A p \in Client : pc[p] = "enqueue" /\ me[p] # TASK0 /\ Plain(p) =>
    state[p] = TS_SLEEP /\ \A s \in Sems, i \in Nat : ~Queued(p, s, i)

\* sleep_on_queue marks a task that has been awake since its test.
Marking == \A p \in Client : pc[p] = "mark" /\ me[p] # TASK0 => state[p] # TS_SLEEP

\* What sleep_on_queue takes for the task that runs is it, or TASK0.
Known == \A p \in Client : pc[p] \in {"test_sleep", "mark", "enqueue"} => me[p] \in {p, TASK0}

\* current is the task the processor executes, or TASK0 for it.
Running == current \in {cpu, TASK0} \/ (cpu \in Client /\ pc[cpu] = "ljmp")

\* A task that calls scheduler() in its own name is not asleep then.
Awake ==
  cpu \in Client /\ pc[cpu] \in {"pick", "switch"} /\ current = cpu /\ cpu # TASK0 => state[cpu] # TS_SLEEP

\* Before sti() there is no call to wait in.
BeforeSti == ~iflag => (\A s \in Sems : wq[s] = <<>>) /\ \A p \in Client : pc[p] = "call"

\* What QueuedSleeps rests on, inductively.
SleepInv == Asleep /\ Once /\ Entering /\ Marking /\ Known /\ Running /\ Awake /\ BeforeSti

LEMMA SleepInvInit == SemInitState => SleepInv
<1> SUFFICES ASSUME SemInitState PROVE SleepInv
  OBVIOUS
<1>1. /\ \A s \in Sems : wq[s] = <<>>
      /\ \A p \in Client : pc[p] = "call"
      /\ current = TASK0
  BY DEF SemInitState, Init
<1>2. \A v, s, i : s \in Sems => ~Queued(v, s, i)
  BY <1>1 DEF Queued
<1> QED
  BY <1>1, <1>2 DEF SleepInv, Asleep, Once, Entering, Marking, Known, Running, Awake, BeforeSti

LEMMA SleepInvImplies == SemInv /\ SleepInv => QueuedSleeps
<1> SUFFICES ASSUME SemInv, SleepInv, NEW s \in Sems, NEW i \in DOMAIN wq[s],
                    wq[s][i] \notin Jumped \union {TASK0}, ~Leaving(s, i)
             PROVE  state[wq[s][i]] = TS_SLEEP
  BY DEF QueuedSleeps
<1>1. i \in Nat /\ wq[s][i] \in Task
  BY DEF SemInv, SemTypeOK
<1>2. Plain(wq[s][i]) /\ Queued(wq[s][i], s, i)
  BY DEF Plain, Queued
<1> QED
  BY <1>1, <1>2 DEF SleepInv, Asleep

\* A step that queues nobody and wakes nobody.
LEMMA CalmStep ==
  ASSUME SleepInv, NEW d \in [Sems -> 0 .. 1],
         \A v \in Task, s \in Sems, i \in Nat : Queued(v, s, i)' => Queued(v, s, i + d[s]),
         Jumped \subseteq Jumped',
         \A v \in Task : v # TASK0 /\ v \notin Jumped' /\ state[v] = TS_SLEEP => state'[v] = TS_SLEEP,
         \A q \in Client : pc'[q] = "enqueue" /\ me'[q] # TASK0 =>
           \/ pc[q] = "enqueue" /\ me[q] = me'[q]
           \/ state[q] # TS_SLEEP /\ state'[q] = TS_SLEEP
  PROVE  Asleep' /\ Once' /\ Entering'
<1>0. \A v : Plain(v)' => Plain(v) /\ v # TASK0 /\ v \notin Jumped'
  BY DEF Plain
<1>d. \A s \in Sems, i \in Nat : i + d[s] \in Nat
  OBVIOUS
<1>c. \A q \in Client : q \in Task
  BY DEF Client
<1>1. Asleep'
  <2> SUFFICES ASSUME NEW v \in Task, Plain(v)', NEW s \in Sems, NEW i \in Nat, Queued(v, s, i)'
               PROVE  state'[v] = TS_SLEEP
    BY DEF Asleep
  <2>1. Queued(v, s, i + d[s]) /\ i + d[s] \in Nat /\ Plain(v)
    BY <1>0, <1>d
  <2>2. state[v] = TS_SLEEP
    BY <2>1 DEF SleepInv, Asleep
  <2> QED
    BY <1>0, <2>2
<1>2. Once'
  <2> SUFFICES ASSUME NEW v \in Task, Plain(v)', NEW s \in Sems, NEW t \in Sems, NEW i \in Nat, NEW j \in Nat,
                      Queued(v, s, i)', Queued(v, t, j)'
               PROVE  s = t /\ i = j
    BY DEF Once
  <2>1. Queued(v, s, i + d[s]) /\ Queued(v, t, j + d[t]) /\ Plain(v)
    BY <1>0
  <2>2. s = t /\ i + d[s] = j + d[t]
    BY <1>d, <2>1 DEF SleepInv, Once
  <2> QED
    BY <2>2
<1>3. Entering'
  <2> SUFFICES ASSUME NEW q \in Client, pc'[q] = "enqueue", me'[q] # TASK0, Plain(q)'
               PROVE  state'[q] = TS_SLEEP /\ \A s \in Sems, i \in Nat : ~Queued(q, s, i)'
    BY DEF Entering
  <2>1. Plain(q) /\ q \in Task
    BY <1>0, <1>c
  <2>2. CASE pc[q] = "enqueue" /\ me[q] = me'[q]
    <3>1. state[q] = TS_SLEEP /\ \A s \in Sems, i \in Nat : ~Queued(q, s, i)
      BY <2>1, <2>2 DEF SleepInv, Entering
    <3> QED
      BY <1>0, <1>d, <2>1, <3>1
  <2>3. CASE state[q] # TS_SLEEP /\ state'[q] = TS_SLEEP
    <3>1. \A s \in Sems, i \in Nat : ~Queued(q, s, i)
      BY <2>1, <2>3 DEF SleepInv, Asleep
    <3> QED
      BY <1>d, <2>1, <2>3, <3>1
  <2> QED
    BY <2>2, <2>3
<1> QED
  BY <1>1, <1>2, <1>3

\* The items that stay are the same.
LEMMA SameQueued ==
  ASSUME wq' = wq,
         \A q \in Client : pc'[q] = "remove_head" <=> pc[q] = "remove_head",
         \A q \in Client : pc[q] = "remove_head" => at'[q] = at[q]
  PROVE  \A v, s, i : Queued(v, s, i)' <=> Queued(v, s, i)
<1>1. \A s, i : Leaving(s, i)' <=> Leaving(s, i)
  <2> SUFFICES ASSUME NEW s, NEW i
               PROVE  (i = 1 /\ \E p \in Client : (pc'[p] # "call" /\ Program[p][at'[p]][2] = s) /\ pc'[p] = "remove_head")
                      <=> (i = 1 /\ \E p \in Client : (pc[p] # "call" /\ Program[p][at[p]][2] = s) /\ pc[p] = "remove_head")
    BY DEF Leaving, Inside, Sm
  <2> QED
    OBVIOUS
<1> QED
  BY <1>1 DEF Queued

\* Every step is one of the task the processor executes, and leaves the others
\* where they are.
LEMMA OwnStep ==
  ASSUME SemInv, NEW p \in Client, TaskStep(p)
  PROVE  /\ iflag /\ iflag' /\ cpu = p /\ cpu' = p
         /\ \A q \in Client : q # p => pc'[q] = pc[q] /\ at'[q] = at[q] /\ me'[q] = me[q] /\ pick'[q] = pick[q]
         /\ pc[p] = "ljmp" => pc'[p] = "ljmp" /\ pick'[p] = pick[p]
<1>0. pc \in [Client -> Labels] /\ at \in [Client -> Nat] /\ me \in [Client -> Task \union {None}]
      /\ pick \in [Client -> Task \union {None}]
  BY DEF SemInv, SemTypeOK
<1>1. CASE MutexLock(p) \/ MutexUnlock(p)
  BY <1>0, <1>1 DEF MutexLock, MutexUnlock, Step, vars
<1>2. CASE Decrement(p) \/ KmallocItem(p) \/ GetCurrent(p) \/ TestSleep(p)
  BY <1>0, <1>2 DEF Decrement, KmallocItem, GetCurrent, TestSleep, Step, vars
<1>3. CASE Mark(p) \/ Enqueue(p) \/ SleepOn(p) \/ SleepSet(p)
  BY <1>0, <1>3 DEF Mark, Enqueue, SleepOn, SleepSet, SetState, Step, vars
<1>4. CASE ResetCurrent(p) \/ PickTask(p) \/ Ljmp(p)
  BY <1>0, <1>4 DEF ResetCurrent, PickTask, Ljmp, Step, vars
<1>5. CASE SwitchTask(p)
  BY <1>0, <1>5 DEF SwitchTask, Step
<1>6. CASE Increment(p) \/ WakeUp(p) \/ RemoveHead(p)
  BY <1>0, <1>6 DEF Increment, WakeUp, RemoveHead, SetState, Step, vars
<1> QED
  BY <1>1, <1>2, <1>3, <1>4, <1>5, <1>6 DEF TaskStep, SemWait, SemPost

\* The steps that change the state of a task, current or an item, and the others.
LEMMA StepKinds ==
  ASSUME SemInv, NEW p \in Client, TaskStep(p)
  PROVE  \/ GetCurrent(p) \/ TestSleep(p) \/ Mark(p) \/ SleepSet(p) \/ ResetCurrent(p) \/ PickTask(p)
         \/ SwitchTask(p) \/ WakeUp(p) \/ Enqueue(p) \/ RemoveHead(p)
         \/ /\ UNCHANGED <<state, current, wq>> /\ me'[p] = me[p]
            /\ pc[p] # "remove_head"
            /\ pc'[p] \notin {"test_sleep", "mark", "enqueue", "pick", "switch", "remove_head"}
<1>0. pc \in [Client -> Labels]
  BY DEF SemInv, SemTypeOK
<1>1. CASE MutexLock(p) \/ MutexUnlock(p)
  BY <1>0, <1>1 DEF MutexLock, MutexUnlock, Step, vars
<1>2. CASE Decrement(p) \/ KmallocItem(p) \/ SleepOn(p) \/ Increment(p) \/ Ljmp(p)
  BY <1>0, <1>2 DEF Decrement, KmallocItem, SleepOn, Increment, Ljmp, Step, vars
<1> QED
  BY <1>1, <1>2 DEF TaskStep, SemWait, SemPost

LEMMA JumpedGrows == ASSUME SemInv, NEW p \in Client, TaskStep(p) PROVE Jumped \subseteq Jumped'
<1> SUFFICES ASSUME NEW q \in Client, pc[q] = "ljmp" PROVE pc'[q] = "ljmp" /\ pick'[q] = pick[q]
  BY DEF Jumped
<1> QED
  BY OwnStep

LEMMA KnownStep == ASSUME SemInv, SleepInv, NEW p \in Client, TaskStep(p) PROVE Known'
<1> SUFFICES ASSUME NEW q \in Client, pc'[q] \in {"test_sleep", "mark", "enqueue"} PROVE me'[q] \in {q, TASK0}
  BY DEF Known
<1>0. pc \in [Client -> Labels] /\ me \in [Client -> Task \union {None}]
  BY DEF SemInv, SemTypeOK
<1>1. CASE q # p
  BY <1>1, OwnStep DEF SleepInv, Known
<1>2. CASE q = p /\ GetCurrent(p)
  <2>1. me'[p] = current /\ pc[p] = "get_current" /\ cpu = p
    BY <1>0, <1>2 DEF GetCurrent, Step
  <2> QED
    BY <1>2, <2>1 DEF SleepInv, Running
<1>3. CASE q = p /\ (TestSleep(p) \/ Mark(p))
  <2>1. me' = me /\ pc[p] \in {"test_sleep", "mark"}
    BY <1>3 DEF TestSleep, Mark, Step
  <2> QED
    BY <1>3, <2>1 DEF SleepInv, Known
<1>4. CASE q = p /\ (SleepSet(p) \/ ResetCurrent(p) \/ PickTask(p) \/ SwitchTask(p) \/ WakeUp(p) \/ Enqueue(p) \/ RemoveHead(p))
  BY <1>0, <1>4 DEF SleepSet, ResetCurrent, PickTask, SwitchTask, WakeUp, Enqueue, RemoveHead, Step
<1> QED
  BY <1>1, <1>2, <1>3, <1>4, StepKinds

LEMMA RunningStep == ASSUME SemInv, SleepInv, NEW p \in Client, TaskStep(p) PROVE Running'
<1>0. pc \in [Client -> Labels] /\ cpu = p /\ cpu' = p
  BY OwnStep DEF SemInv, SemTypeOK
<1>1. ASSUME current' = current PROVE Running'
  <2>1. CASE pc[p] = "ljmp"
    BY <1>0, <2>1, OwnStep DEF Running
  <2>2. CASE pc[p] # "ljmp"
    BY <1>0, <1>1, <2>2 DEF SleepInv, Running
  <2> QED
    BY <2>1, <2>2
<1>2. CASE GetCurrent(p) \/ TestSleep(p) \/ Mark(p) \/ SleepSet(p) \/ PickTask(p) \/ WakeUp(p) \/ Enqueue(p) \/ RemoveHead(p)
  <2>1. current' = current
    BY <1>2 DEF GetCurrent, TestSleep, Mark, SleepSet, PickTask, WakeUp, Enqueue, RemoveHead, SetState, vars
  <2> QED
    BY <1>1, <2>1
<1>3. CASE ResetCurrent(p)
  <2>1. current' = Base /\ pc[p] = "scheduler"
    BY <1>3 DEF ResetCurrent, Step
  <2> QED
    BY <1>0, <2>1 DEF SleepInv, Running, Base
<1>4. CASE SwitchTask(p)
  <2>1. current' = current \/ pc'[p] = "ljmp"
    BY <1>0, <1>4 DEF SwitchTask, Step
  <2> QED
    BY <1>0, <1>1, <2>1 DEF Running
<1> QED
  BY <1>1, <1>2, <1>3, <1>4, StepKinds

LEMMA AwakeStep == ASSUME SemInv, SleepInv, NEW p \in Client, TaskStep(p) PROVE Awake'
<1> SUFFICES ASSUME pc'[p] \in {"pick", "switch"}, current' = p, p # TASK0 PROVE state'[p] # TS_SLEEP
  BY OwnStep DEF Awake
<1>0. pc \in [Client -> Labels] /\ cpu = p
  BY OwnStep DEF SemInv, SemTypeOK
<1>1. CASE ResetCurrent(p)
  BY <1>1 DEF ResetCurrent, Base
<1>2. CASE PickTask(p)
  <2>1. pc[p] = "pick" /\ UNCHANGED <<state, current>>
    BY <1>2 DEF PickTask, Step, vars
  <2> QED
    BY <1>0, <2>1 DEF SleepInv, Awake
<1>3. CASE GetCurrent(p) \/ TestSleep(p) \/ Mark(p) \/ SleepSet(p) \/ SwitchTask(p) \/ WakeUp(p) \/ Enqueue(p) \/ RemoveHead(p)
  BY <1>0, <1>3 DEF GetCurrent, TestSleep, Mark, SleepSet, SwitchTask, WakeUp, Enqueue, RemoveHead, Step
<1> QED
  BY <1>1, <1>2, <1>3, StepKinds

LEMMA MarkingStep == ASSUME SemInv, SleepInv, NEW p \in Client, TaskStep(p) PROVE Marking'
<1> SUFFICES ASSUME NEW q \in Client, pc'[q] = "mark", me'[q] # TASK0 PROVE state'[q] # TS_SLEEP
  BY DEF Marking
<1>0. /\ pc \in [Client -> Labels] /\ state \in [Task -> 0 .. 4] /\ me \in [Client -> Task \union {None}]
      /\ cpu = p /\ q \in Task
  BY OwnStep DEF SemInv, SemTypeOK, TypeOK, Client
<1>1. CASE q # p
  <2>1. pc[q] = "mark" /\ me[q] # TASK0
    BY <1>1, OwnStep
  <2>2. q # TASK0 /\ state[q] # TS_SLEEP
    BY <2>1 DEF SleepInv, Known, Marking
  <2>3. CASE Mark(p)
    <3>1. pc[p] = "mark" /\ state' = [state EXCEPT ![me[p]] = TS_SLEEP]
      BY <2>3 DEF Mark, Step, SetState
    <3>2. me[p] # q
      BY <1>1, <2>2, <3>1 DEF SleepInv, Known
    <3> QED
      BY <1>0, <2>2, <3>1, <3>2
  <2>4. CASE SleepSet(p)
    <3>1. pc[p] = "sleep_set" /\ state' = [state EXCEPT ![current] = TS_SLEEP]
      BY <2>4 DEF SleepSet, Step, SetState
    <3>2. current # q
      BY <1>0, <1>1, <2>2, <3>1 DEF SleepInv, Running
    <3> QED
      BY <1>0, <2>2, <3>1, <3>2
  <2>5. CASE SwitchTask(p)
    BY <1>0, <2>2, <2>5 DEF SwitchTask, TS_SLEEP, TS_RUNABLE, TS_RUNNING
  <2>6. CASE WakeUp(p)
    BY <1>0, <2>2, <2>6 DEF WakeUp, SetState, TS_SLEEP, TS_RUNABLE, vars
  <2>7. CASE GetCurrent(p) \/ TestSleep(p) \/ ResetCurrent(p) \/ PickTask(p) \/ Enqueue(p) \/ RemoveHead(p)
    <3>1. state' = state
      BY <2>7 DEF GetCurrent, TestSleep, ResetCurrent, PickTask, Enqueue, RemoveHead, vars
    <3> QED
      BY <2>2, <3>1
  <2> QED
    BY <2>2, <2>3, <2>4, <2>5, <2>6, <2>7, StepKinds
<1>2. CASE q = p /\ TestSleep(p)
  <2>1. ~Sleeps(me[p]) /\ me' = me /\ state' = state /\ pc[p] = "test_sleep"
    BY <1>0, <1>2 DEF TestSleep, Step, vars
  <2>2. me[p] = p
    BY <1>2, <2>1 DEF SleepInv, Known
  <2> QED
    BY <1>2, <2>1, <2>2 DEF Sleeps
<1>3. CASE q = p /\ (GetCurrent(p) \/ Mark(p) \/ SleepSet(p) \/ ResetCurrent(p) \/ PickTask(p) \/ SwitchTask(p) \/ WakeUp(p)
                     \/ Enqueue(p) \/ RemoveHead(p))
  BY <1>0, <1>3 DEF GetCurrent, Mark, SleepSet, ResetCurrent, PickTask, SwitchTask, WakeUp, Enqueue, RemoveHead, Step
<1> QED
  BY <1>1, <1>2, <1>3, StepKinds

\* No queue has lost its first item.
Zeros == [s \in Sems |-> 0]

LEMMA ZerosFacts == Zeros \in [Sems -> 0 .. 1] /\ \A s \in Sems, i \in Nat : i + Zeros[s] = i
BY DEF Zeros

\* The task inside a semaphore is the only one there.
LEMMA Alone ==
  ASSUME SemInv, NEW p \in Client, pc[p] # "call", NEW q \in Client, Inside(q, Sm(p))
  PROVE  q = p
<1>1. Sm(p) \in Sems /\ Inside(p, Sm(p))
  BY InsideFacts DEF Inside
<1> QED
  BY <1>1 DEF SemInv, MutexHeld

\* Steps that leave the queues alone and wake nobody.
LEMMA StayStep ==
  ASSUME SemInv, SleepInv, NEW p \in Client, TaskStep(p), wq' = wq,
         pc[p] # "remove_head", pc'[p] # "remove_head",
         \A v \in Task : v # TASK0 /\ v \notin Jumped' /\ state[v] = TS_SLEEP => state'[v] = TS_SLEEP,
         pc'[p] = "enqueue" /\ me'[p] # TASK0 => state[p] # TS_SLEEP /\ state'[p] = TS_SLEEP
  PROVE  Asleep' /\ Once' /\ Entering'
<1>1. \A v, s, i : Queued(v, s, i)' <=> Queued(v, s, i)
  <2>1. /\ \A q \in Client : pc'[q] = "remove_head" <=> pc[q] = "remove_head"
        /\ \A q \in Client : pc[q] = "remove_head" => at'[q] = at[q]
    BY OwnStep
  <2> QED
    BY <2>1, SameQueued
<1>2. \A v \in Task, s \in Sems, i \in Nat : Queued(v, s, i)' => Queued(v, s, i + Zeros[s])
  BY <1>1, ZerosFacts
<1>3. \A q \in Client : pc'[q] = "enqueue" /\ me'[q] # TASK0 =>
           \/ pc[q] = "enqueue" /\ me[q] = me'[q]
           \/ state[q] # TS_SLEEP /\ state'[q] = TS_SLEEP
  BY OwnStep
<1>4. Jumped \subseteq Jumped' /\ Zeros \in [Sems -> 0 .. 1]
  BY JumpedGrows, ZerosFacts
<1> QED
  BY <1>2, <1>3, <1>4, CalmStep

LEMMA QuietItems ==
  ASSUME SemInv, SleepInv, NEW p \in Client, TaskStep(p), state' = state, wq' = wq,
         pc[p] # "remove_head", pc'[p] \notin {"remove_head", "enqueue"}
  PROVE  Asleep' /\ Once' /\ Entering'
BY StayStep

LEMMA MarkItems == ASSUME SemInv, SleepInv, NEW p \in Client, Mark(p) PROVE Asleep' /\ Once' /\ Entering'
<1>0. TaskStep(p) /\ state \in [Task -> 0 .. 4] /\ pc \in [Client -> Labels] /\ p \in Task
  BY DEF TaskStep, SemWait, SemInv, SemTypeOK, TypeOK, Client
<1>1. pc[p] = "mark" /\ pc'[p] = "enqueue" /\ wq' = wq /\ me' = me /\ state' = [state EXCEPT ![me[p]] = TS_SLEEP]
  BY <1>0 DEF Mark, Step, SetState
<1>2. \A v \in Task : state[v] = TS_SLEEP => state'[v] = TS_SLEEP
  BY <1>0, <1>1
<1>3. me'[p] # TASK0 => state[p] # TS_SLEEP /\ state'[p] = TS_SLEEP
  <2>1. me[p] # TASK0 => me[p] = p /\ state[p] # TS_SLEEP
    BY <1>1 DEF SleepInv, Known, Marking
  <2> QED
    BY <1>0, <1>1, <2>1
<1> QED
  BY <1>0, <1>1, <1>2, <1>3, StayStep

LEMMA SleepSetItems == ASSUME SemInv, SleepInv, NEW p \in Client, SleepSet(p) PROVE Asleep' /\ Once' /\ Entering'
<1>0. TaskStep(p) /\ state \in [Task -> 0 .. 4] /\ pc \in [Client -> Labels]
  BY DEF TaskStep, SemWait, SemInv, SemTypeOK, TypeOK
<1>1. pc[p] = "sleep_set" /\ pc'[p] = "scheduler" /\ wq' = wq /\ state' = [state EXCEPT ![current] = TS_SLEEP]
  BY <1>0 DEF SleepSet, Step, SetState
<1>2. \A v \in Task : state[v] = TS_SLEEP => state'[v] = TS_SLEEP
  BY <1>0, <1>1
<1> QED
  BY <1>0, <1>1, <1>2, StayStep

LEMMA SwitchItems == ASSUME SemInv, SleepInv, NEW p \in Client, SwitchTask(p) PROVE Asleep' /\ Once' /\ Entering'
<1>0. TaskStep(p) /\ state \in [Task -> 0 .. 4] /\ pc \in [Client -> Labels] /\ cpu = p
  <2>1. TaskStep(p)
    BY DEF TaskStep, SemWait
  <2> QED
    BY <2>1, OwnStep DEF SemInv, SemTypeOK, TypeOK
<1>1. /\ pc[p] = "switch" /\ pc'[p] \in {"ljmp", "unlock"} /\ wq' = wq /\ pick' = pick
      /\ \/ state' = state
         \/ pc'[p] = "ljmp" /\ state' = [state EXCEPT ![current] = TS_RUNABLE, ![pick[p]] = TS_RUNNING]
  BY <1>0 DEF SwitchTask, Step
<1>2. ASSUME NEW v \in Task, v # TASK0, v \notin Jumped', state[v] = TS_SLEEP PROVE state'[v] = TS_SLEEP
  <2>1. CASE state' = state
    BY <1>2, <2>1
  <2>2. CASE pc'[p] = "ljmp" /\ state' = [state EXCEPT ![current] = TS_RUNABLE, ![pick[p]] = TS_RUNNING]
    <3>1. pick[p] \in Jumped'
      BY <1>1, <2>2 DEF Jumped
    <3>2. v # current
      BY <1>0, <1>1, <1>2 DEF SleepInv, Running, Awake
    <3>3. v # pick[p]
      BY <1>2, <3>1
    <3> QED
      BY <1>0, <1>2, <2>2, <3>2, <3>3
  <2> QED
    BY <1>1, <2>1, <2>2
<1> QED
  BY <1>0, <1>1, <1>2, StayStep

LEMMA WakeUpItems == ASSUME SemInv, SleepInv, NEW p \in Client, WakeUp(p) PROVE Asleep' /\ Once' /\ Entering'
<1> PICK s \in Sems : s = Sm(p)
  BY InsideFacts
<1> DEFINE h == Head(wq[s])
<1>0. TaskStep(p) /\ state \in [Task -> 0 .. 4] /\ pc \in [Client -> Labels] /\ wq[s] \in Seq(Task)
  BY InsideFacts DEF TaskStep, SemPost, SemInv, SemTypeOK, TypeOK
<1>1. /\ pc[p] = "wake_up" /\ pc'[p] = "remove_head" /\ UNCHANGED <<wq, me, at>>
      /\ IF wq[s] # <<>> THEN state' = [state EXCEPT ![h] = TS_RUNABLE] ELSE state' = state
  BY <1>0 DEF WakeUp, Step, SetState, vars
<1>2. \A i : ~Leaving(s, i)
  BY <1>1, Alone DEF Leaving
<1>3. \A t, i : Leaving(t, i) => Leaving(t, i)'
  <2> SUFFICES ASSUME NEW t, NEW q \in Client, Inside(q, t), pc[q] = "remove_head"
               PROVE  Inside(q, t)' /\ pc'[q] = "remove_head"
    BY DEF Leaving
  <2>1. q # p /\ pc'[q] = pc[q] /\ at'[q] = at[q]
    BY <1>0, <1>1, OwnStep
  <2> QED
    BY <2>1 DEF Inside, Sm
<1>4. Leaving(s, 1)'
  <2>1. Inside(p, s)'
    BY <1>1 DEF Inside, Sm
  <2> QED
    BY <1>1, <2>1 DEF Leaving
<1>5. \A v, t, i : Queued(v, t, i)' => Queued(v, t, i) /\ ~(t = s /\ i = 1)
  BY <1>1, <1>3, <1>4 DEF Queued
<1>6. wq[s] # <<>> => Queued(h, s, 1) /\ h \in Task
  <2> HAVE wq[s] # <<>>
  <2>1. 1 \in DOMAIN wq[s] /\ wq[s][1] = h /\ h \in Task
    BY <1>0
  <2> QED
    BY <1>2, <2>1 DEF Queued
<1>7. Jumped \subseteq Jumped' /\ \A v : Plain(v)' => Plain(v)
  BY <1>0, JumpedGrows DEF Plain
<1> HIDE DEF h
<1>8. \A v \in Task : Plain(v) /\ state'[v] # state[v] => v = h /\ wq[s] # <<>>
  BY <1>0, <1>1
<1>9. Asleep'
  <2> SUFFICES ASSUME NEW v \in Task, Plain(v)', NEW t \in Sems, NEW i \in Nat, Queued(v, t, i)'
               PROVE  state'[v] = TS_SLEEP
    BY DEF Asleep
  <2>1. Plain(v) /\ Queued(v, t, i) /\ ~(t = s /\ i = 1)
    BY <1>5, <1>7
  <2>2. state[v] = TS_SLEEP
    BY <2>1 DEF SleepInv, Asleep
  <2>3. ~(v = h /\ wq[s] # <<>>)
    BY <1>0, <1>6, <2>1 DEF SleepInv, Once
  <2> QED
    BY <1>8, <2>1, <2>2, <2>3
<1>10. Once'
  <2> SUFFICES ASSUME NEW v \in Task, Plain(v)', NEW r \in Sems, NEW t \in Sems, NEW i \in Nat, NEW j \in Nat,
                      Queued(v, r, i)', Queued(v, t, j)'
               PROVE  r = t /\ i = j
    BY DEF Once
  <2>1. Plain(v) /\ Queued(v, r, i) /\ Queued(v, t, j)
    BY <1>5, <1>7
  <2> QED
    BY <2>1 DEF SleepInv, Once
<1>11. Entering'
  <2> SUFFICES ASSUME NEW q \in Client, pc'[q] = "enqueue", me'[q] # TASK0, Plain(q)'
               PROVE  state'[q] = TS_SLEEP /\ \A t \in Sems, i \in Nat : ~Queued(q, t, i)'
    BY DEF Entering
  <2>1. pc[q] = "enqueue" /\ me[q] # TASK0 /\ Plain(q) /\ q \in Task
    BY <1>0, <1>1, <1>7, OwnStep DEF Client
  <2>2. state[q] = TS_SLEEP /\ \A t \in Sems, i \in Nat : ~Queued(q, t, i)
    BY <2>1 DEF SleepInv, Entering
  <2>3. ~(q = h /\ wq[s] # <<>>)
    BY <1>0, <1>6, <2>2
  <2> QED
    BY <1>5, <1>8, <2>1, <2>2, <2>3
<1> QED
  BY <1>9, <1>10, <1>11

LEMMA EnqueueItems == ASSUME SemInv, SleepInv, NEW p \in Client, Enqueue(p) PROVE Asleep' /\ Once' /\ Entering'
<1> DEFINE s == Sm(p)
           n == Len(wq[s]) + 1
<1>0. /\ TaskStep(p) /\ state \in [Task -> 0 .. 4] /\ pc \in [Client -> Labels] /\ wq \in [Sems -> Seq(Task)]
      /\ s \in Sems /\ wq[s] \in Seq(Task) /\ me[p] \in Task /\ n \in Nat
  BY InsideFacts DEF TaskStep, SemWait, SemInv, SemTypeOK, TypeOK, Enqueue, Step, MeKnown
<1>1. /\ pc[p] = "enqueue" /\ pc'[p] = "sleep_on" /\ UNCHANGED <<state, me, at, pick>>
      /\ wq' = [wq EXCEPT ![s] = Enqueued(@, me[p])]
  BY <1>0 DEF Enqueue, Step, vars
<1>2. /\ \A t \in Sems : t # s => wq'[t] = wq[t]
      /\ wq'[s] = wq[s] \/ wq'[s] = Append(wq[s], me[p])
  BY <1>0, <1>1 DEF Enqueued
<1>3. \A t, i : Leaving(t, i)' <=> Leaving(t, i)
  <2>1. \A q \in Client : (pc'[q] = "remove_head" <=> pc[q] = "remove_head") /\ at'[q] = at[q]
    BY <1>0, <1>1, OwnStep
  <2> QED
    BY <2>1 DEF Leaving, Inside, Sm
<1> HIDE DEF s, n
<1>4. ASSUME NEW v \in Task, NEW t \in Sems, NEW i \in Nat, Queued(v, t, i)'
      PROVE  Queued(v, t, i) \/ (t = s /\ i = n /\ v = me[p])
  <2>1. i \in DOMAIN wq'[t] /\ wq'[t][i] = v /\ ~Leaving(t, i)
    BY <1>3, <1>4 DEF Queued
  <2>2. CASE wq'[t] = wq[t]
    BY <2>1, <2>2 DEF Queued
  <2>3. CASE t = s /\ wq'[s] = Append(wq[s], me[p])
    <3>1. (i \in DOMAIN wq[s] /\ wq[s][i] = v) \/ (i = n /\ v = me[p])
      BY <1>0, <2>1, <2>3 DEF n
    <3> QED
      BY <2>1, <2>3, <3>1 DEF Queued
  <2> QED
    BY <1>2, <2>2, <2>3
<1>5. Jumped' = Jumped
  <2>1. \A q \in Client : pc'[q] = "ljmp" <=> pc[q] = "ljmp"
    BY <1>0, <1>1, OwnStep
  <2> QED
    BY <1>1, <2>1 DEF Jumped
<1>6. \A v : Plain(v)' <=> Plain(v)
  BY <1>5 DEF Plain
<1>7. Plain(me[p]) => me[p] = p /\ state[p] = TS_SLEEP /\ \A t \in Sems, i \in Nat : ~Queued(p, t, i)
  BY <1>1 DEF SleepInv, Known, Entering, Plain
<1>8. Asleep'
  <2> SUFFICES ASSUME NEW v \in Task, Plain(v)', NEW t \in Sems, NEW i \in Nat, Queued(v, t, i)'
               PROVE  state'[v] = TS_SLEEP
    BY DEF Asleep
  <2> QED
    BY <1>1, <1>4, <1>6, <1>7 DEF SleepInv, Asleep
<1>9. Once'
  <2> SUFFICES ASSUME NEW v \in Task, Plain(v)', NEW r \in Sems, NEW t \in Sems, NEW i \in Nat, NEW j \in Nat,
                      Queued(v, r, i)', Queued(v, t, j)'
               PROVE  r = t /\ i = j
    BY DEF Once
  <2>1. Plain(v)
    BY <1>6
  <2>2. CASE v = me[p]
    <3>1. ~Queued(v, r, i) /\ ~Queued(v, t, j)
      BY <1>7, <2>1, <2>2
    <3> QED
      BY <1>4, <3>1
  <2>3. CASE v # me[p]
    <3>1. Queued(v, r, i) /\ Queued(v, t, j)
      BY <1>4, <2>3
    <3> QED
      BY <2>1, <3>1 DEF SleepInv, Once
  <2> QED
    BY <2>2, <2>3
<1>10. Entering'
  <2> SUFFICES ASSUME NEW q \in Client, pc'[q] = "enqueue", me'[q] # TASK0, Plain(q)'
               PROVE  state'[q] = TS_SLEEP /\ \A t \in Sems, i \in Nat : ~Queued(q, t, i)'
    BY DEF Entering
  <2>1. q # p /\ pc[q] = "enqueue" /\ me[q] # TASK0 /\ Plain(q) /\ q \in Task
    BY <1>0, <1>1, <1>6, OwnStep DEF Client
  <2>2. state[q] = TS_SLEEP /\ \A t \in Sems, i \in Nat : ~Queued(q, t, i)
    BY <2>1 DEF SleepInv, Entering
  <2>3. q # me[p]
    BY <1>1, <2>1 DEF SleepInv, Known, Plain
  <2> QED
    BY <1>1, <1>4, <2>1, <2>2, <2>3
<1> QED
  BY <1>8, <1>9, <1>10

LEMMA RemoveHeadItems == ASSUME SemInv, SleepInv, NEW p \in Client, RemoveHead(p) PROVE Asleep' /\ Once' /\ Entering'
<1> DEFINE s == Sm(p)
           d == [t \in Sems |-> IF t = s THEN 1 ELSE 0]
<1>0. /\ TaskStep(p) /\ pc \in [Client -> Labels] /\ wq \in [Sems -> Seq(Task)]
      /\ s \in Sems /\ wq[s] \in Seq(Task)
  BY InsideFacts DEF TaskStep, SemPost, SemInv, SemTypeOK
<1>1. /\ pc[p] = "remove_head" /\ pc'[p] = "unlock" /\ UNCHANGED <<state, me, at>>
      /\ wq' = [wq EXCEPT ![s] = Removed(@)]
  BY <1>0 DEF RemoveHead, Step, vars
<1>2. ASSUME NEW t \in Sems, t # s, NEW i PROVE Leaving(t, i) => Leaving(t, i)'
  <2> SUFFICES ASSUME NEW q \in Client, Inside(q, t), pc[q] = "remove_head"
               PROVE  Inside(q, t)' /\ pc'[q] = "remove_head"
    BY DEF Leaving
  <2>1. q # p
    BY <1>2 DEF Inside
  <2>2. pc'[q] = pc[q] /\ at'[q] = at[q]
    BY <1>0, <2>1, OwnStep
  <2> QED
    BY <2>2 DEF Inside, Sm
<1>3. \A i \in Nat : ~Leaving(s, i + 1) \/ i = 0
  BY DEF Leaving
<1>4. ASSUME NEW v \in Task, NEW t \in Sems, NEW i \in Nat, Queued(v, t, i)' PROVE Queued(v, t, i + d[t])
  <2>1. i \in DOMAIN wq'[t] /\ wq'[t][i] = v /\ ~Leaving(t, i)'
    BY <1>4 DEF Queued
  <2>2. CASE t # s
    <3>1. wq'[t] = wq[t] /\ d[t] = 0
      BY <1>0, <1>1, <2>2
    <3>2. ~Leaving(t, i)
      BY <1>2, <2>1, <2>2
    <3> QED
      BY <2>1, <3>1, <3>2 DEF Queued
  <2>3. CASE t = s
    <3>1. d[t] = 1 /\ wq'[s] = Removed(wq[s])
      BY <1>0, <1>1, <2>3
    <3> HIDE DEF s, d
    <3>2. i + 1 \in DOMAIN wq[s] /\ wq[s][i + 1] = v /\ i # 0
      BY <1>0, <2>1, <2>3, <3>1 DEF Removed
    <3> QED
      BY <1>3, <2>3, <3>1, <3>2 DEF Queued
  <2> QED
    BY <2>2, <2>3
<1>5. d \in [Sems -> 0 .. 1] /\ Jumped \subseteq Jumped'
  BY <1>0, JumpedGrows
<1>6. \A q \in Client : pc'[q] = "enqueue" /\ me'[q] # TASK0 => pc[q] = "enqueue" /\ me[q] = me'[q]
  BY <1>0, <1>1, OwnStep
<1> HIDE DEF d
<1> QED
  BY <1>1, <1>4, <1>5, <1>6, CalmStep

LEMMA ItemsStep == ASSUME SemInv, SleepInv, NEW p \in Client, TaskStep(p) PROVE Asleep' /\ Once' /\ Entering'
<1>0. pc \in [Client -> Labels]
  BY DEF SemInv, SemTypeOK
<1>1. CASE GetCurrent(p) \/ TestSleep(p) \/ ResetCurrent(p) \/ PickTask(p)
  <2>1. /\ state' = state /\ wq' = wq
        /\ pc[p] # "remove_head" /\ pc'[p] \notin {"remove_head", "enqueue"}
    BY <1>0, <1>1 DEF GetCurrent, TestSleep, ResetCurrent, PickTask, Step, vars
  <2> QED
    BY <2>1, QuietItems
<1> QED
  BY <1>1, StepKinds, QuietItems, MarkItems, SleepSetItems, SwitchItems, WakeUpItems, EnqueueItems, RemoveHeadItems

\* A tick wakes nobody.
LEMMA TickStep == ASSUME SemInv, SleepInv, DoTimer, UNCHANGED semvars PROVE SleepInv'
<1>0. /\ state \in [Task -> 0 .. 4] /\ \A i \in DOMAIN tasks : tasks[i] \in Task
      /\ iflag /\ iflag' = iflag
  BY DEF SemInv, TypeOK, DoTimer
<1>1. UNCHANGED <<pc, at, me, pick, wq>>
  BY DEF semvars
<1>2. \/ current' = Base /\ UNCHANGED <<state, cpu>>
      \/ \E v \in Task : /\ state[v] = TS_RUNABLE /\ current' = v /\ cpu' = v
                         /\ state' = [state EXCEPT ![Base] = TS_RUNABLE, ![v] = TS_RUNNING]
  <2>1. CASE NoSwitch
    BY <2>1 DEF NoSwitch
  <2>2. ASSUME NEW i \in DOMAIN tasks, Picked(i, priority'), SwitchTo(tasks[i])
        PROVE  \E v \in Task : /\ state[v] = TS_RUNABLE /\ current' = v /\ cpu' = v
                               /\ state' = [state EXCEPT ![Base] = TS_RUNABLE, ![v] = TS_RUNNING]
    BY <1>0, <2>2 DEF Picked, Candidate, SwitchTo
  <2> QED
    BY <2>1, <2>2 DEF DoTimer, Scheduler
<1>3. \A v \in Task : v # TASK0 /\ state[v] = TS_SLEEP => state'[v] = TS_SLEEP
  BY <1>0, <1>2 DEF Base, TS_SLEEP, TS_RUNABLE
<1>4. \A v \in Task : state'[v] = TS_SLEEP => state[v] = TS_SLEEP
  BY <1>0, <1>2 DEF TS_SLEEP, TS_RUNABLE, TS_RUNNING
<1>5. Asleep' /\ Once' /\ Entering'
  <2>1. \A v, s, i : Queued(v, s, i)' <=> Queued(v, s, i)
    BY <1>1, SameQueued
  <2>2. \A v \in Task, s \in Sems, i \in Nat : Queued(v, s, i)' => Queued(v, s, i + Zeros[s])
    BY <2>1, ZerosFacts
  <2>3. Jumped \subseteq Jumped' /\ Zeros \in [Sems -> 0 .. 1]
    BY <1>1, ZerosFacts DEF Jumped
  <2>4. \A q \in Client : pc'[q] = "enqueue" /\ me'[q] # TASK0 => pc[q] = "enqueue" /\ me[q] = me'[q]
    BY <1>1
  <2> QED
    BY <1>3, <2>2, <2>3, <2>4, CalmStep
<1>6. Marking'
  BY <1>1, <1>4 DEF SleepInv, Marking, Client
<1>7. Known'
  BY <1>1 DEF SleepInv, Known
<1>8. Running'
  BY <1>1, <1>2 DEF SleepInv, Running, Base
<1>9. Awake'
  BY <1>0, <1>1, <1>2 DEF Awake, Base, TS_SLEEP, TS_RUNNING
<1>10. BeforeSti'
  BY <1>0 DEF BeforeSti
<1> QED
  BY <1>5, <1>6, <1>7, <1>8, <1>9, <1>10 DEF SleepInv

\* Until sti nobody waits.
LEMMA BootStep == ASSUME SemInv, SleepInv, ~iflag, Create \/ Sti, UNCHANGED semvars PROVE SleepInv'
<1>1. UNCHANGED <<pc, me, pick, wq, current, cpu>>
  BY DEF semvars, Create, NewTask, PublishTask, Sti
<1>2. /\ \A s \in Sems : wq'[s] = <<>>
      /\ \A p \in Client : pc'[p] = "call"
  BY <1>1 DEF SleepInv, BeforeSti
<1>3. \A v, s, i : s \in Sems => ~Queued(v, s, i)'
  BY <1>2 DEF Queued
<1>4. Asleep' /\ Once' /\ Entering' /\ Marking' /\ Known' /\ Awake' /\ BeforeSti'
  BY <1>2, <1>3 DEF Asleep, Once, Entering, Marking, Known, Awake, BeforeSti
<1>5. Running'
  BY <1>1 DEF SleepInv, Running
<1> QED
  BY <1>4, <1>5 DEF SleepInv

LEMMA SleepInvNext == SemInv /\ SleepInv /\ [SemNext]_allvars => SleepInv'
<1> SUFFICES ASSUME SemInv, SleepInv, [SemNext]_allvars PROVE SleepInv'
  OBVIOUS
<1>1. CASE Boot
  BY <1>1, BootStep DEF Boot
<1>2. CASE Tick
  BY <1>2, TickStep DEF Tick
<1>3. ASSUME NEW p \in Client, TaskStep(p) PROVE SleepInv'
  <2>1. BeforeSti'
    BY <1>3, OwnStep DEF BeforeSti
  <2> QED
    BY <1>3, <2>1, ItemsStep, MarkingStep, KnownStep, RunningStep, AwakeStep DEF SleepInv
<1>4. CASE UNCHANGED allvars
  <2>1. UNCHANGED <<state, current, cpu, iflag, pc, at, me, pick, wq>>
    BY <1>4 DEF allvars, vars, semvars
  <2>2. \A v, s, i : Queued(v, s, i)' <=> Queued(v, s, i)
    BY <2>1, SameQueued
  <2>3. Jumped' = Jumped
    BY <2>1 DEF Jumped
  <2>4. Asleep' /\ Once' /\ Entering'
    BY <2>1, <2>2, <2>3 DEF SleepInv, Asleep, Once, Entering, Plain
  <2> QED
    BY <2>1, <2>4 DEF SleepInv, Marking, Known, Running, Awake, BeforeSti
<1> QED
  BY <1>1, <1>2, <1>3, <1>4 DEF SemNext

----------------------------------------------------------------------------
(* The theorems *)

\* Wherever ticks fall in sem_wait and sem_post, and whether or not kmalloc
\* finds memory: every variable keeps its type, the locals of the tasks and
\* the items of the queues included.
THEOREM SemTyped == SemSpec => []SemTypeOK
<1>1. SemInv => SemTypeOK
  BY DEF SemInv
<1> QED
  BY <1>1, SemInvInit, SemInvNext, PTL DEF SemSpec

\* The mutex of a semaphore is held exactly by the one task that is between
\* its mutex_lock and its mutex_unlock.
THEOREM MutexExclusive == SemSpec => []MutexHeld
<1>1. SemInv => MutexHeld
  BY DEF SemInv
<1> QED
  BY <1>1, SemInvInit, SemInvNext, PTL DEF SemSpec

\* sem_wait lowers the count before it queues its task and sem_post raises it
\* before it takes one off: the queue never has more items than the count says
\* there are waiters.
THEOREM NoPostInVain == SemSpec => []QueueWithinCount
<1>1. SemInv => QueueWithinCount
  BY DEF SemInv, WithinAllowed, Waiters, QueueWithinCount
<1> QED
  BY <1>1, SemInvInit, SemInvNext, PTL DEF SemSpec

\* For any tasks, semaphores and loops of calls: a queued task is asleep until
\* the sem_post that takes it off, unless it is TASK0 or one that a call of
\* scheduler() has made current in place of a task that cannot jump to it.
THEOREM SleepersQueued == SemSpec => []QueuedSleeps
BY SemInvInit, SemInvNext, SleepInvInit, SleepInvNext, SleepInvImplies, PTL DEF SemSpec
=============================================================================
