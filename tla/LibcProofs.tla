------------------------------ MODULE LibcProofs ------------------------------
(***************************************************************************)
(* What the runs of MCLibc check of qsort, bsearch and the copying         *)
(* functions, for arrays and memories of any size, and the arithmetic      *)
(* under mktime for every year.                                            *)
(***************************************************************************)
EXTENDS Sorting, Copying, Calendar, TLAPS

----------------------------------------------------------------------------
(* Copying *)

CopyTypeOK ==
  /\ src \in Address /\ dest \in Address /\ size \in Nat
  /\ src + size <= Top + 1 /\ dest + size <= Top + 1
  /\ fn \in {"bcopy", "memmove", "memcpy"}
  /\ left \in 0..size /\ running \in BOOLEAN
  /\ ~running => left = 0

\* The part of the destination that has been written.
Written == IF fn = "bcopy" /\ Backwards THEN (dest + left)..(dest + size - 1)
                                        ELSE dest..(dest + size - left - 1)

\* That part holds the source as it was, the rest of the memory is untouched.
PartlyCopied ==
  Usable => memory = [a \in Address |-> IF a \in Written THEN before[a - dest + src] ELSE before[a]]

CopyInv == CopyTypeOK /\ PartlyCopied

LEMMA CopyInvInit == CopyInit => CopyInv
<1> SUFFICES ASSUME CopyInit PROVE CopyInv
  OBVIOUS
<1> USE CopyingAssumption
<1>1. CopyTypeOK
  BY DEF CopyInit, CopyTypeOK, Address
<1>2. Written = {}
  BY DEF CopyInit, Written, Address
<1>3. PartlyCopied
  BY <1>2 DEF CopyInit, PartlyCopied
<1> QED
  BY <1>1, <1>3 DEF CopyInv

\* A step from the front is right when it reads nothing already overwritten.
LEMMA ForwardStep ==
  ASSUME CopyInv, running, NEW w \in 1..left, Advance(Front, w),
         fn = "bcopy" => ~Backwards
  PROVE  CopyInv'
<1> USE CopyingAssumption
<1>1. CopyTypeOK'
  BY DEF CopyInv, CopyTypeOK, Advance, Address, call
<1>2. ASSUME Usable' PROVE PartlyCopied'
  <2>1. Usable /\ (dest <= src \/ src + size <= dest)
    BY <1>2 DEF Usable, Advance, call, Backwards, CopyInv, CopyTypeOK, Address
  <2>2. Written = dest..(dest + Front - 1) /\ Written' = dest..(dest + Front + w - 1)
    BY DEF Written, Advance, call, Front, Backwards, CopyInv, CopyTypeOK, Address
  <2>3. ASSUME NEW a \in Address
        PROVE  memory'[a] = IF a \in Written' THEN before[a - dest + src] ELSE before[a]
    <3>1. memory[a] = IF a \in Written THEN before[a - dest + src] ELSE before[a]
      BY <2>1 DEF CopyInv, PartlyCopied
    <3>2. CASE a \in (dest + Front)..(dest + Front + w - 1)
      <4>1. a - dest + src \in Address /\ a - dest + src \notin Written /\ a \in Written'
        BY <2>1, <2>2, <3>2 DEF CopyInv, CopyTypeOK, Address, Front
      <4>2. memory[a - dest + src] = before[a - dest + src]
        BY <2>1, <4>1 DEF CopyInv, PartlyCopied
      <4> QED
        BY <3>2, <4>1, <4>2 DEF Advance, Moved
    <3>3. CASE a \notin (dest + Front)..(dest + Front + w - 1)
      <4>1. a \in Written' <=> a \in Written
        BY <2>2, <3>3 DEF CopyInv, CopyTypeOK, Address, Front
      <4> QED
        BY <3>1, <3>3, <4>1 DEF Advance, Moved
    <3> QED
      BY <3>2, <3>3
  <2>4. memory' = [a \in Address |-> memory'[a]] /\ before' = before /\ dest' = dest /\ src' = src
    BY DEF Advance, Moved, call
  <2> QED
    BY <2>3, <2>4 DEF PartlyCopied
<1> QED
  BY <1>1, <1>2 DEF CopyInv, PartlyCopied

\* So is a step of bcopy from the end.
LEMMA BackwardStep ==
  ASSUME CopyInv, running, left > 0, Advance(left - 1, 1), fn = "bcopy", Backwards
  PROVE  CopyInv'
<1> USE CopyingAssumption
<1>1. CopyTypeOK'
  BY DEF CopyInv, CopyTypeOK, Advance, Address, call
<1>2. Usable
  BY DEF Usable
<1>3. Written = (dest + left)..(dest + size - 1) /\ Written' = (dest + left - 1)..(dest + size - 1)
  BY DEF Written, Advance, call, Backwards, CopyInv, CopyTypeOK, Address
<1>4. ASSUME NEW a \in Address
      PROVE  memory'[a] = IF a \in Written' THEN before[a - dest + src] ELSE before[a]
  <2>1. memory[a] = IF a \in Written THEN before[a - dest + src] ELSE before[a]
    BY <1>2 DEF CopyInv, PartlyCopied
  <2>2. CASE a = dest + left - 1
    <3>1. a - dest + src \in Address /\ a - dest + src \notin Written /\ a \in Written'
      BY <1>3, <2>2 DEF CopyInv, CopyTypeOK, Address, Backwards
    <3>2. memory[a - dest + src] = before[a - dest + src]
      BY <1>2, <3>1 DEF CopyInv, PartlyCopied
    <3>3. a \in (dest + (left - 1))..(dest + (left - 1) + 1 - 1)
      BY <2>2 DEF CopyInv, CopyTypeOK, Address
    <3> QED
      BY <3>1, <3>2, <3>3 DEF Advance, Moved
  <2>3. CASE a # dest + left - 1
    <3>1. (a \in Written' <=> a \in Written) /\ a \notin (dest + (left - 1))..(dest + (left - 1) + 1 - 1)
      BY <1>3, <2>3 DEF CopyInv, CopyTypeOK, Address
    <3> QED
      BY <2>1, <3>1 DEF Advance, Moved
  <2> QED
    BY <2>2, <2>3
<1>5. memory' = [a \in Address |-> memory'[a]] /\ before' = before /\ dest' = dest /\ src' = src
  BY DEF Advance, Moved, call
<1>6. PartlyCopied'
  BY <1>4, <1>5 DEF PartlyCopied
<1> QED
  BY <1>1, <1>6 DEF CopyInv

LEMMA CopyInvNext == CopyInv /\ [CopyNext]_copyvars => CopyInv'
<1> SUFFICES ASSUME CopyInv, [CopyNext]_copyvars PROVE CopyInv'
  OBVIOUS
<1> USE CopyingAssumption
<1>0. left \in Nat /\ size \in Nat /\ left <= size
  BY DEF CopyInv, CopyTypeOK
<1>1. CASE bcopy
  <2>1. CASE Backwards
    BY <1>1, <2>1, BackwardStep DEF bcopy
  <2>2. CASE ~Backwards
    BY <1>0, <1>1, <2>2, ForwardStep DEF bcopy
  <2> QED
    BY <2>1, <2>2
<1>2. CASE memmove
  BY <1>0, <1>2, ForwardStep DEF memmove
<1>3. CASE memcpy
  BY <1>0, <1>3, ForwardStep DEF memcpy
<1>4. CASE Return
  BY <1>4 DEF Return, CopyInv, CopyTypeOK, PartlyCopied, Written, Usable, Backwards, call
<1>5. CASE UNCHANGED copyvars
  BY <1>5 DEF copyvars, CopyInv, CopyTypeOK, PartlyCopied, Written, Usable, Backwards, call
<1> QED
  BY <1>1, <1>2, <1>3, <1>4, <1>5 DEF CopyNext

\* bcopy copies whatever the overlap, memcpy and memmove when the destination
\* does not begin inside the source (libcc.c, string.c).
THEOREM CopyCorrect == CopySpec => []CopiesRight
<1>1. CopyInv => CopiesRight
  <2> SUFFICES ASSUME CopyInv, ~running, Usable PROVE memory = Copied
    BY DEF CopiesRight
  <2>1. Written = dest..(dest + size - 1)
    BY CopyingAssumption DEF CopyInv, CopyTypeOK, Written, Address
  <2> QED
    BY <2>1 DEF CopyInv, PartlyCopied, Copied
<1> QED
  BY <1>1, CopyInvInit, CopyInvNext, PTL DEF CopySpec

----------------------------------------------------------------------------
(* Sorting *)

SortTypeOK ==
  /\ n \in 0..MaxN
  /\ given \in [Index -> Keys] /\ base \in [Index -> Keys]
  /\ pc \in {"outer", "inner", "sorted", "search", "found"}
  /\ i \in Nat /\ j \in Nat /\ swap \in Nat
  /\ key \in Keys
  /\ top \in Int /\ bottom \in Int /\ found \in Int

\* `base' is `given' in another order.
Reordered == \E p \in [Index -> Index] : IsPermutation(p) /\ \A x \in Index : base[x] = given[p[x]]

\* The first i elements are in their places.
InPlace == \A x, y \in Index : (x < i /\ x <= y) => base[x] <= base[y]

OuterInv == pc = "outer" => (n > 0 => i <= n - 1) /\ InPlace

\* swap is the least of the elements from i to j - 1.
InnerInv ==
  pc = "inner" =>
    /\ InPlace
    /\ n = 0 => swap = i
    /\ n > 0 => /\ i < n - 1 /\ j \in (i + 1)..n /\ swap \in i..(j - 1)
                /\ \A y \in i..(j - 1) : base[swap] <= base[y]

SortedInv == pc \in {"sorted", "search", "found"} => Ascending(base)

\* If the key is there at all, it is between top and bottom.
SearchInv ==
  pc = "search" =>
    /\ n < 2 => top = 0 /\ bottom = n - 1
    /\ n >= 2 => /\ top \in Index /\ bottom \in Index /\ top < bottom
                 /\ \A x \in Index : base[x] = key => x \in top..bottom

SortInv ==
  /\ SortTypeOK /\ Reordered /\ OuterInv /\ InnerInv /\ SortedInv /\ SearchInv
  /\ Finds

LEMMA RoundsValue == SortTypeOK => IF n = 0 THEN Rounds \in Nat ELSE Rounds = n - 1
<1> SUFFICES ASSUME SortTypeOK PROVE IF n = 0 THEN Rounds \in Nat ELSE Rounds = n - 1
  OBVIOUS
<1>1. n - 1 \in Int /\ M \in Nat /\ M > 0 /\ n - 1 < M
  BY SortingAssumption DEF SortTypeOK
<1>2. \A a \in Int : a % M \in Nat /\ (a >= 0 /\ a < M => a % M = a)
  BY <1>1
<1> QED
  BY <1>1, <1>2 DEF Rounds, SortTypeOK

LEMMA SortInvInit == SortInit => SortInv
<1> SUFFICES ASSUME SortInit PROVE SortInv
  OBVIOUS
<1>1. SortTypeOK
  BY DEF SortInit, SortTypeOK, NULL
<1>2. Reordered
  <2> DEFINE p == [x \in Index |-> x]
  <2>1. p \in [Index -> Index] /\ IsPermutation(p) /\ \A x \in Index : base[x] = given[p[x]]
    BY DEF SortInit, IsPermutation
  <2> QED
    BY <2>1 DEF Reordered
<1>3. InPlace
  BY DEF SortInit, InPlace, Index
<1> QED
  BY <1>1, <1>2, <1>3 DEF SortInit, SortInv, OuterInv, InnerInv, SortedInv, SearchInv, Finds, SortTypeOK

LEMMA OuterStep == SortInv /\ Outer => SortInv'
<1> SUFFICES ASSUME SortInv, Outer PROVE SortInv'
  OBVIOUS
<1> USE DEF array, bsearch, Index
<1>1. SortTypeOK'
  BY DEF SortInv, SortTypeOK, Outer
<1>2. Reordered'
  BY DEF SortInv, Reordered, Outer, IsPermutation
<1>3. InPlace'
  BY DEF SortInv, OuterInv, InPlace, Outer
<1>4. InnerInv'
  <2> SUFFICES ASSUME pc' = "inner" PROVE InnerInv'
    BY DEF InnerInv
  <2>1. i < Rounds /\ swap' = i /\ j' = i + 1 /\ i' = i /\ n' = n /\ base' = base
    BY DEF Outer
  <2>2. n > 0 => i < n - 1
    BY <2>1, RoundsValue DEF SortInv, SortTypeOK
  <2>3. n > 0 => \A y \in i..(j' - 1) : base[swap'] <= base[y]
    <3> SUFFICES ASSUME n > 0 PROVE base[i] <= base[i]
      BY <2>1 DEF SortInv, SortTypeOK
    <3>1. i \in Index
      BY <2>2 DEF SortInv, SortTypeOK
    <3>2. base[i] \in Int
      BY <3>1, SortingAssumption DEF SortInv, SortTypeOK
    <3> QED
      BY <3>2
  <2> QED
    BY <1>3, <2>1, <2>2, <2>3 DEF InnerInv, SortInv, SortTypeOK
<1>5. SortedInv'
  <2> SUFFICES ASSUME pc' = "sorted" PROVE Ascending(base)'
    BY DEF SortedInv, Outer
  <2>1. ~(i < Rounds) /\ base' = base /\ n' = n /\ InPlace
    BY DEF Outer, SortInv, OuterInv
  <2>2. n > 0 => i = n - 1
    BY <2>1, RoundsValue DEF SortInv, OuterInv, SortTypeOK, Outer
  <2>3. ASSUME NEW x \in Index, NEW y \in Index, x <= y PROVE base[x] <= base[y]
    <3>1. CASE x < i
      BY <2>1, <2>3, <3>1 DEF InPlace
    <3>2. CASE ~(x < i)
      <4>1. x = y
        BY <2>2, <2>3, <3>2 DEF SortInv, SortTypeOK
      <4>2. base[x] \in Int
        BY SortingAssumption DEF SortInv, SortTypeOK
      <4> QED
        BY <4>1, <4>2
    <3> QED
      BY <3>1, <3>2
  <2> QED
    BY <2>1, <2>3 DEF Ascending
<1> QED
  BY <1>1, <1>2, <1>3, <1>4, <1>5 DEF SortInv, OuterInv, SearchInv, Finds, Outer

LEMMA InnerStep == SortInv /\ Inner => SortInv'
<1> SUFFICES ASSUME SortInv, Inner PROVE SortInv'
  OBVIOUS
<1> USE DEF array, bsearch, Index
<1>0. j < n /\ n > 0 /\ i < n - 1 /\ j \in (i + 1)..n /\ swap \in i..(j - 1) /\ i \in Nat /\ n \in Nat
  BY SortingAssumption DEF SortInv, InnerInv, Inner, Inside, SortTypeOK
<1>1. SortTypeOK'
  BY DEF SortInv, SortTypeOK, Inner
<1>2. Reordered'
  BY DEF SortInv, Reordered, Inner, IsPermutation
<1>3. InPlace'
  BY DEF SortInv, InnerInv, InPlace, Inner
<1>4. InnerInv'
  <2>1. swap' \in i..j /\ j' = j + 1 /\ i' = i /\ n' = n /\ base' = base
    BY <1>0 DEF Inner
  <2>2. \A x \in Index : base[x] \in Int
    BY SortingAssumption DEF SortInv, SortTypeOK
  <2>3. ASSUME NEW y \in i..j PROVE base[swap'] <= base[y]
    <3>1. y \in Index /\ swap \in Index /\ j \in Index /\ base[y] \in Int /\ base[swap] \in Int /\ base[j] \in Int
      BY <1>0, <2>2
    <3>2. y < j => base[swap] <= base[y]
      BY <1>0 DEF SortInv, InnerInv, Inner
    <3> QED
      BY <1>0, <3>1, <3>2 DEF Inner
  <2> QED
    BY <1>0, <1>3, <2>1, <2>3 DEF InnerInv, Inner
<1> QED
  BY <1>1, <1>2, <1>3, <1>4 DEF SortInv, OuterInv, SortedInv, SearchInv, Finds, Inner

LEMMA ExchangeStep == SortInv /\ Exchange => SortInv'
<1> SUFFICES ASSUME SortInv, Exchange PROVE SortInv'
  OBVIOUS
<1> USE DEF bsearch
<1>0. n' = n /\ given' = given /\ i' = i + 1 /\ pc' = "outer" /\ Index' = Index /\ i \in Nat /\ n \in Nat
  BY DEF Exchange, SortInv, SortTypeOK, Index
<1>u. UNCHANGED <<j, swap, key, top, bottom, found>>
  BY DEF Exchange
<1>1. CASE n = 0
  <2>1. base' = base
    BY <1>1 DEF SortInv, InnerInv, Exchange
  <2>2. SortTypeOK'
    BY <1>0, <1>u, <2>1 DEF SortInv, SortTypeOK
  <2>3. Reordered'
    BY <1>0, <2>1 DEF SortInv, Reordered, IsPermutation
  <2>4. InPlace'
    BY <1>0, <1>1 DEF InPlace, Index
  <2> QED
    BY <1>0, <1>1, <2>2, <2>3, <2>4 DEF SortInv, OuterInv, InnerInv, SortedInv, SearchInv, Finds
<1>2. CASE n # 0
  <2>1. /\ j = n /\ i < n - 1 /\ i \in Index /\ swap \in Index /\ i <= swap
        /\ \A y \in Index : i <= y => base[swap] <= base[y]
    BY <1>0, <1>2 DEF SortInv, InnerInv, Exchange, Inside, Index
  <2>2. /\ base \in [Index -> Keys]
        /\ \A x \in Index : base[x] \in Int
    BY SortingAssumption DEF SortInv, SortTypeOK
  <2>3. base' = [base EXCEPT ![i] = base[swap], ![swap] = base[i]]
    BY <2>1, <2>2 DEF Exchange
  <2>4. SortTypeOK'
    BY <1>0, <2>1, <2>2, <2>3 DEF SortInv, SortTypeOK, Exchange
  <2>5. Reordered'
    <3>1. PICK p \in [Index -> Index] : IsPermutation(p) /\ \A x \in Index : base[x] = given[p[x]]
      BY DEF SortInv, Reordered
    <3> DEFINE q == [x \in Index |-> IF x = swap THEN p[i] ELSE IF x = i THEN p[swap] ELSE p[x]]
    <3>2. q \in [Index -> Index]
      BY <2>1
    <3>3. ASSUME NEW y \in Index PROVE \E x \in Index : q[x] = y
      <4>1. PICK x \in Index : p[x] = y
        BY <3>1 DEF IsPermutation
      <4> QED
        BY <2>1, <4>1
    <3>4. \A x \in Index : base'[x] = given[q[x]]
      BY <2>1, <2>2, <2>3, <3>1
    <3>5. \E r : /\ r \in [Index -> Index]
                 /\ \A y \in Index : \E x \in Index : r[x] = y
                 /\ \A x \in Index : base'[x] = given[r[x]]
      <4> HIDE DEF q
      <4> QED
        BY <3>2, <3>3, <3>4
    <3>6. \E r \in [Index -> Index] : /\ \A y \in Index : \E x \in Index : r[x] = y
                                     /\ \A x \in Index : base'[x] = given[r[x]]
      BY <3>5
    <3> QED
      BY <1>0, <3>6 DEF Reordered, IsPermutation
  <2>6. InPlace'
    <3> SUFFICES ASSUME NEW x \in Index, NEW y \in Index, x < i + 1, x <= y PROVE base'[x] <= base'[y]
      BY <1>0 DEF InPlace
    <3>1. \A z \in Index : base'[z] = IF z = swap THEN base[i] ELSE IF z = i THEN base[swap] ELSE base[z]
      BY <2>1, <2>2, <2>3
    <3>2. x \in Int /\ y \in Int /\ swap \in Int
      BY <2>1 DEF Index
    <3>3. \A u, v \in Index : (u < i /\ u <= v) => base[u] <= base[v]
      BY DEF SortInv, InnerInv, InPlace, Exchange
    <3>4. CASE x < i
      BY <1>0, <2>1, <3>1, <3>2, <3>3, <3>4
    <3>5. CASE x = i
      BY <1>0, <2>1, <2>2, <3>1, <3>2, <3>5
    <3> QED
      BY <1>0, <3>2, <3>4, <3>5
  <2> QED
    BY <1>0, <2>1, <2>4, <2>5, <2>6 DEF SortInv, OuterInv, InnerInv, SortedInv, SearchInv, Finds
<1> QED
  BY <1>1, <1>2

LEMMA SearchStep == ASSUME SortInv, NEW k \in Keys, Search(k) PROVE SortInv'
<1> USE DEF array, qsort, Index
<1>1. SortTypeOK'
  BY DEF SortInv, SortTypeOK, Search
<1>2. Reordered'
  BY DEF SortInv, Reordered, Search, IsPermutation
<1>3. SortedInv'
  BY DEF SortInv, SortedInv, Search, Ascending
<1>4. SearchInv'
  BY DEF SortInv, SortTypeOK, SearchInv, Search
<1> QED
  BY <1>1, <1>2, <1>3, <1>4 DEF SortInv, OuterInv, InnerInv, Finds, Search

LEMMA ProbeStep == SortInv /\ Probe => SortInv'
<1> SUFFICES ASSUME SortInv, Probe PROVE SortInv'
  OBVIOUS
<1> USE DEF array, qsort
<1>0. /\ n' = n /\ base' = base /\ given' = given /\ key' = key /\ Index' = Index /\ n \in Nat
      /\ pc = "search" /\ pc' \in {"search", "found"} /\ i' = i /\ j' = j /\ swap' = swap
  BY DEF Probe, Found, Halve, Index, SortInv, SortTypeOK
<1>1. Reordered' /\ SortedInv' /\ OuterInv' /\ InnerInv'
  BY <1>0 DEF SortInv, Reordered, IsPermutation, SortedInv, Ascending, OuterInv, InnerInv
<1>2. /\ \A x \in Index : base[x] \in Int
      /\ key \in Int /\ top \in Int /\ bottom \in Int
  BY SortingAssumption DEF SortInv, SortTypeOK
<1>3. CASE n < 2
  <2>1. Found(NULL)
    BY <1>0, <1>3 DEF SortInv, SearchInv, Probe
  <2> QED
    BY <1>0, <1>1, <1>3, <2>1 DEF SortInv, SortTypeOK, SearchInv, Finds, Found, NULL, Index
<1>4. CASE n >= 2
  <2>1. /\ top \in Index /\ bottom \in Index /\ top < bottom
        /\ \A x \in Index : base[x] = key => x \in top..bottom
        /\ Ascending(base)
    BY <1>0, <1>4 DEF SortInv, SearchInv, SortedInv
  <2>2. Middle \in Index /\ top <= Middle /\ Middle < bottom
    BY <1>0, <2>1 DEF Middle, Index
  <2>3. CASE AtEnd
    <3>1. bottom = top + 1
      BY <1>2, <2>1, <2>2, <2>3 DEF AtEnd, Middle
    <3>2. Found(IF base[top] = key THEN top ELSE IF base[bottom] = key THEN bottom ELSE NULL)
      BY <1>2, <2>1, <2>3 DEF Probe
    <3>3. \A x \in Index : base[x] = key => x = top \/ x = bottom
      BY <1>2, <2>1, <3>1 DEF Index
    <3>4. Finds' /\ found' \in Int
      BY <1>0, <2>1, <3>2, <3>3 DEF Finds, Found, NULL, Index
    <3> QED
      BY <1>0, <1>1, <3>2, <3>4 DEF SortInv, SortTypeOK, SearchInv, Found
  <2>4. CASE ~AtEnd /\ base[Middle] = key
    <3>1. Found(Middle)
      BY <1>2, <2>1, <2>4 DEF Probe
    <3>2. Finds' /\ found' \in Int
      BY <1>0, <2>2, <2>4, <3>1 DEF Finds, Found, NULL, Index
    <3> QED
      BY <1>0, <1>1, <3>1, <3>2 DEF SortInv, SortTypeOK, SearchInv, Found
  <2>5. CASE ~AtEnd /\ base[Middle] # key
    <3>1. Halve /\ top < Middle
      BY <1>2, <2>1, <2>2, <2>5 DEF Probe, AtEnd, Index
    <3>2. /\ top' \in Index /\ bottom' \in Index /\ top' < bottom' /\ found' = found
          /\ \A x \in Index : base[x] = key => x \in top'..bottom'
      <4>1. ASSUME NEW x \in Index, base[x] = key PROVE x \in top'..bottom'
        <5>1. x \in top..bottom /\ x \in Int
          BY <2>1, <4>1 DEF Index
        <5>2. CASE key < base[Middle]
          <6>1. ~(Middle <= x)
            BY <1>2, <2>1, <2>2, <4>1, <5>2 DEF Ascending
          <6> QED
            BY <2>2, <3>1, <5>1, <5>2, <6>1 DEF Halve, Below, Index
        <5>3. CASE ~(key < base[Middle])
          <6>1. ~(x <= Middle)
            BY <1>2, <2>1, <2>2, <2>5, <4>1, <5>3 DEF Ascending
          <6> QED
            BY <2>2, <3>1, <5>1, <5>3, <6>1 DEF Halve, Index
        <5> QED
          BY <5>2, <5>3
      <4> QED
        BY <2>1, <2>2, <3>1, <4>1 DEF Halve, Below
    <3> QED
      BY <1>0, <1>1, <1>4, <3>1, <3>2 DEF SortInv, SortTypeOK, SearchInv, Finds, Halve, Index
  <2> QED
    BY <2>3, <2>4, <2>5
<1> QED
  BY <1>0, <1>3, <1>4

LEMMA SortInvNext == SortInv /\ [SortNext]_sortvars => SortInv'
<1> SUFFICES ASSUME SortInv, [SortNext]_sortvars PROVE SortInv'
  OBVIOUS
<1>1. CASE SortNext
  BY <1>1, OuterStep, InnerStep, ExchangeStep, SearchStep, ProbeStep DEF SortNext
<1>2. CASE UNCHANGED sortvars
  BY <1>2 DEF sortvars, array, qsort, bsearch, SortInv, SortTypeOK, Reordered, IsPermutation, OuterInv,
              InnerInv, InPlace, SortedInv, Ascending, SearchInv, Finds, Index
<1> QED
  BY <1>1, <1>2

\* When qsort is done, the array is in ascending order and holds what it held,
\* for every array (stdlib.c).
THEOREM QsortSorts == SortSpec => []Sorts
<1>1. SortInv => Sorts
  BY DEF SortInv, Sorts, SortedInv, Reordered
<1> QED
  BY <1>1, SortInvInit, SortInvNext, PTL DEF SortSpec

\* bsearch finds a key in a sorted array exactly if it is there (stdlib.c).
THEOREM BsearchFinds == SortSpec => []Finds
<1>1. SortInv => Finds
  BY DEF SortInv
<1> QED
  BY <1>1, SortInvInit, SortInvNext, PTL DEF SortSpec

----------------------------------------------------------------------------
(* Leap years and months *)

\* The corrected division counts exactly the multiples.
LEMMA EveryFourth == \A y \in Int : Multiples(y, 4) = (y - 1) \div 4 - 492
BY DEF Multiples, EPOCH_YR

LEMMA EveryHundredth == \A y \in Int : Multiples(y, 100) = (y - 1) \div 100 - 19
BY DEF Multiples, EPOCH_YR

LEMMA EveryFourHundredth == \A y \in Int : Multiples(y, 400) = (y - 1) \div 400 - 4
BY DEF Multiples, EPOCH_YR

LEMMA DaysToClosed ==
  \A y \in Int :
    DaysTo(y) = 365 * (y - 1970) + ((y - 1) \div 4) - ((y - 1) \div 100) + ((y - 1) \div 400) - 477
BY EveryFourth, EveryHundredth, EveryFourHundredth DEF DaysTo, EPOCH_YR

LEMMA YearCounted ==
  ASSUME NEW y \in Int
  PROVE  DaysTo(y) \in Int /\ DaysTo(y + 1) = DaysTo(y) + YEARSIZE(y)
<1>1. DaysTo(y) = 365 * (y - 1970) + ((y - 1) \div 4) - ((y - 1) \div 100) + ((y - 1) \div 400) - 477
  BY DaysToClosed
<1>2. DaysTo(y + 1) = 365 * (y + 1 - 1970) + (y \div 4) - (y \div 100) + (y \div 400) - 477
  BY DaysToClosed
<1>3. (y % 400 = 0 => y % 100 = 0) /\ (y % 100 = 0 => y % 4 = 0)
  OBVIOUS
<1>4. y \div 4 = ((y - 1) \div 4) + (IF y % 4 = 0 THEN 1 ELSE 0)
  OBVIOUS
<1>5. y \div 100 = ((y - 1) \div 100) + (IF y % 100 = 0 THEN 1 ELSE 0)
  OBVIOUS
<1>6. y \div 400 = ((y - 1) \div 400) + (IF y % 400 = 0 THEN 1 ELSE 0)
  OBVIOUS
<1> QED
  BY <1>1, <1>2, <1>3, <1>4, <1>5, <1>6 DEF YEARSIZE, LEAPYEAR

\* mktime counts the leap days by division, gmtime_r year by year: in every year
\* the count of mktime grows by what gmtime_r takes off, so the two agree on the
\* first day of each of them (also in 2000, 2100 and 2400).
THEOREM LeapDaysCounted ==
  /\ DaysTo(EPOCH_YR) = 0
  /\ \A y \in Int : DaysTo(y + 1) = DaysTo(y) + YEARSIZE(y)
<1>1. DaysTo(EPOCH_YR) = 0
  BY DEF DaysTo, Multiples, EPOCH_YR
<1> QED
  BY <1>1, YearCounted

\* However far a field of a struct tm lies out of its range, above it or below
\* zero, mktime carries it over without a loss and leaves it in its range.
THEOREM FieldsCarried ==
  ASSUME NEW a \in Int, NEW b \in Nat \ {0}
  PROVE  /\ Carry(a, b)[1] \in Int /\ Carry(a, b)[2] \in 0 .. b - 1
         /\ a = b * Carry(a, b)[1] + Carry(a, b)[2]
BY DEF Carry, Quot, Rem

\* Years do not overlap.
LEMMA YearsInOrder ==
  ASSUME NEW y \in Int, NEW z \in Int, y < z
  PROVE  DaysTo(y) + YEARSIZE(y) <= DaysTo(z)
<1>1. DaysTo(y + 1) = 365 * (y + 1 - 1970) + (y \div 4) - (y \div 100) + (y \div 400) - 477
  BY DaysToClosed
<1>2. DaysTo(z) = 365 * (z - 1970) + ((z - 1) \div 4) - ((z - 1) \div 100) + ((z - 1) \div 400) - 477
  BY DaysToClosed
<1>3. y \div 4 <= (z - 1) \div 4 /\ y \div 400 <= (z - 1) \div 400
  OBVIOUS
<1>4. ((z - 1) \div 100) - (y \div 100) <= z - 1 - y
  OBVIOUS
<1>5. DaysTo(y + 1) <= DaysTo(z)
  BY <1>1, <1>2, <1>3, <1>4
<1> QED
  BY <1>5, YearCounted

LEMMA TableAgrees ==
  ASSUME NEW y, NEW m \in 0 .. 11
  PROVE  /\ _ytab(y)[m + 1] \in Int /\ 28 <= _ytab(y)[m + 1]
         /\ Before(y, m) \in Int /\ 0 <= Before(y, m)
         /\ Before(y, m + 1) = Before(y, m) + _ytab(y)[m + 1]
         /\ Before(y, 0) = 0 /\ Before(y, 12) = YEARSIZE(y)
<1>1. m \in {0, 1, 2, 3, 4, 5, 6, 7, 8, 9, 10, 11}
  OBVIOUS
<1> QED
  BY <1>1 DEF Before, _ytab, YEARSIZE

\* Nor do months.
LEMMA MonthsInOrder ==
  ASSUME NEW y, NEW m \in 0 .. 11, NEW k \in 0 .. 12, m < k
  PROVE  Before(y, m) + _ytab(y)[m + 1] <= Before(y, k)
<1>1. m \in {0, 1, 2, 3, 4, 5, 6, 7, 8, 9, 10, 11}
  OBVIOUS
<1>2. k \in {1, 2, 3, 4, 5, 6, 7, 8, 9, 10, 11, 12}
  OBVIOUS
<1> QED
  BY <1>1, <1>2 DEF Before, _ytab

LEMMA MonthIs ==
  ASSUME NEW y, NEW m \in 0 .. 11, NEW k \in 0 .. 11, NEW d \in Int,
         Before(y, m) <= d, d < Before(y, m) + _ytab(y)[m + 1],
         Before(y, k) <= d, d < Before(y, k) + _ytab(y)[k + 1]
  PROVE  m = k
<1>1. ~(m < k)
  BY MonthsInOrder, TableAgrees
<1>2. ~(k < m)
  BY MonthsInOrder, TableAgrees
<1> QED
  BY <1>1, <1>2

LEMMA YearIs ==
  ASSUME NEW y \in Int, NEW z \in Int, NEW d \in Int,
         DaysTo(y) <= d, d < DaysTo(y) + YEARSIZE(y),
         DaysTo(z) <= d, d < DaysTo(z) + YEARSIZE(z)
  PROVE  y = z
<1>1. ~(y < z)
  BY YearsInOrder, YearCounted
<1>2. ~(z < y)
  BY YearsInOrder, YearCounted
<1> QED
  BY <1>1, <1>2
----------------------------------------------------------------------------
Fields == [sec : Int, min : Int, hour : Int, mday : Int, mon : Int, year : Int, yday : Int, wday : Int]
Stages == {"idle", "year", "month", "found", "changed", "carried", "count", "made"}

CalTypeOK ==
  /\ stage \in Stages /\ tm \in Fields /\ date \in Fields
  /\ year \in Int /\ day \in Int /\ month \in Int /\ yday \in Int
  /\ meant \in Int \X Int /\ today \in Nat

MeantDay  == meant[1] + meant[2] \div SECS_DAY
MeantSecs == meant[2] % SECS_DAY

Asked == meant[1] >= 0 /\ meant[2] \in 0 .. SECS_DAY - 1

\* What each loop has left to do, in the terms of the calendar.
YearLoop == stage = "year" =>
  Asked /\ Clock(tm, meant[2]) /\ tm.wday = (meant[1] + 4) % 7
    /\ year >= EPOCH_YR /\ day >= 0 /\ DaysTo(year) + day = meant[1]

MonthLoop == stage = "month" =>
  Asked /\ Clock(tm, meant[2]) /\ tm.wday = (meant[1] + 4) % 7
    /\ year = YEAR0 + tm.year /\ tm.yday < YEARSIZE(year) /\ DaysTo(year) + tm.yday = meant[1]
    /\ tm.mon \in 0 .. 11 /\ day >= 0 /\ Before(year, tm.mon) + day = tm.yday

DateFound == stage = "found" => Asked /\ Clock(tm, meant[2]) /\ Dated(tm, meant[1])

Changed == stage = "changed" =>
  /\ 3600 * tm.hour + 60 * tm.min + tm.sec = meant[2]
  /\ Begins(YEAR0 + tm.year, tm.mon) + tm.mday - 1 = meant[1]

Carried == stage = "carried" =>
  Clock(tm, MeantSecs) /\ tm.mon \in 0 .. 11 /\ FirstDay(YEAR0 + tm.year, tm.mon) + day = MeantDay

Counting == stage = "count" =>
  /\ Clock(tm, MeantSecs) /\ tm.mon \in 0 .. 11 /\ tm.mday \in 1 .. Length(tm)
  /\ tm.year >= EPOCH_YR - YEAR0 /\ FirstDay(YEAR0 + tm.year, tm.mon) + tm.mday - 1 = MeantDay
  /\ month \in 0 .. tm.mon /\ yday = Before(YEAR0 + tm.year, month)

CalInv == CalTypeOK /\ YearLoop /\ MonthLoop /\ DateFound /\ Changed /\ Carried /\ Counting
            /\ MkTimeInverts /\ Dated(date, today)

LEMMA CalInvInit == CalInit => CalInv
<1> SUFFICES ASSUME CalInit PROVE CalInv
  OBVIOUS
<1> USE DEF CalInit
<1>1. CalTypeOK
  BY DEF CalTypeOK, Fields, Stages, Epoch, EPOCH_YR
<1>2. Dated(date, today)
  <2>1. DaysTo(1970) = 0
    BY LeapDaysCounted DEF EPOCH_YR
  <2> QED
    BY <2>1 DEF Dated, Epoch, Before, Length, _ytab, YEAR0
<1> QED
  BY <1>1, <1>2 DEF CalInv, YearLoop, MonthLoop, DateFound, Changed, Carried, Counting, MkTimeInverts

LEMMA GmtimeStep ==
  ASSUME CalInv, NEW d \in Nat, NEW clock \in 0 .. SECS_DAY - 1, Gmtime(d, clock)
  PROVE  CalInv'
<1> DEFINE sec == clock % 60  min == (clock % 3600) \div 60  hour == clock \div 3600  wday == (d + 4) % 7
<1>a. sec \in 0 .. 59 /\ min \in 0 .. 59 /\ hour \in 0 .. 23 /\ wday \in Int
      /\ 3600 * hour + 60 * min + sec = clock
  <2>1. clock \in Int /\ 0 <= clock /\ clock < 86400
    BY SMTT(30) DEF SECS_DAY
  <2>2. sec \in 0 .. 59 /\ min \in 0 .. 59
    BY <2>1
  <2>3. hour \in 0 .. 23
    BY <2>1
  <2>4. 3600 * hour + 60 * min + sec = clock
    BY <2>1
  <2> QED
    BY <2>2, <2>3, <2>4
<1>b. tm' = [tm EXCEPT !.sec = sec, !.min = min, !.hour = hour, !.wday = wday]
  BY DEF Gmtime
<1> HIDE DEF sec, min, hour, wday
<1>1. CalTypeOK'
  <2>1. tm \in Fields /\ sec \in Int /\ min \in Int /\ hour \in Int /\ wday \in Int
    BY <1>a DEF CalInv, CalTypeOK
  <2>2. tm' \in Fields
    BY <1>b, <2>1 DEF Fields
  <2>3. /\ stage' = "year" /\ year' = 1970 /\ day' = d /\ meant' = <<d, clock>>
        /\ UNCHANGED <<month, yday, today, date>>
    BY Zenon DEF Gmtime, EPOCH_YR
  <2>4. clock \in Int
    BY DEF SECS_DAY
  <2> QED
    BY <2>2, <2>3, <2>4 DEF CalInv, CalTypeOK, Stages
<1>2. Clock(tm', clock)
  BY <1>a, <1>b DEF Clock, CalInv, CalTypeOK, Fields
<1> USE DEF Gmtime, CalInv
<1>3. YearLoop'
  <2>1. DaysTo(EPOCH_YR) = 0
    BY LeapDaysCounted
  <2>2. tm'.wday = (d + 4) % 7
    BY <1>b DEF CalTypeOK, Fields, wday
  <2> QED
    BY <1>2, <2>1, <2>2 DEF YearLoop, Asked, EPOCH_YR
<1> QED
  BY <1>1, <1>3 DEF MonthLoop, DateFound, Changed, Carried, Counting, MkTimeInverts

LEMMA YearStep == CalInv /\ PassYear => CalInv'
<1> SUFFICES ASSUME CalInv, PassYear PROVE CalInv'
  OBVIOUS
<1> USE DEF CalInv, PassYear, YearOver, client
<1>1. CalTypeOK'
  BY DEF CalTypeOK, YEARSIZE
<1>2. DaysTo(year + 1) = DaysTo(year) + YEARSIZE(year) /\ DaysTo(year) \in Int
  BY YearCounted DEF CalTypeOK
<1>3. YEARSIZE(year) \in Nat
  BY DEF YEARSIZE
<1>4. YearLoop'
  BY <1>2, <1>3 DEF YearLoop, Asked, CalTypeOK, EPOCH_YR
<1> QED
  BY <1>1, <1>4 DEF MonthLoop, DateFound, Changed, Carried, Counting, MkTimeInverts

LEMMA YearPut ==
  ASSUME NEW t \in Fields, NEW a \in Int, NEW b \in Int
  PROVE  [t EXCEPT !.year = a, !.yday = b, !.mon = 0] \in Fields
<1> DEFINE Typed(c) == [t EXCEPT !.year = a, !.yday = b, !.mon = c] \in Fields
<1>1. \A c \in Int : Typed(c)
  BY DEF Fields
<1>2. 0 \in Int
  OBVIOUS
<1> HIDE DEF Typed
<1>3. Typed(0)
  BY <1>1, <1>2
<1> QED
  BY <1>3 DEF Typed

LEMMA FindYearStep == CalInv /\ FindYear => CalInv'
<1> SUFFICES ASSUME CalInv, FindYear PROVE CalInv'
  OBVIOUS
<1>1. CalTypeOK'
  <2> DEFINE y == year - YEAR0
  <2>1. y \in Int /\ day \in Int /\ tm \in Fields
    BY DEF CalInv, CalTypeOK, YEAR0
  <2>2. tm' = [tm EXCEPT !.year = y, !.yday = day, !.mon = 0]
    BY DEF FindYear
  <2> HIDE DEF y
  <2>3. [tm EXCEPT !.year = y, !.yday = day, !.mon = 0] \in Fields
    BY <2>1, YearPut
  <2>4. tm' \in Fields
    BY <2>2, <2>3
  <2> QED
    BY <2>4 DEF CalInv, FindYear, CalTypeOK, Stages, client, locals
<1> USE DEF CalInv, FindYear, YearOver, client, locals
<1>2. MonthLoop'
  <2>1. Before(year, 0) = 0
    BY TableAgrees
  <2>2. YEARSIZE(year) \in Nat
    BY DEF YEARSIZE
  <2>3. Clock(tm', meant[2]) /\ tm'.wday = (meant[1] + 4) % 7
    BY DEF Clock, YearLoop, CalTypeOK, Fields
  <2> QED
    BY <2>1, <2>2, <2>3 DEF MonthLoop, YearLoop, Asked, CalTypeOK, Fields, YEAR0
<1> QED
  BY <1>1, <1>2 DEF YearLoop, DateFound, Changed, Carried, Counting, MkTimeInverts

LEMMA MonthStep == CalInv /\ PassMonth => CalInv'
<1> SUFFICES ASSUME CalInv, PassMonth PROVE CalInv'
  OBVIOUS
<1> USE DEF CalInv, PassMonth, client
<1>1. tm.mon \in 0 .. 11
  BY DEF MonthLoop
<1>2. Before(year, tm.mon + 1) = Before(year, tm.mon) + _ytab(year)[tm.mon + 1]
      /\ Before(year, tm.mon) \in Int /\ _ytab(year)[tm.mon + 1] \in Int
  BY <1>1, TableAgrees
<1>3. CalTypeOK'
  BY <1>2 DEF CalTypeOK, Fields
<1>4. tm.mon + 1 # 12
  BY <1>2, TableAgrees DEF MonthLoop, CalTypeOK, Fields
<1>5. MonthLoop'
  <2>1. Clock(tm', meant[2]) /\ tm'.wday = (meant[1] + 4) % 7
    BY DEF Clock, MonthLoop, CalTypeOK, Fields
  <2> QED
    BY <1>1, <1>2, <1>4, <2>1 DEF MonthLoop, Asked, CalTypeOK, Fields
<1> QED
  BY <1>3, <1>5 DEF YearLoop, DateFound, Changed, Carried, Counting, MkTimeInverts

LEMMA FindMonthStep == CalInv /\ FindMonth => CalInv'
<1> SUFFICES ASSUME CalInv, FindMonth PROVE CalInv'
  OBVIOUS
<1> USE DEF CalInv, FindMonth, client, locals
<1>1. CalTypeOK'
  BY DEF CalTypeOK, Fields, Stages
<1>2. DateFound'
  <2>1. Clock(tm', meant[2])
    BY DEF Clock, MonthLoop, CalTypeOK, Fields
  <2>2. Length(tm') = _ytab(year)[tm.mon + 1]
    BY DEF Length, MonthLoop, CalTypeOK, Fields
  <2>3. _ytab(year)[tm.mon + 1] \in Int /\ Before(year, tm.mon) \in Int
    BY TableAgrees DEF MonthLoop
  <2>4. Dated(tm', meant[1])
    BY <2>2, <2>3 DEF Dated, MonthLoop, CalTypeOK, Fields
  <2> QED
    BY <2>1, <2>4 DEF DateFound, MonthLoop, Asked
<1> QED
  BY <1>1, <1>2 DEF YearLoop, MonthLoop, Changed, Carried, Counting, MkTimeInverts

LEMMA KeepDateStep == CalInv /\ KeepDate => CalInv'
<1> SUFFICES ASSUME CalInv, KeepDate PROVE CalInv'
  OBVIOUS
<1>1. CalTypeOK'
  BY DEF CalInv, CalTypeOK, KeepDate, Stages, locals
<1>2. Dated(date', today')
  BY DEF CalInv, DateFound, KeepDate
<1> QED
  BY <1>1, <1>2 DEF CalInv, KeepDate, YearLoop, MonthLoop, DateFound, Changed, Carried, Counting, MkTimeInverts

----------------------------------------------------------------------------
(* mktime *)

\* FieldsCarried, for the ranges there are.
LEMMA CarrySeconds ==
  \A a \in Int : /\ Carry(a, 60)[1] \in Int /\ Carry(a, 60)[2] \in 0 .. 59
                 /\ a = 60 * Carry(a, 60)[1] + Carry(a, 60)[2]
BY DEF Carry, Quot, Rem

LEMMA CarryHours ==
  \A a \in Int : /\ Carry(a, 24)[1] \in Int /\ Carry(a, 24)[2] \in 0 .. 23
                 /\ a = 24 * Carry(a, 24)[1] + Carry(a, 24)[2]
BY DEF Carry, Quot, Rem

LEMMA CarryMonths ==
  \A a \in Int : /\ Carry(a, 12)[1] \in Int /\ Carry(a, 12)[2] \in 0 .. 11
                 /\ a = 12 * Carry(a, 12)[1] + Carry(a, 12)[2]
BY DEF Carry, Quot, Rem

LEMMA DivMod ==
  ASSUME NEW t \in Int, NEW c \in Int, NEW x \in Int, 0 <= x, x < 86400, t = 86400 * c + x
  PROVE  t \div 86400 = c /\ t % 86400 = x
OBVIOUS

LEMMA CarryYears == \A a \in Int : Carry(a, 12)[1] = a \div 12 /\ Carry(a, 12)[2] = a % 12
BY DEF Carry, Quot, Rem

LEMMA FirstTyped ==
  ASSUME NEW y \in Int, NEW m \in 0 .. 11
  PROVE  DaysTo(y) \in Int /\ Before(y, m) \in Int /\ FirstDay(y, m) \in Int
<1>1. DaysTo(y) \in Int
  BY YearCounted
<1>2. Before(y, m) \in Int
  BY TableAgrees
<1> QED
  BY <1>1, <1>2 DEF FirstDay

\* A date puts its day into its month.
LEMMA DatedIn ==
  ASSUME NEW t \in Fields, NEW e \in Int, Dated(t, e)
  PROVE  /\ YEAR0 + t.year \in Int /\ t.year \in Int /\ t.mon \in 0 .. 11 /\ t.mday \in Int
         /\ Length(t) \in Int /\ Length(t) = _ytab(YEAR0 + t.year)[t.mon + 1]
         /\ t.mday >= 1 /\ t.mday <= Length(t)
         /\ FirstDay(YEAR0 + t.year, t.mon) \in Int
         /\ FirstDay(YEAR0 + t.year, t.mon) + t.mday - 1 = e
<1>1. YEAR0 + t.year \in Int /\ t.year \in Int /\ t.mon \in 0 .. 11 /\ t.mday \in Int
  BY DEF Dated, Fields, YEAR0
<1>2. Length(t) \in Int /\ Length(t) = _ytab(YEAR0 + t.year)[t.mon + 1]
  BY <1>1, TableAgrees DEF Length
<1>3. t.mday >= 1 /\ t.mday <= Length(t)
  BY <1>2 DEF Dated
<1>4. /\ DaysTo(YEAR0 + t.year) \in Int /\ Before(YEAR0 + t.year, t.mon) \in Int
      /\ FirstDay(YEAR0 + t.year, t.mon) \in Int
  BY <1>1, FirstTyped
<1>5. FirstDay(YEAR0 + t.year, t.mon) + t.mday - 1 = e
  BY <1>1, <1>4 DEF FirstDay, Dated
<1> QED
  BY <1>1, <1>2, <1>3, <1>4, <1>5

LEMMA ChangeStep ==
  ASSUME CalInv, NEW c \in Changes, Change(c)
  PROVE  CalInv'
<1> DEFINE sec  == tm.sec + c.sec    min == tm.min + c.min  hour == tm.hour + c.hour
           mday == tm.mday + c.mday  mon == tm.mon + c.mon  y    == tm.year + c.year
<1>1. /\ c.sec \in Int /\ c.min \in Int /\ c.hour \in Int
      /\ c.mday \in Int /\ c.mon \in Int /\ c.year \in Int
  <2>1. c \in [sec : Int, min : Int, hour : Int, mday : Int, mon : Int, year : Int]
    BY CalendarAssumption DEF CalendarAssumption
  <2> QED
    BY <2>1
<1>2. /\ tm.sec \in Int /\ tm.min \in Int /\ tm.hour \in Int
      /\ tm.mday \in Int /\ tm.mon \in Int /\ tm.year \in Int /\ tm \in Fields
  BY DEF CalInv, CalTypeOK, Fields
<1>3. tm' = [tm EXCEPT !.sec = sec, !.min = min, !.hour = hour, !.mday = mday, !.mon = mon, !.year = y]
  BY DEF Change
<1>4. sec \in Int /\ min \in Int /\ hour \in Int /\ mday \in Int /\ mon \in Int /\ y \in Int
  BY <1>1, <1>2
<1>5. stage = "found" /\ stage' = "changed" /\ UNCHANGED <<locals, time, today, date>>
      /\ meant' = <<meant[1] + c.mday + Begins(YEAR0 + tm'.year, tm'.mon) - FirstDay(YEAR0 + tm.year, tm.mon),
                     meant[2] + c.sec + 60 * c.min + 3600 * c.hour>>
  BY Zenon DEF Change
<1>6. /\ tm' \in Fields /\ tm'.sec = sec /\ tm'.min = min /\ tm'.hour = hour
      /\ tm'.mday = mday /\ tm'.mon = mon /\ tm'.year = y
  <2> HIDE DEF sec, min, hour, mday, mon, y
  <2> QED
    BY <1>2, <1>3, <1>4 DEF Fields
<1> DEFINE first == FirstDay(YEAR0 + tm.year, tm.mon)  begins == Begins(YEAR0 + tm'.year, tm'.mon)
<1>7. first \in Int /\ begins \in Int
  <2>1. YEAR0 + tm.year \in Int /\ tm.mon \in 0 .. 11
    BY <1>2, <1>5 DEF CalInv, DateFound, Dated, YEAR0
  <2>2. YEAR0 + tm'.year + tm'.mon \div 12 \in Int /\ tm'.mon % 12 \in 0 .. 11
    <3> HIDE DEF mon, y
    <3> QED
      BY <1>4, <1>6 DEF YEAR0
  <2>3. first \in Int
    BY <2>1, FirstTyped
  <2>4. begins \in Int
    BY <2>2, FirstTyped DEF Begins
  <2> QED
    BY <2>3, <2>4
<1>8. meant[1] \in Int /\ meant[2] \in Int /\ meant'[1] = meant[1] + c.mday + begins - first
      /\ meant'[2] = meant[2] + c.sec + 60 * c.min + 3600 * c.hour
  BY <1>5 DEF CalInv, CalTypeOK
<1> HIDE DEF first, begins
<1>9. CalTypeOK'
  <2>1. meant' \in Int \X Int
    BY <1>1, <1>5, <1>7, <1>8 DEF first, begins
  <2> QED
    BY <1>5, <1>6, <2>1 DEF CalInv, CalTypeOK, Stages, locals
<1>10. Changed'
  <2>1. Clock(tm, meant[2]) /\ Dated(tm, meant[1])
    BY <1>5 DEF CalInv, DateFound
  <2>2. 3600 * tm.hour + 60 * tm.min + tm.sec = meant[2]
    BY <2>1 DEF Clock
  <2>3. 3600 * hour + 60 * min + sec = meant'[2]
    BY <1>1, <1>2, <1>8, <2>2
  <2>4. first + tm.mday - 1 = meant[1]
    BY <1>2, <1>8, <2>1, DatedIn DEF first
  <2>5. begins + mday - 1 = meant'[1]
    BY <1>1, <1>2, <1>7, <1>8, <2>4
  <2> QED
    BY <1>6, <2>3, <2>5 DEF Changed, begins
<1> QED
  BY <1>5, <1>9, <1>10 DEF CalInv, YearLoop, MonthLoop, DateFound, Carried, Counting, MkTimeInverts

LEMMA CarryStep == CalInv /\ CarryFields => CalInv'
<1> SUFFICES ASSUME CalInv, CarryFields PROVE CalInv'
  OBVIOUS
<1> DEFINE min  == Carry(tm.sec, 60)
           hour == Carry(tm.min + min[1], 60)
           late == Carry(tm.hour + hour[1], 24)
           over == Carry(tm.mon, 12)
           y    == tm.year + over[1]
<1>1. /\ tm.sec \in Int /\ tm.min \in Int /\ tm.hour \in Int
      /\ tm.mday \in Int /\ tm.mon \in Int /\ tm.year \in Int /\ tm \in Fields
  BY DEF CalInv, CalTypeOK, Fields
<1>2. min[1] \in Int /\ min[2] \in 0 .. 59 /\ tm.sec = 60 * min[1] + min[2]
  BY <1>1, CarrySeconds
<1>3. hour[1] \in Int /\ hour[2] \in 0 .. 59 /\ tm.min + min[1] = 60 * hour[1] + hour[2]
  <2>1. tm.min + min[1] \in Int
    BY <1>1, <1>2
  <2> HIDE DEF min
  <2> QED
    BY <2>1, CarrySeconds
<1>4. late[1] \in Int /\ late[2] \in 0 .. 23 /\ tm.hour + hour[1] = 24 * late[1] + late[2]
  <2>1. tm.hour + hour[1] \in Int
    BY <1>1, <1>3
  <2> HIDE DEF hour
  <2> QED
    BY <2>1, CarryHours
<1>5. over[1] \in Int /\ over[2] \in 0 .. 11 /\ y \in Int
  <2>1. over[1] \in Int /\ over[2] \in 0 .. 11
    BY <1>1, CarryMonths
  <2> HIDE DEF over
  <2> QED
    BY <1>1, <2>1
<1>6. tm' = [tm EXCEPT !.sec = min[2], !.min = hour[2], !.hour = late[2], !.mon = over[2], !.year = y]
  BY DEF CarryFields
<1>7. stage = "changed" /\ stage' = "carried" /\ day' = late[1] + tm.mday - 1
      /\ UNCHANGED <<year, month, yday, time, client>>
  BY Zenon DEF CarryFields
<1> HIDE DEF min, hour, late, over, y
<1>8. tm' \in Fields
  <2> DEFINE a == min[2]  b == hour[2]  c == late[2]  d == over[2]
  <2>1. a \in Int /\ b \in Int /\ c \in Int /\ d \in Int
    BY <1>2, <1>3, <1>4, <1>5
  <2>2. tm' = [tm EXCEPT !.sec = a, !.min = b, !.hour = c, !.mon = d, !.year = y]
    BY <1>6
  <2> HIDE DEF a, b, c, d
  <2> QED
    BY <1>1, <1>5, <2>1, <2>2 DEF Fields
<1>9. /\ tm'.sec = min[2] /\ tm'.min = hour[2] /\ tm'.hour = late[2]
      /\ tm'.mon = over[2] /\ tm'.year = y
  BY <1>1, <1>6 DEF Fields
<1>10. CalTypeOK'
  <2>1. day' \in Int
    BY <1>1, <1>4, <1>7
  <2> QED
    BY <1>7, <1>8, <2>1 DEF CalInv, CalTypeOK, Stages, client
<1>11. Carried'
  <2>1. meant' = meant /\ meant[1] \in Int /\ meant[2] \in Int
    BY <1>7 DEF CalInv, CalTypeOK, client
  <2> DEFINE rest == 3600 * late[2] + 60 * hour[2] + min[2]
  <2>a. meant[2] = 3600 * tm.hour + 60 * tm.min + tm.sec
    BY <1>7 DEF CalInv, Changed
  <2>3. meant[2] \div 86400 = late[1] /\ meant[2] % 86400 = rest
    <3> HIDE DEF rest
    <3> DEFINE a == min[1]  b == hour[1]  c == late[1]  r == min[2]  q == hour[2]  p == late[2]
                s == tm.sec  m == tm.min   h == tm.hour
    <3>1. /\ s \in Int /\ m \in Int /\ h \in Int
          /\ a \in Int /\ b \in Int /\ c \in Int /\ r \in 0 .. 59 /\ q \in 0 .. 59 /\ p \in 0 .. 23
          /\ s = 60 * a + r /\ m + a = 60 * b + q /\ h + b = 24 * c + p
      BY <1>1, <1>2, <1>3, <1>4
    <3> HIDE DEF a, b, c, r, q, p, s, m, h
    <3> DEFINE total == 3600 * h + 60 * m + s  x == 3600 * p + 60 * q + r
    <3>2. total \in Int /\ x \in Int /\ 0 <= x /\ x < 86400 /\ total = 86400 * c + x
      BY <3>1
    <3>3. total = meant[2] /\ x = rest
      BY <2>a DEF a, b, c, r, q, p, s, m, h, rest
    <3> HIDE DEF total, x
    <3>4. c \in Int
      BY <3>1
    <3>5. total \div 86400 = c /\ total % 86400 = x
      BY <3>2, <3>4, DivMod
    <3> QED
      BY <3>3, <3>5 DEF c
  <2>4. Clock(tm', rest)
    BY <1>2, <1>3, <1>4, <1>9 DEF Clock
  <2>5. FirstDay(YEAR0 + tm.year + over[1], over[2]) + tm.mday - 1 = meant[1]
    <3>1. over[1] = tm.mon \div 12 /\ over[2] = tm.mon % 12
      BY <1>1, CarryYears DEF over
    <3> QED
      BY <1>7, <3>1 DEF CalInv, Changed, Begins
  <2>6. YEAR0 + tm'.year = YEAR0 + tm.year + over[1]
    BY <1>1, <1>5, <1>9 DEF y, YEAR0
  <2>7. FirstDay(YEAR0 + tm'.year, tm'.mon) \in Int
    <3>1. YEAR0 + tm'.year \in Int /\ tm'.mon \in 0 .. 11
      BY <1>5, <1>9 DEF YEAR0
    <3> QED
      BY <3>1, FirstTyped
  <2>8. FirstDay(YEAR0 + tm'.year, tm'.mon) + day' = meant[1] + late[1]
    BY <1>1, <1>4, <1>7, <1>9, <2>1, <2>5, <2>6, <2>7
  <2> QED
    BY <1>5, <1>9, <2>1, <2>3, <2>4, <2>8 DEF Carried, MeantDay, MeantSecs, SECS_DAY
<1> QED
  BY <1>7, <1>10, <1>11 DEF CalInv, client, YearLoop, MonthLoop, DateFound, Changed, Counting, MkTimeInverts

LEMMA NextMonth ==
  ASSUME NEW y \in Int, NEW m \in 0 .. 11
  PROVE  /\ m < 11 => FirstDay(y, m + 1) = FirstDay(y, m) + _ytab(y)[m + 1]
         /\ m = 11 => FirstDay(y + 1, 0) = FirstDay(y, m) + _ytab(y)[m + 1]
<1>1. /\ Before(y, m + 1) = Before(y, m) + _ytab(y)[m + 1] /\ Before(y, 12) = YEARSIZE(y)
      /\ Before(y, m) \in Int /\ _ytab(y)[m + 1] \in Int
  BY TableAgrees
<1>2. Before(y + 1, 0) = 0
  BY TableAgrees
<1>3. DaysTo(y) \in Int /\ DaysTo(y + 1) = DaysTo(y) + YEARSIZE(y)
  BY YearCounted
<1> QED
  BY <1>1, <1>2, <1>3 DEF FirstDay

SameClock(t, u) == u.sec = t.sec /\ u.min = t.min /\ u.hour = t.hour

LEMMA OneBefore ==
  ASSUME NEW t \in Fields, t.mon \in 0 .. 11
  PROVE  LET u == MonthBefore(t) IN
         /\ u \in Fields /\ SameClock(t, u) /\ u.mon \in 0 .. 11 /\ Length(u) \in Int
         /\ FirstDay(YEAR0 + u.year, u.mon) + Length(u) = FirstDay(YEAR0 + t.year, t.mon)
<1> DEFINE u == MonthBefore(t)
<1>1. t.year \in Int /\ t.mon \in Int
  BY DEF Fields
<1>2. CASE t.mon = 0
  <2> DEFINE y == t.year - 1
  <2>1. y \in Int
    BY <1>1
  <2>2. u = [t EXCEPT !.mon = 11, !.year = y]
    BY <1>2 DEF MonthBefore
  <2>3. 11 \in Int
    OBVIOUS
  <2>4. u \in Fields /\ SameClock(t, u) /\ u.mon = 11 /\ u.year = y
    <3> HIDE DEF y, u
    <3> QED
      BY <2>1, <2>2, <2>3 DEF Fields, SameClock
  <2>5. YEAR0 + y \in Int /\ (YEAR0 + y) + 1 = YEAR0 + t.year
    BY <1>1 DEF YEAR0
  <2>6. FirstDay((YEAR0 + y) + 1, 0) = FirstDay(YEAR0 + y, 11) + _ytab(YEAR0 + y)[11 + 1]
    BY <2>5, NextMonth
  <2>7. Length(u) = _ytab(YEAR0 + y)[11 + 1] /\ Length(u) \in Int
    <3>1. _ytab(YEAR0 + y)[11 + 1] \in Int
      BY TableAgrees
    <3> QED
      BY <2>4, <3>1 DEF Length
  <2> QED
    BY <1>2, <2>4, <2>5, <2>6, <2>7
<1>3. CASE t.mon # 0
  <2> DEFINE m == t.mon - 1
  <2>1. m \in 0 .. 10 /\ m + 1 = t.mon /\ m \in Int
    BY <1>3
  <2>2. u = [t EXCEPT !.mon = m]
    BY <1>3 DEF MonthBefore
  <2>3. u \in Fields /\ SameClock(t, u) /\ u.mon = m /\ u.year = t.year
    <3> HIDE DEF m, u
    <3> QED
      BY <2>1, <2>2 DEF Fields, SameClock
  <2>4. YEAR0 + t.year \in Int
    BY <1>1 DEF YEAR0
  <2>5. FirstDay(YEAR0 + t.year, m + 1) = FirstDay(YEAR0 + t.year, m) + _ytab(YEAR0 + t.year)[m + 1]
    <3> HIDE DEF m
    <3> QED
      BY <2>1, <2>4, NextMonth
  <2>6. Length(u) = _ytab(YEAR0 + t.year)[m + 1] /\ Length(u) \in Int
    <3>1. _ytab(YEAR0 + t.year)[m + 1] \in Int
      BY <2>1, TableAgrees
    <3> QED
      BY <2>3, <3>1 DEF Length
  <2> QED
    BY <2>1, <2>3, <2>5, <2>6
<1> QED
  BY <1>2, <1>3

LEMMA OneAfter ==
  ASSUME NEW t \in Fields, t.mon \in 0 .. 11
  PROVE  LET u == MonthAfter(t) IN
         /\ u \in Fields /\ SameClock(t, u) /\ u.mon \in 0 .. 11 /\ Length(t) \in Int
         /\ FirstDay(YEAR0 + u.year, u.mon) = FirstDay(YEAR0 + t.year, t.mon) + Length(t)
<1> DEFINE u == MonthAfter(t)
<1>1. t.year \in Int /\ t.mon \in Int /\ YEAR0 + t.year \in Int
  BY DEF Fields, YEAR0
<1>2. Length(t) = _ytab(YEAR0 + t.year)[t.mon + 1] /\ Length(t) \in Int
  BY TableAgrees DEF Length
<1>3. CASE t.mon = 11
  <2> DEFINE y == t.year + 1
  <2>1. y \in Int /\ 0 \in Int
    BY <1>1
  <2>2. u = [t EXCEPT !.mon = 0, !.year = y]
    BY <1>3 DEF MonthAfter
  <2>3. u \in Fields /\ SameClock(t, u) /\ u.mon = 0 /\ u.year = y
    <3> HIDE DEF y, u
    <3> QED
      BY <2>1, <2>2 DEF Fields, SameClock
  <2>4. YEAR0 + u.year = (YEAR0 + t.year) + 1
    BY <1>1, <2>3 DEF YEAR0
  <2>5. FirstDay((YEAR0 + t.year) + 1, 0) = FirstDay(YEAR0 + t.year, t.mon) + _ytab(YEAR0 + t.year)[t.mon + 1]
    BY <1>1, <1>3, NextMonth
  <2> QED
    BY <1>2, <2>3, <2>4, <2>5
<1>4. CASE t.mon # 11
  <2> DEFINE m == t.mon + 1
  <2>1. m \in 0 .. 11 /\ m \in Int
    BY <1>4
  <2>2. u = [t EXCEPT !.mon = m]
    BY <1>4 DEF MonthAfter
  <2>3. u \in Fields /\ SameClock(t, u) /\ u.mon = m /\ u.year = t.year
    <3> HIDE DEF m, u
    <3> QED
      BY <2>1, <2>2 DEF Fields, SameClock
  <2>4. FirstDay(YEAR0 + t.year, t.mon + 1) = FirstDay(YEAR0 + t.year, t.mon) + _ytab(YEAR0 + t.year)[t.mon + 1]
    <3>1. t.mon < 11
      BY <1>1, <1>4
    <3> QED
      BY <1>1, <3>1, NextMonth
  <2> QED
    BY <1>2, <2>1, <2>3, <2>4
<1> QED
  BY <1>3, <1>4

LEMMA BorrowStep == CalInv /\ Borrow => CalInv'
<1> SUFFICES ASSUME CalInv, Borrow PROVE CalInv'
  OBVIOUS
<1>1. stage = "carried" /\ stage' = "carried" /\ tm' = MonthBefore(tm) /\ day' = day + Length(tm')
      /\ UNCHANGED <<year, month, yday, time, client>>
  BY DEF Borrow
<1>2. /\ tm \in Fields /\ tm.mon \in 0 .. 11 /\ Clock(tm, MeantSecs) /\ day \in Int
      /\ FirstDay(YEAR0 + tm.year, tm.mon) + day = MeantDay
  BY <1>1 DEF CalInv, CalTypeOK, Carried
<1>3. /\ tm' \in Fields /\ SameClock(tm, tm') /\ tm'.mon \in 0 .. 11 /\ Length(tm') \in Int
      /\ FirstDay(YEAR0 + tm'.year, tm'.mon) + Length(tm') = FirstDay(YEAR0 + tm.year, tm.mon)
  BY <1>1, <1>2, OneBefore
<1>4. CalTypeOK'
  BY <1>1, <1>2, <1>3 DEF CalInv, CalTypeOK, client
<1>5. Carried'
  <2>1. FirstDay(YEAR0 + tm'.year, tm'.mon) \in Int
    <3>1. YEAR0 + tm'.year \in Int
      BY <1>3 DEF Fields, YEAR0
    <3> QED
      BY <1>3, <3>1, FirstTyped
  <2>2. FirstDay(YEAR0 + tm'.year, tm'.mon) + day' = MeantDay
    BY <1>1, <1>2, <1>3, <2>1
  <2>3. Clock(tm', MeantSecs)
    BY <1>2, <1>3 DEF Clock, SameClock
  <2> QED
    BY <1>1, <1>3, <2>2, <2>3 DEF Carried, MeantDay, MeantSecs, client
<1> QED
  BY <1>1, <1>4, <1>5 DEF CalInv, client, YearLoop, MonthLoop, DateFound, Changed, Counting, MkTimeInverts

LEMMA GiveBackStep == CalInv /\ GiveBack => CalInv'
<1> SUFFICES ASSUME CalInv, GiveBack PROVE CalInv'
  OBVIOUS
<1>1. stage = "carried" /\ stage' = "carried" /\ tm' = MonthAfter(tm) /\ day' = day - Length(tm)
      /\ UNCHANGED <<year, month, yday, time, client>>
  BY DEF GiveBack
<1>2. /\ tm \in Fields /\ tm.mon \in 0 .. 11 /\ Clock(tm, MeantSecs) /\ day \in Int
      /\ FirstDay(YEAR0 + tm.year, tm.mon) + day = MeantDay
  BY <1>1 DEF CalInv, CalTypeOK, Carried
<1>3. /\ tm' \in Fields /\ SameClock(tm, tm') /\ tm'.mon \in 0 .. 11 /\ Length(tm) \in Int
      /\ FirstDay(YEAR0 + tm'.year, tm'.mon) = FirstDay(YEAR0 + tm.year, tm.mon) + Length(tm)
  BY <1>1, <1>2, OneAfter
<1>4. CalTypeOK'
  BY <1>1, <1>2, <1>3 DEF CalInv, CalTypeOK, client
<1>5. Carried'
  <2>1. FirstDay(YEAR0 + tm.year, tm.mon) \in Int
    <3>1. YEAR0 + tm.year \in Int
      BY <1>2 DEF Fields, YEAR0
    <3> QED
      BY <1>2, <3>1, FirstTyped
  <2>2. FirstDay(YEAR0 + tm'.year, tm'.mon) + day' = MeantDay
    BY <1>1, <1>2, <1>3, <2>1
  <2>3. Clock(tm', MeantSecs)
    BY <1>2, <1>3 DEF Clock, SameClock
  <2> QED
    BY <1>1, <1>3, <2>2, <2>3 DEF Carried, MeantDay, MeantSecs, client
<1> QED
  BY <1>1, <1>4, <1>5 DEF CalInv, client, YearLoop, MonthLoop, DateFound, Changed, Counting, MkTimeInverts

\* A day of a year before 1970 lies before the epoch, any other does not.
LEMMA BeforeEpoch ==
  ASSUME NEW y \in Int, NEW m \in 0 .. 11, NEW d \in Int, d >= 0, d < _ytab(y)[m + 1]
  PROVE  FirstDay(y, m) + d < 0 <=> y < EPOCH_YR
<1>1. /\ Before(y, m) \in Int /\ Before(y, m) >= 0 /\ _ytab(y)[m + 1] \in Int
      /\ Before(y, 12) = YEARSIZE(y)
  BY TableAgrees
<1>2. Before(y, m) + _ytab(y)[m + 1] <= YEARSIZE(y)
  BY <1>1, MonthsInOrder, 12 \in 0 .. 12, m < 12
<1>3. DaysTo(1970) = 0 /\ DaysTo(y) \in Int /\ YEARSIZE(y) \in Int
  BY YearCounted, LeapDaysCounted DEF EPOCH_YR, YEARSIZE
<1>4. y < 1970 => DaysTo(y) + YEARSIZE(y) <= 0
  <2>1. 1970 \in Int
    OBVIOUS
  <2> QED
    BY <1>3, <2>1, YearsInOrder
<1>5. y >= 1970 => DaysTo(y) >= 0
  <2>1. 1970 \in Int /\ YEARSIZE(1970) = 365
    BY DEF YEARSIZE, LEAPYEAR
  <2>2. CASE y > 1970
    <3>1. DaysTo(1970) + YEARSIZE(1970) <= DaysTo(y)
      BY <2>1, <2>2, YearsInOrder
    <3> QED
      BY <1>3, <2>1, <3>1
  <2> QED
    BY <1>3, <2>2
<1> QED
  BY <1>1, <1>2, <1>3, <1>4, <1>5 DEF FirstDay, EPOCH_YR

\* What mktime has found of the day once it is inside its month.
LEMMA DayFound ==
  ASSUME CalInv, InMonth
  PROVE  /\ day + 1 \in 1 .. Length(tm) /\ MeantDay \in Int
         /\ MeantDay < 0 <=> tm.year < EPOCH_YR - YEAR0
<1>1. /\ tm \in Fields /\ tm.mon \in 0 .. 11 /\ day \in Int /\ tm.year \in Int
      /\ FirstDay(YEAR0 + tm.year, tm.mon) + day = MeantDay
  BY DEF CalInv, CalTypeOK, Carried, InMonth, Fields
<1>2. YEAR0 + tm.year \in Int /\ (YEAR0 + tm.year < EPOCH_YR <=> tm.year < EPOCH_YR - YEAR0)
  BY <1>1 DEF YEAR0, EPOCH_YR
<1>3. /\ day >= 0 /\ day < _ytab(YEAR0 + tm.year)[tm.mon + 1] /\ _ytab(YEAR0 + tm.year)[tm.mon + 1] \in Int
      /\ Length(tm) = _ytab(YEAR0 + tm.year)[tm.mon + 1]
  BY <1>1, TableAgrees DEF InMonth, Length
<1>4. FirstDay(YEAR0 + tm.year, tm.mon) \in Int
  BY <1>1, <1>2, FirstTyped
<1>5. FirstDay(YEAR0 + tm.year, tm.mon) + day < 0 <=> YEAR0 + tm.year < EPOCH_YR
  BY <1>1, <1>2, <1>3, BeforeEpoch
<1> QED
  BY <1>1, <1>2, <1>3, <1>4, <1>5

LEMMA TooEarlyStep == CalInv /\ TooEarly => CalInv'
<1> SUFFICES ASSUME CalInv, TooEarly PROVE CalInv'
  OBVIOUS
<1>1. tm \in Fields /\ day + 1 \in Int
  BY DEF CalInv, CalTypeOK
<1>2. tm' \in Fields
  <2> DEFINE d == day + 1
  <2>1. tm' = [tm EXCEPT !.mday = d]
    BY DEF TooEarly
  <2> HIDE DEF d
  <2> QED
    BY <1>1, <2>1 DEF Fields, d
<1>3. CalTypeOK'
  BY <1>2 DEF CalInv, CalTypeOK, TooEarly, Stages, locals, client
<1>4. TimeAt(meant[1], meant[2]) = NoTime
  <2>1. MeantDay < 0
    BY DayFound DEF TooEarly
  <2> QED
    BY <2>1 DEF TimeAt, MeantDay
<1>5. MkTimeInverts'
  BY <1>4 DEF MkTimeInverts, TooEarly, client
<1> QED
  BY <1>3, <1>5 DEF TooEarly, CalInv, client, YearLoop, MonthLoop, DateFound, Changed, Carried, Counting

LEMMA FindDayStep == CalInv /\ FindDay => CalInv'
<1> SUFFICES ASSUME CalInv, FindDay PROVE CalInv'
  OBVIOUS
<1> DEFINE d == day + 1
<1>1. tm \in Fields /\ d \in Int /\ day \in Int /\ tm.year \in Int
  BY DEF CalInv, CalTypeOK, Fields
<1>2. InMonth /\ tm.year >= EPOCH_YR - YEAR0 /\ tm' = [tm EXCEPT !.mday = d] /\ month' = 0 /\ yday' = 0
      /\ stage' = "count" /\ UNCHANGED <<year, day, time, client>>
  BY DEF FindDay
<1>3. /\ d \in 1 .. Length(tm) /\ Clock(tm, MeantSecs) /\ tm.mon \in 0 .. 11
      /\ FirstDay(YEAR0 + tm.year, tm.mon) + day = MeantDay
  BY <1>2, DayFound DEF CalInv, Carried, InMonth
<1>4. /\ tm' \in Fields /\ SameClock(tm, tm') /\ tm'.mon = tm.mon /\ tm'.year = tm.year /\ tm'.mday = d
  <2> HIDE DEF d
  <2> QED
    BY <1>1, <1>2 DEF Fields, SameClock
<1>5. CalTypeOK'
  BY <1>2, <1>4 DEF CalInv, CalTypeOK, Stages, client
<1>6. Counting'
  <2>1. Length(tm') = Length(tm) /\ Clock(tm', MeantSecs)
    BY <1>3, <1>4 DEF Length, Clock, SameClock
  <2>2. FirstDay(YEAR0 + tm.year, tm.mon) + d - 1 = MeantDay
    <3>1. YEAR0 + tm.year \in Int
      BY <1>1 DEF YEAR0
    <3>2. FirstDay(YEAR0 + tm.year, tm.mon) \in Int
      BY <1>3, <3>1, FirstTyped
    <3> QED
      BY <1>1, <1>3, <3>2
  <2>3. Before(YEAR0 + tm.year, 0) = 0
    BY TableAgrees
  <2> QED
    BY <1>1, <1>2, <1>3, <1>4, <2>1, <2>2, <2>3 DEF Counting, MeantDay, MeantSecs, client
<1> QED
  BY <1>2, <1>5, <1>6 DEF CalInv, client, YearLoop, MonthLoop, DateFound, Changed, Carried, MkTimeInverts

LEMMA CountMonthStep == CalInv /\ CountMonth => CalInv'
<1> SUFFICES ASSUME CalInv, CountMonth PROVE CalInv'
  OBVIOUS
<1>1. stage = "count" /\ stage' = "count" /\ month < tm.mon
      /\ yday' = yday + _ytab(YEAR0 + tm.year)[month + 1] /\ month' = month + 1
      /\ UNCHANGED <<tm, year, day, time, client>>
  BY DEF CountMonth
<1>2. /\ month \in Int /\ yday \in Int /\ month \in 0 .. tm.mon /\ tm.mon \in 0 .. 11
      /\ yday = Before(YEAR0 + tm.year, month)
  BY <1>1 DEF CalInv, CalTypeOK, Counting
<1>3. month \in 0 .. 11 /\ month' \in 0 .. tm.mon
  BY <1>1, <1>2
<1>4. /\ _ytab(YEAR0 + tm.year)[month + 1] \in Int
      /\ Before(YEAR0 + tm.year, month + 1) = Before(YEAR0 + tm.year, month) + _ytab(YEAR0 + tm.year)[month + 1]
  BY <1>3, TableAgrees
<1>5. CalTypeOK'
  BY <1>1, <1>2, <1>4 DEF CalInv, CalTypeOK, client
<1>6. Counting'
  BY <1>1, <1>2, <1>3, <1>4 DEF CalInv, Counting, MeantDay, MeantSecs, client
<1> QED
  BY <1>1, <1>5, <1>6 DEF CalInv, client, YearLoop, MonthLoop, DateFound, Changed, Carried, MkTimeInverts

\* The test for overflow fails exactly for the times that fit.
LEMMA Fits ==
  ASSUME NEW days \in Int, NEW secs \in Int
  PROVE  DaysLeft(secs) < days <=> days > MaxTime[1] \/ (days = MaxTime[1] /\ secs > MaxTime[2])
<1>1. MaxTime[1] \in Int /\ MaxTime[2] \in Int
  <2>1. MaxTime[1] \in Nat \ {0} /\ MaxTime[2] \in 0 .. SECS_DAY - 1
    BY CalendarAssumption DEF CalendarAssumption
  <2>2. SECS_DAY - 1 \in Int
    BY DEF SECS_DAY
  <2> HIDE DEF SECS_DAY
  <2> QED
    BY <2>1, <2>2
<1> QED
  BY <1>1 DEF DaysLeft

LEMMA MakeTimeStep == CalInv /\ MakeTime => CalInv'
<1> SUFFICES ASSUME CalInv, MakeTime PROVE CalInv'
  OBVIOUS
<1> DEFINE inyear == yday + tm.mday - 1
           days   == DaysTo(YEAR0 + tm.year) + inyear
           secs   == (tm.hour * 60 + tm.min) * 60 + tm.sec
           wday   == (days + 4) % 7
<1>1. stage = "count" /\ stage' = "made" /\ month >= tm.mon /\ UNCHANGED <<locals, client>>
      /\ tm' = [tm EXCEPT !.yday = inyear, !.wday = wday]
      /\ time' = IF DaysLeft(secs) < days THEN NoTime ELSE <<days, secs>>
  BY DEF MakeTime
<1>2. /\ Clock(tm, MeantSecs) /\ tm.mon \in 0 .. 11 /\ tm.mday \in 1 .. Length(tm)
      /\ tm.year >= EPOCH_YR - YEAR0 /\ FirstDay(YEAR0 + tm.year, tm.mon) + tm.mday - 1 = MeantDay
      /\ month \in 0 .. tm.mon /\ yday = Before(YEAR0 + tm.year, month)
      /\ tm \in Fields /\ month \in Int
  BY <1>1 DEF CalInv, Counting, CalTypeOK
<1>3. YEAR0 + tm.year \in Int /\ YEAR0 + tm.year >= EPOCH_YR /\ tm.mday \in Int /\ Length(tm) \in Int
  <2>1. tm.year \in Int /\ tm.mday \in Int
    BY <1>2 DEF Fields
  <2>2. Length(tm) \in Int
    BY <1>2, TableAgrees DEF Length
  <2> QED
    BY <1>2, <2>1, <2>2 DEF YEAR0, EPOCH_YR
<1>4. month = tm.mon
  BY <1>1, <1>2
<1>5. DaysTo(YEAR0 + tm.year) \in Int /\ Before(YEAR0 + tm.year, tm.mon) \in Int
  BY <1>2, <1>3, FirstTyped
<1>6. days = MeantDay /\ inyear = Before(YEAR0 + tm.year, tm.mon) + tm.mday - 1 /\ inyear \in Int /\ days \in Int
  BY <1>2, <1>3, <1>4, <1>5 DEF FirstDay
<1>7. secs = MeantSecs /\ secs \in Int
  <2>1. tm.hour \in Int /\ tm.min \in Int /\ tm.sec \in Int
    BY <1>2 DEF Clock
  <2>2. secs = 3600 * tm.hour + 60 * tm.min + tm.sec /\ secs \in Int
    BY <2>1
  <2> QED
    BY <1>2, <2>2 DEF Clock
<1>8. wday \in Int
  <2> HIDE DEF days
  <2> QED
    BY <1>6
<1>9. MeantDay >= 0
  <2> DEFINE d == tm.mday - 1
  <2>1. d \in Int /\ d >= 0 /\ d < _ytab(YEAR0 + tm.year)[tm.mon + 1]
    BY <1>2, <1>3 DEF Length
  <2>2. FirstDay(YEAR0 + tm.year, tm.mon) + d = MeantDay
    BY <1>2, <1>3, <1>5 DEF FirstDay
  <2>3. ~(YEAR0 + tm.year < EPOCH_YR)
    BY <1>3 DEF EPOCH_YR
  <2> HIDE DEF d
  <2>4. ~(FirstDay(YEAR0 + tm.year, tm.mon) + d < 0)
    BY <1>2, <1>3, <2>1, <2>3, BeforeEpoch
  <2> QED
    BY <1>6, <2>2, <2>4
<1>10. /\ tm' \in Fields /\ SameClock(tm, tm') /\ tm'.mon = tm.mon /\ tm'.year = tm.year
       /\ tm'.mday = tm.mday /\ tm'.yday = inyear /\ tm'.wday = wday
  <2> HIDE DEF inyear, wday
  <2> QED
    BY <1>1, <1>2, <1>6, <1>8 DEF Fields, SameClock
<1>11. CalTypeOK'
  BY <1>1, <1>10 DEF CalInv, CalTypeOK, Stages, locals, client
<1>12. MkTimeInverts'
  <2>1. TimeAt(meant[1], meant[2])
          = IF MeantDay > MaxTime[1] \/ (MeantDay = MaxTime[1] /\ MeantSecs > MaxTime[2]) THEN NoTime
            ELSE <<MeantDay, MeantSecs>>
    BY <1>6, <1>9 DEF TimeAt, MeantDay, MeantSecs
  <2> HIDE DEF days, secs, inyear, wday
  <2>2. DaysLeft(secs) < days <=> MeantDay > MaxTime[1] \/ (MeantDay = MaxTime[1] /\ MeantSecs > MaxTime[2])
    BY <1>6, <1>7, Fits
  <2>3. time' = TimeAt(meant[1], meant[2]) /\ (time' # NoTime => time' = <<MeantDay, MeantSecs>>)
    BY <1>1, <1>6, <1>7, <2>1, <2>2
  <2>4. Clock(tm', MeantSecs)
    BY <1>2, <1>10 DEF Clock, SameClock
  <2>5. Dated(tm', MeantDay)
    <3>1. Length(tm') = Length(tm)
      BY <1>10 DEF Length
    <3>2. tm'.wday = (MeantDay + 4) % 7
      BY <1>6, <1>10 DEF wday
    <3>3. tm'.yday = Before(YEAR0 + tm'.year, tm'.mon) + tm'.mday - 1
      BY <1>6, <1>10
    <3>4. DaysTo(YEAR0 + tm'.year) + tm'.yday = MeantDay
      BY <1>6, <1>10 DEF days
    <3> QED
      BY <1>2, <1>10, <3>1, <3>2, <3>3, <3>4 DEF Dated
  <2> QED
    BY <1>1, <2>3, <2>4, <2>5 DEF MkTimeInverts, client
<1> QED
  BY <1>1, <1>11, <1>12 DEF CalInv, client, YearLoop, MonthLoop, DateFound, Changed, Carried, Counting

LEMMA CalInvNext == CalInv /\ [CalNext]_calvars => CalInv'
<1> SUFFICES ASSUME CalInv, [CalNext]_calvars PROVE CalInv'
  OBVIOUS
<1>1. ASSUME NEW d \in Days, NEW clock \in Clocks, Gmtime(d, clock) PROVE CalInv'
  <2>1. d \in Nat /\ clock \in 0 .. SECS_DAY - 1
    BY CalendarAssumption DEF CalendarAssumption
  <2> QED
    BY <1>1, <2>1, GmtimeStep
<1>2. CASE AskTomorrow
  <2>1. today + 1 \in Nat /\ 0 \in 0 .. SECS_DAY - 1
    BY DEF CalInv, CalTypeOK, SECS_DAY
  <2>2. Gmtime(today + 1, 0)
    BY <1>2 DEF AskTomorrow
  <2> QED
    BY <2>1, <2>2, GmtimeStep
<1>3. ASSUME NEW c \in Changes, Change(c) PROVE CalInv'
  BY <1>3, ChangeStep
<1>4. CASE UNCHANGED calvars
  BY <1>4 DEF calvars, locals, client, CalInv, CalTypeOK, YearLoop, MonthLoop, DateFound, Changed, Carried,
              Counting, MkTimeInverts, Asked, MeantDay, MeantSecs
<1> QED
  BY <1>1, <1>2, <1>3, <1>4, YearStep, FindYearStep, MonthStep, FindMonthStep, KeepDateStep, CarryStep,
     BorrowStep, GiveBackStep, TooEarlyStep, FindDayStep, CountMonthStep, MakeTimeStep
  DEF CalNext, Walk, Calculate

\* For all days, times of day and changes of fields: mktime gives back the time
\* that was meant and sets every field to what gmtime_r would have.
THEOREM MkTimeCorrect == CalSpec => []MkTimeInverts
<1>1. CalInv => MkTimeInverts
  BY DEF CalInv
<1> QED
  BY <1>1, CalInvInit, CalInvNext, PTL DEF CalSpec

----------------------------------------------------------------------------
(* The calendar *)

\* A day is in one month of one year.
LEMMA DayIs ==
  ASSUME NEW y \in Int, NEW z \in Int, NEW m \in 0 .. 11, NEW k \in 0 .. 11, NEW d \in Int,
         FirstDay(y, m) <= d, d < FirstDay(y, m) + _ytab(y)[m + 1],
         FirstDay(z, k) <= d, d < FirstDay(z, k) + _ytab(z)[k + 1]
  PROVE  y = z /\ m = k
<1>1. /\ Before(y, m) \in Int /\ Before(y, m) >= 0 /\ _ytab(y)[m + 1] \in Int /\ Before(y, 12) = YEARSIZE(y)
      /\ Before(z, k) \in Int /\ Before(z, k) >= 0 /\ _ytab(z)[k + 1] \in Int /\ Before(z, 12) = YEARSIZE(z)
  BY TableAgrees
<1>2. DaysTo(y) \in Int /\ DaysTo(z) \in Int
  BY YearCounted
<1>3. Before(y, m) + _ytab(y)[m + 1] <= YEARSIZE(y) /\ Before(z, k) + _ytab(z)[k + 1] <= YEARSIZE(z)
  BY <1>1, MonthsInOrder, 12 \in 0 .. 12, m < 12, k < 12
<1>4. YEARSIZE(y) \in Int /\ YEARSIZE(z) \in Int
  BY DEF YEARSIZE
<1>5. /\ DaysTo(y) <= d /\ d < DaysTo(y) + YEARSIZE(y)
      /\ DaysTo(z) <= d /\ d < DaysTo(z) + YEARSIZE(z)
  BY <1>1, <1>2, <1>3, <1>4 DEF FirstDay
<1>6. y = z
  BY <1>5, YearIs
<1> DEFINE e == d - DaysTo(y)
<1>7. /\ e \in Int /\ Before(y, m) <= e /\ e < Before(y, m) + _ytab(y)[m + 1]
      /\ Before(y, k) <= e /\ e < Before(y, k) + _ytab(y)[k + 1]
  BY <1>1, <1>2, <1>6 DEF FirstDay
<1> HIDE DEF e
<1>8. m = k
  BY <1>7, MonthIs
<1> QED
  BY <1>6, <1>8

\* There is one date for a day.
LEMMA DateIs ==
  ASSUME NEW t \in Fields, NEW e \in Int, Dated(t, e),
         NEW y \in Int, NEW m \in 0 .. 11, NEW d \in Int, 1 <= d, d <= _ytab(y)[m + 1],
         FirstDay(y, m) + d - 1 = e
  PROVE  /\ YEAR0 + t.year = y /\ t.mon = m /\ t.mday = d
         /\ t.yday = Before(y, m) + d - 1
<1>1. /\ YEAR0 + t.year \in Int /\ t.year \in Int /\ t.mon \in 0 .. 11 /\ t.mday \in Int
      /\ Length(t) \in Int /\ Length(t) = _ytab(YEAR0 + t.year)[t.mon + 1]
      /\ t.mday >= 1 /\ t.mday <= Length(t)
      /\ FirstDay(YEAR0 + t.year, t.mon) \in Int /\ FirstDay(YEAR0 + t.year, t.mon) + t.mday - 1 = e
  BY DatedIn
<1>2. FirstDay(y, m) \in Int /\ _ytab(y)[m + 1] \in Int
  <2>1. FirstDay(y, m) \in Int
    BY FirstTyped
  <2>2. _ytab(y)[m + 1] \in Int
    BY TableAgrees
  <2> QED
    BY <2>1, <2>2
<1>3. /\ FirstDay(YEAR0 + t.year, t.mon) <= e
      /\ e < FirstDay(YEAR0 + t.year, t.mon) + _ytab(YEAR0 + t.year)[t.mon + 1]
      /\ FirstDay(y, m) <= e /\ e < FirstDay(y, m) + _ytab(y)[m + 1]
  BY <1>1, <1>2
<1>4. YEAR0 + t.year = y /\ t.mon = m
  BY <1>1, <1>3, DayIs, ZenonT(30)
<1>5. t.mday = d
  BY <1>1, <1>2, <1>4
<1> QED
  BY <1>4, <1>5 DEF Dated

LEMMA LengthOfMonth ==
  ASSUME date \in Fields, date.mon \in 0 .. 11
  PROVE  Civil!LastOfMonth = Length(date)
<1>1. date.mon \in {0, 1, 2, 3, 4, 5, 6, 7, 8, 9, 10, 11}
  OBVIOUS
<1>2. date.year + YEAR0 \in Int /\ date.year + YEAR0 = YEAR0 + date.year
  BY DEF Fields, YEAR0
<1>3. Civil!Leap <=> LEAPYEAR(YEAR0 + date.year)
  <2> DEFINE y == date.year + YEAR0
  <2>1. /\ 4 * (y \div 4) = y <=> y % 4 = 0
        /\ 100 * (y \div 100) = y <=> y % 100 = 0
        /\ 400 * (y \div 400) = y <=> y % 400 = 0
        /\ y % 400 = 0 => y % 4 = 0
    <3>1. y \in Int
      BY <1>2
    <3> HIDE DEF y
    <3> QED
      BY <3>1
  <2> QED
    BY <1>2, <2>1 DEF Civil!Leap, LEAPYEAR
<1> QED
  BY <1>1, <1>3 DEF Civil!LastOfMonth, Length, _ytab

LEMMA CivilInit == CalInit => Civil!Init
BY DEF CalInit, Epoch, YEAR0, Civil!Init

LEMMA CivilStep ==
  ASSUME CalInv, CalInv', KeepDate
  PROVE  Civil!Next
<1> DEFINE y == YEAR0 + date.year  m == date.mon  d == date.mday
<1>1. /\ date \in Fields /\ date' \in Fields /\ today \in Int /\ Dated(date, today) /\ Dated(date', today + 1)
  BY DEF CalInv, CalTypeOK, KeepDate
<1>2. /\ y \in Int /\ date.year \in Int /\ m \in 0 .. 11 /\ d \in Int
      /\ Length(date) \in Int /\ Length(date) = _ytab(y)[m + 1] /\ d >= 1 /\ d <= Length(date)
      /\ FirstDay(y, m) \in Int /\ FirstDay(y, m) + d - 1 = today
  BY <1>1, DatedIn
<1>3. date'.wday = (date.wday + 1) % 7
  BY <1>1 DEF Dated
<1>4. Civil!LastOfMonth = Length(date)
  BY <1>1, <1>2, LengthOfMonth
<1>5. date.yday = Before(y, m) + d - 1 /\ Before(y, m) \in Int
  BY <1>1, <1>2, TableAgrees DEF Dated
<1>6. date'.year \in Int /\ today + 1 \in Int
  BY <1>1 DEF Fields
<1>7. CASE d < Length(date)
  <2> DEFINE later == d + 1
  <2>1. later \in Int /\ 1 <= later /\ later <= _ytab(y)[m + 1] /\ FirstDay(y, m) + later - 1 = today + 1
    BY <1>2, <1>7
  <2> HIDE DEF y, m, d, later
  <2>2. YEAR0 + date'.year = y /\ date'.mon = m /\ date'.mday = later /\ date'.yday = Before(y, m) + later - 1
    BY <1>1, <1>2, <1>6, <2>1, DateIs, SMTT(30)
  <2>3. Civil!WithinMonth
    BY <1>2, <1>4, <1>5, <1>6, <1>7, <2>2 DEF Civil!WithinMonth, y, m, d, later, YEAR0
  <2> QED
    BY <1>3, <2>3 DEF Civil!Next
<1>8. CASE d = Length(date) /\ m < 11
  <2>1. FirstDay(y, m + 1) = FirstDay(y, m) + _ytab(y)[m + 1]
    BY <1>2, <1>8, NextMonth
  <2>2. m + 1 \in 0 .. 11 /\ 1 \in Int
    BY <1>2, <1>8
  <2>3. _ytab(y)[(m + 1) + 1] \in Int /\ 28 <= _ytab(y)[(m + 1) + 1] /\ Before(y, m + 1) = Before(y, m) + _ytab(y)[m + 1]
    BY <1>2, <2>2, TableAgrees
  <2>4. 1 <= _ytab(y)[(m + 1) + 1] /\ FirstDay(y, m + 1) + 1 - 1 = today + 1
    BY <1>2, <1>8, <2>1, <2>3
  <2> HIDE DEF y, m, d
  <2>5. YEAR0 + date'.year = y /\ date'.mon = m + 1 /\ date'.mday = 1 /\ date'.yday = Before(y, m + 1) + 1 - 1
    BY <1>1, <1>2, <1>6, <2>2, <2>4, DateIs, SMTT(30)
  <2>6. Civil!NextMonth
    BY <1>2, <1>4, <1>5, <1>6, <1>8, <2>3, <2>5 DEF Civil!NextMonth, y, m, d, YEAR0
  <2> QED
    BY <1>3, <2>6 DEF Civil!Next
<1>9. CASE d = Length(date) /\ m = 11
  <2>1. FirstDay(y + 1, 0) = FirstDay(y, m) + _ytab(y)[m + 1]
    BY <1>2, <1>9, NextMonth
  <2>2. 0 \in 0 .. 11 /\ 1 \in Int /\ y + 1 \in Int
    BY <1>2
  <2>3. _ytab(y + 1)[0 + 1] = 31 /\ Before(y + 1, 0) = 0
    BY TableAgrees DEF _ytab
  <2>4. 1 <= _ytab(y + 1)[0 + 1] /\ FirstDay(y + 1, 0) + 1 - 1 = today + 1
    BY <1>2, <1>9, <2>1, <2>3
  <2> HIDE DEF y, m, d
  <2>5. YEAR0 + date'.year = y + 1 /\ date'.mon = 0 /\ date'.mday = 1 /\ date'.yday = Before(y + 1, 0) + 1 - 1
    BY <1>1, <1>2, <1>6, <2>2, <2>4, DateIs, SMTT(30)
  <2>6. Civil!NextYear
    BY <1>2, <1>4, <1>5, <1>6, <1>9, <2>3, <2>5 DEF Civil!NextYear, y, m, d, YEAR0
  <2> QED
    BY <1>3, <2>6 DEF Civil!Next
<1> QED
  BY <1>2, <1>7, <1>8, <1>9

\* Whatever else is asked in between, the date that gmtime_r gives for the next
\* day is the next day of the Gregorian calendar, in every field.
THEOREM DatesAreCivil == CalSpec => ImplementsAlmanac
<1>1. CalInv /\ CalInv' /\ [CalNext]_calvars => [Civil!Next]_(Civil!date)
  <2> SUFFICES ASSUME CalInv, CalInv', [CalNext]_calvars PROVE [Civil!Next]_(Civil!date)
    OBVIOUS
  <2>1. CASE KeepDate
    BY <2>1, CivilStep
  <2>2. CASE UNCHANGED date
    BY <2>2 DEF Civil!date
  <2>3. KeepDate \/ UNCHANGED date
    <3>1. ASSUME NEW d, NEW clock, Gmtime(d, clock) PROVE UNCHANGED date
      BY <3>1, Zenon DEF Gmtime
    <3>2. ASSUME NEW c, Change(c) PROVE UNCHANGED date
      BY <3>2, Zenon DEF Change
    <3>3. PassYear \/ FindYear \/ PassMonth \/ FindMonth => UNCHANGED date
      BY Zenon DEF PassYear, FindYear, PassMonth, FindMonth, client
    <3>4. CarryFields \/ Borrow \/ GiveBack => UNCHANGED date
      BY Zenon DEF CarryFields, Borrow, GiveBack, client
    <3>5. TooEarly \/ FindDay \/ CountMonth \/ MakeTime => UNCHANGED date
      BY Zenon DEF TooEarly, FindDay, CountMonth, MakeTime, client
    <3>6. UNCHANGED calvars => UNCHANGED date
      BY DEF calvars, client
    <3> QED
      BY <3>1, <3>2, <3>3, <3>4, <3>5, <3>6 DEF CalNext, Walk, Calculate, AskTomorrow
  <2> QED
    BY <2>1, <2>2, <2>3
<1> QED
  BY <1>1, CalInvInit, CalInvNext, CivilInit, PTL DEF CalSpec, ImplementsAlmanac, Civil!Spec
=============================================================================
