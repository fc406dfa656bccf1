------------------------------- MODULE Sorting -------------------------------
(***************************************************************************)
(* qsort and bsearch of stdlib.c on one array: the caller sorts it, then   *)
(* searches it as often as it likes.  `cmp' compares integers.  qsort (a   *)
(* selection sort) takes one step for each comparison, bsearch one for     *)
(* each round of its loop.  size_t is unsigned and M values wide.          *)
(***************************************************************************)
EXTENDS Integers

CONSTANTS MaxN,   \* bound: the longest array
          M,      \* 2^32 in the code
          Keys    \* what the array holds and what is looked for

ASSUME SortingAssumption ==
  MaxN \in Nat /\ M \in Nat /\ M > MaxN /\ Keys \subseteq Int

VARIABLES n, base,             \* the array
          given,               \* what the caller put into it
          pc,
          i, j, swap,          \* of qsort
          key, top, bottom,    \* of bsearch
          found                \* what bsearch returns

array == <<n, base, given>>
qsort == <<i, j, swap>>
bsearch == <<key, top, bottom, found>>
sortvars == <<array, pc, qsort, bsearch>>

NULL == -1
Index == 0..(n - 1)

\* Mutant: the last element is never compared.
Inside_mutant(x) == x < n - 1

\* j < n
Inside(x) == x < n

\* i < n-1, where n-1 is unsigned.
Rounds == (n - 1) % M

Outer ==
  /\ pc = "outer"
  /\ IF i < Rounds THEN swap' = i /\ j' = i + 1 /\ pc' = "inner"
                   ELSE pc' = "sorted" /\ UNCHANGED <<j, swap>>
  /\ UNCHANGED <<array, i, bsearch>>

Inner ==
  /\ pc = "inner" /\ Inside(j)
  /\ swap' = IF base[j] < base[swap] THEN j ELSE swap
  /\ j' = j + 1
  /\ UNCHANGED <<array, pc, i, bsearch>>

Exchange ==
  /\ pc = "inner" /\ ~Inside(j)
  /\ base' = IF swap = i THEN base
             ELSE [base EXCEPT ![i] = base[swap], ![swap] = base[i]]
  /\ i' = i + 1
  /\ pc' = "outer"
  /\ UNCHANGED <<n, given, j, swap, bsearch>>

Search(k) ==
  /\ pc \in {"sorted", "found"}
  /\ key' = k /\ top' = 0 /\ bottom' = n - 1
  /\ pc' = "search"
  /\ UNCHANGED <<array, qsort, found>>

Middle == (bottom + top) \div 2

\* Mutant: only an interval of one element is the end.
AtEnd_mutant == top = bottom

\* Two elements are left.
AtEnd == Middle = top \/ Middle = bottom

\* Mutant: bottom goes below middle, as in the usual formulation.
Below_mutant == Middle - 1

\* The new bottom when the key is less.
Below == Middle

Found(x) == found' = x /\ pc' = "found" /\ UNCHANGED <<array, qsort, key, top, bottom>>

Halve ==
  /\ IF key < base[Middle] THEN bottom' = Below /\ top' = top ELSE top' = Middle /\ bottom' = bottom
  /\ UNCHANGED <<array, pc, qsort, key, found>>

Probe ==
  /\ pc = "search"
  /\ IF top >= bottom THEN Found(NULL)
     ELSE IF AtEnd THEN
       Found(IF base[top] = key THEN top ELSE IF base[bottom] = key THEN bottom ELSE NULL)
     ELSE IF base[Middle] = key THEN Found(Middle)
     ELSE Halve

SortInit ==
  /\ n \in 0..MaxN
  /\ given \in [Index -> Keys]
  /\ base = given
  /\ pc = "outer"
  /\ i = 0 /\ j = 0 /\ swap = 0
  /\ key \in Keys /\ top = 0 /\ bottom = 0 /\ found = NULL

SortNext == Outer \/ Inner \/ Exchange \/ Probe \/ \E k \in Keys : Search(k)

SortSpec == SortInit /\ [][SortNext]_sortvars /\ WF_sortvars(Probe)

----------------------------------------------------------------------------
(* Properties *)

Ascending(a) == \A x, y \in Index : x <= y => a[x] <= a[y]

IsPermutation(p) == \A y \in Index : \E x \in Index : p[x] = y

\* qsort leaves what it was given, in ascending order.
Sorts ==
  pc \in {"sorted", "search", "found"} =>
    /\ Ascending(base)
    /\ \E p \in [Index -> Index] : IsPermutation(p) /\ \A x \in Index : base[x] = given[p[x]]

\* bsearch finds a key that is there and returns NULL for one that is not;
\* of an array of one element it says that nothing is there, which is why
\* that case is left out.
Finds ==
  (pc = "found" /\ n # 1) =>
    IF found = NULL THEN \A x \in Index : base[x] # key
                    ELSE found \in Index /\ base[found] = key

\* bsearch comes to an end: the interval does not stay the same.
SearchEnds == pc = "search" ~> pc = "found"
=============================================================================
