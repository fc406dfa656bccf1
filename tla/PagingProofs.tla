---------------------------- MODULE PagingProofs ----------------------------
(***************************************************************************)
(* The invariants of module Paging, for a directory and tables of any      *)
(* size.                                                                   *)
(***************************************************************************)
EXTENDS Paging, TLAPS

USE PagingAssumption

\* After page_init the directory refers to the tables in order.
DirOK ==
  /\ ~pg => mapped = {}
  /\ pg => \A k \in 0 .. DIRS - 1 : pdir[k] = TableOf(k)

PagingInv == TypeOK /\ DirOK /\ Remembered /\ IdentityBelow

----------------------------------------------------------------------------
(* Page numbers and their indices *)

LEMMA Indices ==
  ASSUME NEW v \in Page
  PROVE  /\ pdindex(v) \in 0 .. DIRS - 1
         /\ ptindex(v) \in 0 .. ENTRIES - 1
         /\ v = pdindex(v) * ENTRIES + ptindex(v)
<1>1. /\ v \div ENTRIES \in Int /\ v % ENTRIES \in 0 .. ENTRIES - 1
      /\ v = (v \div ENTRIES) * ENTRIES + (v % ENTRIES)
      /\ v \in Nat /\ v < DIRS * ENTRIES
  BY DEF Page
<1>2. v \div ENTRIES >= 0
  <2> SUFFICES ASSUME v \div ENTRIES <= -1 PROVE FALSE
    BY <1>1
  <2>1. ((v \div ENTRIES) + 1) * ENTRIES <= 0
    BY <1>1
  <2>2. ((v \div ENTRIES) + 1) * ENTRIES = (v \div ENTRIES) * ENTRIES + ENTRIES
    BY <1>1
  <2> QED
    BY <1>1, <2>1, <2>2
<1>3. v \div ENTRIES <= DIRS - 1
  <2> SUFFICES ASSUME v \div ENTRIES >= DIRS PROVE FALSE
    BY <1>1
  <2>1. ((v \div ENTRIES) - DIRS) * ENTRIES >= 0
    BY <1>1
  <2>2. ((v \div ENTRIES) - DIRS) * ENTRIES = (v \div ENTRIES) * ENTRIES - DIRS * ENTRIES
    BY <1>1
  <2> QED
    BY <1>1, <2>1, <2>2
<1> QED
  BY <1>1, <1>2, <1>3 DEF pdindex, ptindex

\* No two pages have the same entry.
LEMMA SlotsDiffer ==
  \A v, w \in Page : pdindex(v) = pdindex(w) /\ ptindex(v) = ptindex(w) => v = w
<1> SUFFICES ASSUME NEW v \in Page, NEW w \in Page, pdindex(v) = pdindex(w), ptindex(v) = ptindex(w)
             PROVE  v = w
  OBVIOUS
<1>1. v = pdindex(v) * ENTRIES + ptindex(v) /\ w = pdindex(w) * ENTRIES + ptindex(w)
  BY Indices
<1> QED
  BY <1>1

----------------------------------------------------------------------------
LEMMA PagingInvInit == Init => PagingInv
<1> SUFFICES ASSUME Init PROVE PagingInv
  OBVIOUS
<1>1. PICK junk \in Page : table = [n \in TableNo |-> [i \in 0 .. ENTRIES - 1 |-> junk]]
  BY DEF Init
<1>2. table \in [TableNo -> [0 .. ENTRIES - 1 -> Page]]
  BY <1>1
<1>3. pdir \in [0 .. DIRS - 1 -> TableNo]
  BY DEF Init, TableNo
<1> QED
  BY <1>2, <1>3 DEF Init, PagingInv, TypeOK, DirOK, Remembered, IdentityBelow

LEMMA PageInitStep == PagingInv /\ PageInit => PagingInv'
<1> SUFFICES ASSUME PagingInv, PageInit PROVE PagingInv'
  OBVIOUS
<1>1. ASSUME NEW n \in TableNo, NEW k \in 0 .. DIRS - 1, n = TableOf(k)
      PROVE  table'[n] = [i \in 0 .. ENTRIES - 1 |-> Identity(k, i)]
  <2>1. \A m \in 0 .. DIRS - 1 : n = TableOf(m) => m = k
    BY <1>1 DEF TableOf
  <2>2. (CHOOSE m \in 0 .. DIRS - 1 : n = TableOf(m)) = k
    BY <1>1, <2>1
  <2> QED
    BY <1>1, <2>2 DEF PageInit
<1>2. \A k \in 0 .. DIRS - 1, i \in 0 .. ENTRIES - 1 : Identity(k, i) \in Page
  <2> SUFFICES ASSUME NEW k \in 0 .. DIRS - 1, NEW i \in 0 .. ENTRIES - 1
               PROVE  Identity(k, i) \in Page
    OBVIOUS
  <2>1. (DIRS - 1 - k) * ENTRIES >= 0 /\ k * ENTRIES \in Nat
    OBVIOUS
  <2>2. (DIRS - 1 - k) * ENTRIES = DIRS * ENTRIES - ENTRIES - k * ENTRIES
    OBVIOUS
  <2> QED
    BY <2>1, <2>2 DEF Identity, Page
<1>3. \A n \in TableNo : table'[n] \in [0 .. ENTRIES - 1 -> Page]
  <2> SUFFICES ASSUME NEW n \in TableNo PROVE table'[n] \in [0 .. ENTRIES - 1 -> Page]
    OBVIOUS
  <2>1. CASE \E k \in 0 .. DIRS - 1 : n = TableOf(k)
    <3>1. PICK k \in 0 .. DIRS - 1 : n = TableOf(k)
      BY <2>1
    <3>2. table'[n] = [i \in 0 .. ENTRIES - 1 |-> Identity(k, i)]
      BY <1>1, <3>1
    <3> QED
      BY <1>2, <3>2
  <2>2. CASE ~ \E k \in 0 .. DIRS - 1 : n = TableOf(k)
    BY <2>2 DEF PageInit, PagingInv, TypeOK
  <2> QED
    BY <2>1, <2>2
<1>4. TypeOK'
  <2>1. table' \in [TableNo -> [0 .. ENTRIES - 1 -> Page]]
    BY <1>3 DEF PageInit
  <2>2. pdir' \in [0 .. DIRS - 1 -> TableNo]
    BY DEF PageInit, TableOf, TableNo
  <2> QED
    BY <2>1, <2>2 DEF PageInit, PagingInv, TypeOK
<1>5. DirOK' /\ mapped' = {}
  BY DEF PageInit, PagingInv, DirOK
<1>6. \A v \in Page : Walk(v)' = v
  <2> SUFFICES ASSUME NEW v \in Page PROVE table'[pdir'[pdindex(v)]][ptindex(v)] = v
    BY DEF Walk, pdindex, ptindex
  <2>1. pdindex(v) \in 0 .. DIRS - 1 /\ ptindex(v) \in 0 .. ENTRIES - 1 /\ v = pdindex(v) * ENTRIES + ptindex(v)
    BY Indices
  <2>2. pdir'[pdindex(v)] = TableOf(pdindex(v)) /\ TableOf(pdindex(v)) \in TableNo
    BY <2>1 DEF PageInit, TableOf, TableNo
  <2>3. table'[TableOf(pdindex(v))] = [i \in 0 .. ENTRIES - 1 |-> Identity(pdindex(v), i)]
    BY <1>1, <2>1, <2>2
  <2> QED
    BY <2>1, <2>2, <2>3 DEF Identity
<1> QED
  BY <1>4, <1>5, <1>6 DEF PagingInv, Remembered, IdentityBelow

LEMMA MapPageStep ==
  ASSUME PagingInv, NEW v \in Page, NEW f \in Page, MapPage(f, v)
  PROVE  PagingInv'
<1> DEFINE d == pdindex(v)
           i == ptindex(v)
<1>1. /\ table' = [table EXCEPT ![d][i] = f] /\ pg /\ UNCHANGED <<pdir, pg>>
      /\ mapped' = {e \in mapped : e[1] # v} \union {<<v, f>>} /\ tlb' \subseteq tlb
  BY DEF MapPage, Slot, Flushed
<1>2. d \in 0 .. DIRS - 1 /\ i \in 0 .. ENTRIES - 1 /\ d \in TableNo /\ v = d * ENTRIES + i
  BY Indices DEF TableNo
<1>d. d = pdindex(v) /\ i = ptindex(v)
  OBVIOUS
<1> HIDE DEF d, i
<1>3. /\ table' \in [TableNo -> [0 .. ENTRIES - 1 -> Page]]
      /\ \A n \in TableNo, j \in 0 .. ENTRIES - 1 :
           table'[n][j] = IF n = d /\ j = i THEN f ELSE table[n][j]
  BY <1>1, <1>2 DEF PagingInv, TypeOK
<1>4. mapped' \subseteq Page \X Page
  BY <1>1 DEF PagingInv, TypeOK
<1>5. TypeOK' /\ DirOK'
  BY <1>1, <1>3, <1>4 DEF PagingInv, TypeOK, DirOK
<1>6. Remembered'
  <2> SUFFICES ASSUME NEW e \in mapped' PROVE table'[pdindex(e[1])][ptindex(e[1])] = e[2]
    BY DEF Remembered, get_physaddr, Slot, pdindex, ptindex
  <2>1. e[1] \in Page
    BY <1>4
  <2>2. pdindex(e[1]) \in TableNo /\ ptindex(e[1]) \in 0 .. ENTRIES - 1
    BY <2>1, Indices DEF TableNo
  <2>3. CASE e = <<v, f>>
    BY <1>d, <1>3, <2>2, <2>3
  <2>4. CASE e # <<v, f>>
    <3>1. e \in mapped /\ e[1] # v
      BY <1>1, <2>4
    <3>2. table[pdindex(e[1])][ptindex(e[1])] = e[2]
      BY <3>1 DEF PagingInv, Remembered, get_physaddr, Slot
    <3>3. ~(pdindex(e[1]) = d /\ ptindex(e[1]) = i)
      BY <1>d, <2>1, <3>1, SlotsDiffer
    <3> QED
      BY <1>3, <2>2, <3>2, <3>3
  <2> QED
    BY <2>3, <2>4
<1>7. IdentityBelow'
  <2> SUFFICES ASSUME NEW w \in Page
               PROVE  \/ table'[pdir'[pdindex(w)]][ptindex(w)] = w
                      \/ \E e \in mapped' : e[1] = w + ENTRIES
    BY DEF IdentityBelow, Walk, pdindex, ptindex
  <2>1. pdindex(w) \in 0 .. DIRS - 1 /\ ptindex(w) \in 0 .. ENTRIES - 1 /\ w = pdindex(w) * ENTRIES + ptindex(w)
    BY Indices
  <2>2. pdir'[pdindex(w)] = pdindex(w) + 1 /\ pdir[pdindex(w)] = pdindex(w) + 1 /\ pdindex(w) + 1 \in TableNo
    BY <1>1, <2>1 DEF PagingInv, DirOK, TableOf, TableNo
  <2>3. CASE pdindex(w) + 1 = d /\ ptindex(w) = i
    <3>1. (pdindex(w) + 1) * ENTRIES = pdindex(w) * ENTRIES + ENTRIES
      BY <2>1
    <3>2. v = w + ENTRIES
      BY <1>2, <2>1, <2>3, <3>1
    <3>3. <<v, f>> \in mapped' /\ <<v, f>>[1] = w + ENTRIES
      BY <1>1, <3>2
    <3> QED
      BY <3>3
  <2>4. CASE ~(pdindex(w) + 1 = d /\ ptindex(w) = i)
    <3>1. table'[pdir'[pdindex(w)]][ptindex(w)] = Walk(w)
      BY <1>3, <2>1, <2>2, <2>4 DEF Walk
    <3>2. Walk(w) = w \/ \E e \in mapped : e[1] = w + ENTRIES
      BY <1>1 DEF PagingInv, IdentityBelow
    <3>3. ASSUME NEW e \in mapped, e[1] = w + ENTRIES PROVE \E g \in mapped' : g[1] = w + ENTRIES
      <4>1. CASE e[1] = v
        <5>1. <<v, f>> \in mapped' /\ <<v, f>>[1] = w + ENTRIES
          BY <1>1, <3>3, <4>1
        <5> QED
          BY <5>1
      <4>2. CASE e[1] # v
        BY <1>1, <3>3, <4>2
      <4> QED
        BY <4>1, <4>2
    <3> QED
      BY <3>1, <3>2, <3>3
  <2> QED
    BY <2>3, <2>4
<1> QED
  BY <1>5, <1>6, <1>7 DEF PagingInv

LEMMA TlbStep ==
  ASSUME PagingInv, NEW v \in Page, Access(v) \/ Evict(v)
  PROVE  PagingInv'
<1>1. UNCHANGED <<pdir, table, pg, mapped>>
  BY DEF Access, Evict
<1>2. tlb' \subseteq Page \X Page
  <2>1. CASE Access(v)
    <3>1. Walk(v) \in Page
      BY Indices DEF Walk, PagingInv, TypeOK
    <3> QED
      BY <2>1, <3>1 DEF Access, PagingInv, TypeOK
  <2>2. CASE Evict(v)
    BY <2>2 DEF Evict, PagingInv, TypeOK
  <2> QED
    BY <2>1, <2>2
<1> QED
  BY <1>1, <1>2 DEF PagingInv, TypeOK, DirOK, Remembered, IdentityBelow, get_physaddr, Slot, Walk

LEMMA PagingInvNext == PagingInv /\ [Next]_vars => PagingInv'
<1> SUFFICES ASSUME PagingInv, [Next]_vars PROVE PagingInv'
  OBVIOUS
<1>1. CASE PageInit
  BY <1>1, PageInitStep
<1>2. CASE \E v \in Page : Access(v) \/ Evict(v)
  BY <1>2, TlbStep
<1>3. CASE \E v \in Page \ {DirPage}, f \in Page : MapPage(f, v)
  BY <1>3, MapPageStep
<1>4. CASE UNCHANGED vars
  BY <1>4 DEF vars, PagingInv, TypeOK, DirOK, Remembered, IdentityBelow, get_physaddr, Slot, Walk
<1> QED
  BY <1>1, <1>2, <1>3, <1>4 DEF Next

\* The page tables say of every page what map_page was last told of it: no
\* other call, and no order of calls, overwrites an entry.
THEOREM MappingsRemembered == Spec => [](TypeOK /\ Remembered)
<1>1. PagingInv => TypeOK /\ Remembered
  BY DEF PagingInv
<1> QED
  BY <1>1, PagingInvInit, PagingInvNext, PTL DEF Spec

\* A page translates to itself unless map_page was called for the page one
\* directory entry above it, because map_page and page_map_all number the
\* tables differently.
THEOREM IdentityKept == Spec => []IdentityBelow
<1>1. PagingInv => IdentityBelow
  BY DEF PagingInv
<1> QED
  BY <1>1, PagingInvInit, PagingInvNext, PTL DEF Spec
=============================================================================
