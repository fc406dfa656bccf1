------------------------------- MODULE Paging -------------------------------
(***************************************************************************)
(* The page tables of page.c and the translation the processor makes of    *)
(* them, with its TLB.                                                     *)
(*                                                                         *)
(* A page number is a directory index and a table index.  The memory from  *)
(* PAGE_TABLE_ADDR on is a sequence of tables, numbered from 0; an entry   *)
(* holds the frame, its flags are left out.  The kernel reaches the tables *)
(* at their physical addresses, so the pages that map_page is used for are *)
(* not those of the tables.                                                *)
(***************************************************************************)
EXTENDS Integers

CONSTANTS DIRS,     \* entries of the directory (1024)
          ENTRIES,  \* entries of a table (1024)
          DirPage   \* the page of PAGE_DIR_ADDR

ASSUME PagingAssumption ==
  /\ DIRS \in Nat \ {0} /\ ENTRIES \in Nat \ {0}
  /\ DirPage \in 0 .. DIRS * ENTRIES - 1

Page == 0 .. DIRS * ENTRIES - 1
TableNo == 0 .. DIRS

VARIABLES pdir,    \* the table of each directory entry
          table,   \* the memory from PAGE_TABLE_ADDR on
          pg,      \* CR0.PG: paging is on
          tlb,     \* the translations the processor has cached: <<page, frame>>
          mapped   \* what map_page was last asked to do: <<page, frame>>

vars == <<pdir, table, pg, tlb, mapped>>

pdindex(v) == v \div ENTRIES
ptindex(v) == v % ENTRIES

----------------------------------------------------------------------------
(* The processor *)

\* The frame that the tables give for page v.
Walk(v) == table[pdir[pdindex(v)]][ptindex(v)]

Cached == {e[1] : e \in tlb}

\* An access to a page whose translation is not cached.
Access(v) ==
  /\ pg
  /\ v \notin Cached
  /\ tlb' = tlb \union {<<v, Walk(v)>>}
  /\ UNCHANGED <<pdir, table, pg, mapped>>

\* The TLB may drop an entry at any time.
Evict(v) ==
  /\ v \in Cached
  /\ tlb' = {e \in tlb : e[1] # v}
  /\ UNCHANGED <<pdir, table, pg, mapped>>

----------------------------------------------------------------------------
(* page.c *)

\* page_map_all: the table of entry k is one page after PAGE_TABLE_ADDR + k
\* pages, and the frames count up through all of them.
TableOf(k) == k + 1

\* Mutant: the address starts again from 0 in every table.
Identity_mutant(k, i) == i

Identity(k, i) == k * ENTRIES + i

PageInit ==
  /\ ~pg
  /\ pdir' = [k \in 0 .. DIRS - 1 |-> TableOf(k)]
  /\ table' = [n \in TableNo |->
       IF \E k \in 0 .. DIRS - 1 : n = TableOf(k)
         THEN LET k == CHOOSE k \in 0 .. DIRS - 1 : n = TableOf(k)
              IN [i \in 0 .. ENTRIES - 1 |-> Identity(k, i)]
         ELSE table[n]]
  /\ pg' = TRUE
  /\ UNCHANGED <<tlb, mapped>>

\* Mutant: the bits of the table index are taken from the wrong place.
Slot_mutant(v) == <<pdindex(v), pdindex(v) % ENTRIES>>

\* The entry that get_physaddr and map_page take for that of page v.
Slot(v) == <<pdindex(v), ptindex(v)>>

get_physaddr(v) == table[Slot(v)[1]][Slot(v)[2]]

\* The operand of the invlpg is the directory.
Flushed == {e \in tlb : e[1] # DirPage}

MapPage(f, v) ==
  /\ pg
  /\ table' = [table EXCEPT ![Slot(v)[1]][Slot(v)[2]] = f]
  /\ tlb' = Flushed
  /\ mapped' = {e \in mapped : e[1] # v} \union {<<v, f>>}
  /\ UNCHANGED <<pdir, pg>>

----------------------------------------------------------------------------
\* The memory of the tables holds anything at first.
Init ==
  /\ \E junk \in Page : table = [n \in TableNo |-> [i \in 0 .. ENTRIES - 1 |-> junk]]
  /\ pdir = [k \in 0 .. DIRS - 1 |-> 0]
  /\ pg = FALSE
  /\ tlb = {}
  /\ mapped = {}

Next ==
  \/ PageInit
  \/ \E v \in Page : Access(v) \/ Evict(v)
  \/ \E v \in Page \ {DirPage}, f \in Page : MapPage(f, v)

Spec == Init /\ [][Next]_vars

----------------------------------------------------------------------------
(* Properties *)

\* Every variable has the type its C declaration intends, and the directory
\* refers to the tables that page_map_all fills (page.c, page.h).
TypeOK ==
  /\ pdir \in [0 .. DIRS - 1 -> TableNo]
  /\ table \in [TableNo -> [0 .. ENTRIES - 1 -> Page]]
  /\ pg \in BOOLEAN
  /\ tlb \subseteq Page \X Page
  /\ mapped \subseteq Page \X Page

\* The frame of a page, as get_physaddr tells it, is the one map_page gave it
\* last, whatever other pages were mapped since.
Remembered == \A e \in mapped : get_physaddr(e[1]) = e[2]

\* With paging on, a page translates to itself, as page_map_all set it up,
\* unless map_page was called for the page one directory entry above it.
IdentityBelow ==
  pg => \A v \in Page :
    Walk(v) = v \/ \E e \in mapped : e[1] = v + ENTRIES

\* "Now you need to flush the entry in the TLB or you might not notice the
\* change": the processor translates no page by what the tables used to say.
ChangeNoticed == \A e \in tlb : e[2] = Walk(e[1])
=============================================================================
