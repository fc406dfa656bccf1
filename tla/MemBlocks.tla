------------------------------ MODULE MemBlocks ------------------------------
(***************************************************************************)
(* The physical memory allocator of evilos: mm.c, and kmalloc.c on top of  *)
(* it.                                                                     *)
(*                                                                         *)
(* The chain of mem_block_t from block_head through next is a sequence of  *)
(* blocks.  Every block is an element of the static array blocks[], taken  *)
(* in order, so mem_nr is the length of the chain.  An address or a size   *)
(* is an unsigned long, modulo WORD.                                       *)
(*                                                                         *)
(* The allocator takes no lock.  An operation is atomic here, which is     *)
(* right for one allocating task at a time: init.c runs it with interrupts *)
(* disabled, or from one task.                                             *)
(***************************************************************************)
EXTENDS Integers, FiniteSets, SequencesExt

CONSTANTS MMap,       \* GRUB's memory map: records [addr, len, type]
          WORD,       \* 2^32
          PAGE,       \* 4096
          NR_BLOCKS,  \* the length of blocks[]
          ENTRY,      \* sizeof(struct mem_block_t)
          Requests    \* the sizes clients ask kmalloc for

NULL     == 0
MEM_FREE == 1
MEM_USED == 16

Interval(a, n) == a .. (a + n - 1)

\* The map is that of a machine with its memory below 2^32: entries are not
\* empty, do not overlap and do not use the type MEM_USED.
ASSUME MMapAssumption ==
  /\ MMap \in Seq([addr : Nat, len : Nat \ {0}, type : Nat \ {MEM_USED}])
  /\ \A i \in DOMAIN MMap : MMap[i].len < WORD /\ MMap[i].addr + MMap[i].len <= WORD
  /\ \A i, j \in DOMAIN MMap : i # j =>
       Interval(MMap[i].addr, MMap[i].len) \cap Interval(MMap[j].addr, MMap[j].len) = {}
ASSUME SizeAssumption ==
  /\ WORD \in Nat /\ PAGE \in Nat \ {0} /\ ENTRY \in Nat \ {0} /\ NR_BLOCKS \in Nat
  /\ Len(MMap) < NR_BLOCKS
\* No request is so large that its rounding wraps around.
ASSUME RequestAssumption ==
  Requests \subseteq Nat /\ \A n \in Requests : n + PAGE < WORD

VARIABLES blocks,  \* the chain, records [addr, size, type]
          held,    \* the addresses clients got and have not freed
          zeroed,  \* what the last memset of kmalloc overwrote: [addr, size]
          fault    \* the machine died in mem_malloc

vars == <<blocks, held, zeroed, fault>>

Bytes(b) == Interval(b.addr, b.size)

Block(a, n, ty) == [addr |-> a, size |-> n, type |-> ty]

----------------------------------------------------------------------------
(* mem_init(): every entry of the map is prepended to the chain *)

FromMap(e) == Block(e.addr % WORD, e.len % WORD, e.type)

Init ==
  /\ blocks = [i \in DOMAIN MMap |-> FromMap(MMap[Len(MMap) + 1 - i])]
  /\ held = {}
  /\ zeroed = [addr |-> NULL, size |-> 0]
  /\ fault = FALSE

----------------------------------------------------------------------------
(* mem_malloc() *)

\* Mutant: mem_malloc does not look at the type of a block.
Fits_mutant(i, size) == blocks[i].size >= size

Fits(i, size) == blocks[i].type = MEM_FREE /\ blocks[i].size >= size

FirstFit(i, size) == Fits(i, size) /\ \A j \in 1 .. i - 1 : ~Fits(j, size)

NoFit(size) == \A i \in DOMAIN blocks : ~Fits(i, size)

\* The whole block is handed out.
TakeWhole(i) == blocks' = [blocks EXCEPT ![i].type = MEM_USED]

\* Mutant: off by one, the new block starts one byte late.
CutAt_mutant(i, size) == blocks[i].addr + blocks[i].size - size + 1

\* The upper end of the block is cut off into a new one behind it.
CutAt(i, size) == blocks[i].addr + blocks[i].size - size

\* Mutant: the old block keeps its size.
Split_mutant(i, size) ==
  blocks' = InsertAt(blocks, i + 1, Block(CutAt(i, size), size, MEM_USED))

\* Mutant: the new block is not marked as used.
Split_free(i, size) ==
  blocks' = InsertAt([blocks EXCEPT ![i].size = @ - size], i + 1,
                     Block(CutAt(i, size), size, MEM_FREE))

Split(i, size) ==
  blocks' = InsertAt([blocks EXCEPT ![i].size = @ - size], i + 1,
                     Block(CutAt(i, size), size, MEM_USED))

\* A block can be split while blocks[] has an unused element.
HasEntry == Len(blocks) < NR_BLOCKS - 1

\* mem_malloc(size) returns addr.
Allocate(size, addr) ==
  \/ \E i \in DOMAIN blocks :
       /\ FirstFit(i, size)
       /\ \/ blocks[i].size = size /\ TakeWhole(i) /\ addr = blocks[i].addr
          \/ blocks[i].size > size /\ HasEntry /\ Split(i, size) /\ addr = CutAt(i, size)
  \/ NoFit(size) /\ addr = NULL /\ UNCHANGED blocks

\* With blocks[] full, mem_malloc calls itself for the memory of an entry.  An
\* exact fit for the entry ends the recursion, and the chain then goes through
\* the address of a local variable; any other fit recurses for ever.
OutOfEntries(size) ==
  /\ ~HasEntry
  /\ \E i \in DOMAIN blocks : FirstFit(i, size) /\ blocks[i].size > size
  /\ \E k \in DOMAIN blocks :
       /\ FirstFit(k, ENTRY)
       /\ IF blocks[k].size = ENTRY THEN TakeWhole(k) ELSE UNCHANGED blocks
  /\ fault' = TRUE
  /\ UNCHANGED <<held, zeroed>>

----------------------------------------------------------------------------
(* kmalloc() and kfree(), called by clients that free what they hold, once *)

\* Mutant: a request is rounded down to whole pages.
RoundUp_mutant(size) == (size \div PAGE) * PAGE

RoundUp(size) == (((size + PAGE) % WORD) \div PAGE) * PAGE

\* kmalloc zeroes the memory before anyone looks at the address.
Memset(addr, size) == zeroed' = [addr |-> addr, size |-> size]

Kmalloc(size) ==
  /\ \E addr \in {NULL} \union {CutAt(i, RoundUp(size)) : i \in DOMAIN blocks} :
       /\ Allocate(RoundUp(size), addr)
       /\ Memset(addr, RoundUp(size))
       /\ held' = held \union ({addr} \ {NULL})
  /\ UNCHANGED fault

\* Mutant: mem_free compares with the end of the block.
AtAddr_mutant(i, addr) == blocks[i].addr + blocks[i].size = addr

\* mem_free marks the first block at this address; neighbours are not merged.
AtAddr(i, addr) == blocks[i].addr = addr /\ \A j \in 1 .. i - 1 : blocks[j].addr # addr

Kfree(addr) ==
  /\ IF \E i \in DOMAIN blocks : AtAddr(i, addr)
       THEN \E i \in DOMAIN blocks :
              AtAddr(i, addr) /\ blocks' = [blocks EXCEPT ![i].type = MEM_FREE]
       ELSE UNCHANGED blocks
  /\ held' = held \ {addr}
  /\ UNCHANGED <<zeroed, fault>>

----------------------------------------------------------------------------
Next ==
  /\ ~fault
  /\ \/ \E size \in Requests : Kmalloc(size) \/ OutOfEntries(RoundUp(size))
     \/ \E addr \in held : Kfree(addr)

Spec == Init /\ [][Next]_vars

----------------------------------------------------------------------------
(* Properties *)

\* Every variable has the type its C declaration intends, and no block is ever
\* empty (mm.h).
TypeOK ==
  /\ blocks \in Seq([addr : Nat, size : Nat \ {0}, type : Nat])
  /\ held \subseteq Nat
  /\ zeroed \in [addr : Nat, size : Nat]
  /\ fault \in BOOLEAN

\* No byte belongs to two blocks, however blocks were split, freed and reused
\* (mem_malloc, mem_free).
Disjoint ==
  \A i, j \in DOMAIN blocks : i # j => Bytes(blocks[i]) \cap Bytes(blocks[j]) = {}

IsRam(b) == b.type \in {MEM_FREE, MEM_USED}

\* The bytes of the usable and of the reserved entries of the memory map.
UsableBytes == UNION {Interval(MMap[i].addr, MMap[i].len) :
                        i \in {k \in DOMAIN MMap : MMap[k].type = MEM_FREE}}

\* No memory gets lost or appears: the free and the used blocks cover the usable
\* memory of the map, all of it and nothing of what is reserved.
Conserved ==
  UNION {Bytes(blocks[i]) : i \in {k \in DOMAIN blocks : IsRam(blocks[k])}} = UsableBytes

\* An address a client holds is the address of exactly one block, a used one:
\* mem_free will find the right block.
HeldAreUsed ==
  \A a \in held : \E i \in DOMAIN blocks :
    /\ blocks[i].addr = a
    /\ blocks[i].type = MEM_USED
    /\ \A j \in DOMAIN blocks : blocks[j].addr = a => j = i

\* The only used block nobody holds is the one at address 0, which kmalloc hands
\* out as NULL.
NoLeak ==
  ~fault => \A i \in DOMAIN blocks :
    blocks[i].type = MEM_USED => blocks[i].addr \in held \union {NULL}

\* Clients see an allocator.
HP == INSTANCE Heap WITH
        Usable <- UsableBytes,
        live <- {[addr |-> blocks[i].addr, size |-> blocks[i].size] :
                   i \in {k \in DOMAIN blocks :
                            blocks[k].type = MEM_USED /\ blocks[k].addr \in held}}

\* kmalloc and kfree implement the allocator Heap.
ImplementsHeap == HP!Spec
=============================================================================
