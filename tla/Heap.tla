-------------------------------- MODULE Heap --------------------------------
(***************************************************************************)
(* What an allocator promises: an allocation is a piece of usable memory   *)
(* that belongs to nobody else until it is freed.                          *)
(***************************************************************************)
EXTENDS Integers

CONSTANT Usable  \* the addresses of the machine's usable memory

VARIABLE live    \* the allocations clients hold: records [addr, size]

Bytes(b) == b.addr .. (b.addr + b.size - 1)

Init == live = {}

Malloc(b) ==
  /\ b.size > 0
  /\ Bytes(b) \subseteq Usable
  /\ \A c \in live : Bytes(b) \cap Bytes(c) = {}
  /\ live' = live \union {b}

Free(b) == b \in live /\ live' = live \ {b}

Next == (\E b \in live' \ live : Malloc(b)) \/ (\E b \in live : Free(b))

Spec == Init /\ [][Next]_live
=============================================================================
