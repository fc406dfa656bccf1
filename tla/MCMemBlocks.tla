---------------------------- MODULE MCMemBlocks ----------------------------
(***************************************************************************)
(* A small machine: conventional memory from address 0, the hole above it  *)
(* and extended memory that is not a whole number of pages.                *)
(***************************************************************************)
EXTENDS MemBlocks

Entry(a, n, ty) == [addr |-> a, len |-> n, type |-> ty]

SmallMap == <<Entry(0, 12, 1), Entry(12, 4, 2), Entry(16, 14, 1)>>
=============================================================================
