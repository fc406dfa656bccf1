------------------------------ MODULE Copying ------------------------------
(***************************************************************************)
(* memcpy and memmove of string.c and bcopy of libcc.c, byte by byte or    *)
(* word by word, on one memory in which the areas may overlap.             *)
(***************************************************************************)
EXTENDS Integers

CONSTANTS Top,     \* bound: the last address
          Word,    \* what memcpy moves at a time: 4 bytes
          Bytes    \* what a byte can hold

ASSUME CopyingAssumption == Top \in Nat /\ Word \in Nat \ {0}

VARIABLES memory, before,    \* the memory now and at the call
          fn,                \* the function called
          src, dest, size,   \* its arguments
          left,              \* the n that is still to be copied
          running

call == <<before, fn, src, dest, size>>
copyvars == <<memory, call, left, running>>

Address == 0..Top

\* Mutant: the areas are compared the wrong way round.
Backwards_mutant == dest <= src

\* if (s <= d): from the end.
Backwards == src <= dest

\* The next byte, from the front, and from the end.
Front == size - left
Moved(k, w) == [a \in Address |-> IF a \in (dest + k)..(dest + k + w - 1)
                                  THEN memory[a - dest + src] ELSE memory[a]]

Advance(k, w) ==
  /\ memory' = Moved(k, w)
  /\ left' = left - w
  /\ UNCHANGED <<call, running>>

bcopy ==
  /\ running /\ fn = "bcopy" /\ left > 0
  /\ Advance(IF Backwards THEN left - 1 ELSE Front, 1)

memmove ==
  /\ running /\ fn = "memmove" /\ left > 0
  /\ Advance(Front, 1)

memcpy ==
  /\ running /\ fn = "memcpy" /\ left > 0
  /\ Advance(Front, IF left >= Word THEN Word ELSE 1)

Return ==
  /\ running /\ left = 0
  /\ running' = FALSE
  /\ UNCHANGED <<memory, call, left>>

CopyInit ==
  /\ before \in [Address -> Bytes]
  /\ memory = before
  /\ fn \in {"bcopy", "memmove", "memcpy"}
  /\ src \in Address /\ dest \in Address
  /\ size \in 0..(Top + 1) /\ src + size <= Top + 1 /\ dest + size <= Top + 1
  /\ left = size
  /\ running = TRUE

CopyNext == bcopy \/ memmove \/ memcpy \/ Return

CopySpec == CopyInit /\ [][CopyNext]_copyvars

----------------------------------------------------------------------------
(* Properties *)

Copied == [a \in Address |-> IF a \in dest..(dest + size - 1) THEN before[a - dest + src] ELSE before[a]]

\* Where memcpy and memmove may be used: not with an overlap to the right.
Usable == fn = "bcopy" \/ dest <= src \/ src + size <= dest

\* The destination ends up with what the source held at the call and nothing
\* else changes: for bcopy however the areas overlap, as its comment says,
\* for the other two unless the destination begins inside the source.
CopiesRight == (~running /\ Usable) => memory = Copied
=============================================================================
