------------------------------- MODULE Dates -------------------------------
(***************************************************************************)
(* The arithmetic of time.c that needs no loop: leap years, the days that  *)
(* come before a year, and the division that carries a field of a struct   *)
(* tm into the next one.                                                   *)
(***************************************************************************)
EXTENDS Integers

YEAR0 == 1900
EPOCH_YR == 1970
SECS_DAY == 86400

LEAPYEAR(y) == y % 4 = 0 /\ (y % 100 # 0 \/ y % 400 = 0)
YEARSIZE(y) == IF LEAPYEAR(y) THEN 366 ELSE 365

\* Division in C: towards zero.
Quot(a, b) == IF a >= 0 THEN a \div b ELSE -((-a) \div b)
Rem(a, b) == a - b * Quot(a, b)

\* x /= b with the remainder made positive: <<carry, rest>>.
Carry(a, b) == IF Rem(a, b) < 0 THEN <<Quot(a, b) - 1, Rem(a, b) + b>> ELSE <<Quot(a, b), Rem(a, b)>>

\* Mutant: the year that is not yet over counts as well.
Multiples_mutant(y, k) == (y - EPOCH_YR) \div k

\* The multiples of k among the years from the epoch to y: leap days or not.
Multiples(y, k) ==
  (y - EPOCH_YR) \div k + (IF y % k # 0 /\ y % k < EPOCH_YR % k THEN 1 ELSE 0)

\* The days before the year y.
DaysTo(y) == (y - EPOCH_YR) * 365 + Multiples(y, 4) - Multiples(y, 100) + Multiples(y, 400)
=============================================================================
