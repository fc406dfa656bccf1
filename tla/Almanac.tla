------------------------------ MODULE Almanac ------------------------------
(***************************************************************************)
(* The Gregorian calendar, one day after the other.                        *)
(***************************************************************************)
EXTENDS Integers

VARIABLES year, month, day,   \* month and day count from 1
          yday, wday          \* since January 1, since Sunday

date == <<year, month, day, yday, wday>>

Leap == (4 * (year \div 4) = year /\ 100 * (year \div 100) # year) \/ 400 * (year \div 400) = year

LastOfMonth ==
  CASE month = 2                -> IF Leap THEN 29 ELSE 28
    [] month \in {4, 6, 9, 11}  -> 30
    [] OTHER                    -> 31

Init == year = 1970 /\ month = 1 /\ day = 1 /\ yday = 0 /\ wday = 4

WithinMonth == day < LastOfMonth /\ day' = day + 1 /\ yday' = yday + 1 /\ UNCHANGED <<year, month>>
NextMonth   == day = LastOfMonth /\ month < 12 /\ day' = 1 /\ month' = month + 1 /\ yday' = yday + 1 /\ year' = year
NextYear    == day = LastOfMonth /\ month = 12 /\ day' = 1 /\ month' = 1 /\ yday' = 0 /\ year' = year + 1

Next == (WithinMonth \/ NextMonth \/ NextYear) /\ wday' = (wday + 1) % 7

Spec == Init /\ [][Next]_date
=============================================================================
