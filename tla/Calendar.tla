------------------------------ MODULE Calendar ------------------------------
(***************************************************************************)
(* gmtime_r and mktime of time.c, one action for each round of their       *)
(* loops.  A program keeps a date and asks for that of the next day, or it *)
(* asks for any day, changes the fields it is given and has mktime make a  *)
(* time of them.  A time is a day number and the seconds of that day.  TZ  *)
(* is GMT: nothing sets _timezone or _dstbias.                             *)
(*                                                                         *)
(* Integers are unbounded here.  The tests of mktime for a product that    *)
(* does not fit its word all end in -1, as the last one does, which is     *)
(* there.                                                                  *)
(***************************************************************************)
EXTENDS Dates

CONSTANTS Days,       \* the day numbers that are asked for
          Clocks,     \* the times of day that are asked for
          Changes,    \* what the program adds to the fields of a struct tm
          LastDay,    \* bound: the last day whose date is kept
          MaxTime     \* TIME_MAX, as <<days, seconds>>

CalendarAssumption ==
  /\ Days \subseteq Nat /\ Clocks \subseteq 0 .. SECS_DAY - 1 /\ LastDay \in Nat
  /\ Changes \subseteq [sec : Int, min : Int, hour : Int, mday : Int, mon : Int, year : Int]
  /\ MaxTime[1] \in Nat \ {0} /\ MaxTime[2] \in 0 .. SECS_DAY - 1

ASSUME CalendarAssumption

VARIABLES stage,      \* the loop that runs
          tm,         \* *tmbuf
          year,       \* local of gmtime_r
          day,        \* dayno of gmtime_r, day of mktime
          month,      \* locals of mktime
          yday,
          time,       \* what mktime returned
          meant,      \* the time the program wants: history
          today,      \* the day of which it keeps the date
          date        \* that date

locals  == <<year, day, month, yday>>
client  == <<meant, today, date>>
calvars == <<stage, tm, locals, time, client>>

_ytab(y) == <<31, IF LEAPYEAR(y) THEN 29 ELSE 28, 31, 30, 31, 30, 31, 31, 30, 31, 30, 31>>

\* (time_t) -1, the second before the epoch.
NoTime == <<-1, SECS_DAY - 1>>

----------------------------------------------------------------------------
(* gmtime_r *)

Gmtime(d, clock) ==
  /\ stage = "idle"
  /\ tm' = [tm EXCEPT !.sec = clock % 60, !.min = (clock % 3600) \div 60, !.hour = clock \div 3600,
                      !.wday = (d + 4) % 7]
  /\ day' = d /\ year' = EPOCH_YR
  /\ meant' = <<d, clock>>
  /\ stage' = "year"
  /\ UNCHANGED <<month, yday, time, today, date>>

YearOver == day >= YEARSIZE(year)

PassYear ==
  /\ stage = "year" /\ YearOver
  /\ day' = day - YEARSIZE(year) /\ year' = year + 1
  /\ UNCHANGED <<stage, tm, month, yday, time, client>>

FindYear ==
  /\ stage = "year" /\ ~YearOver
  /\ tm' = [tm EXCEPT !.year = year - YEAR0, !.yday = day, !.mon = 0]
  /\ stage' = "month"
  /\ UNCHANGED <<locals, time, client>>

PassMonth ==
  /\ stage = "month" /\ day >= _ytab(year)[tm.mon + 1]
  /\ day' = day - _ytab(year)[tm.mon + 1]
  /\ tm' = [tm EXCEPT !.mon = @ + 1]
  /\ UNCHANGED <<stage, year, month, yday, time, client>>

\* Mutant: the days of a month count from 0, as its months do.
FindMonth_mutant ==
  /\ stage = "month" /\ day < _ytab(year)[tm.mon + 1]
  /\ tm' = [tm EXCEPT !.mday = day]
  /\ stage' = "found"
  /\ UNCHANGED <<locals, time, client>>

FindMonth ==
  /\ stage = "month" /\ day < _ytab(year)[tm.mon + 1]
  /\ tm' = [tm EXCEPT !.mday = day + 1]
  /\ stage' = "found"
  /\ UNCHANGED <<locals, time, client>>

----------------------------------------------------------------------------
(* mktime *)

CarryFields ==
  LET min  == Carry(tm.sec, 60)
      hour == Carry(tm.min + min[1], 60)
      late == Carry(tm.hour + hour[1], 24)
      over == Carry(tm.mon, 12) IN
  /\ stage = "changed"
  /\ tm' = [tm EXCEPT !.sec = min[2], !.min = hour[2], !.hour = late[2],
                      !.mon = over[2], !.year = @ + over[1]]
  /\ day' = late[1] + tm.mday - 1
  /\ stage' = "carried"
  /\ UNCHANGED <<year, month, yday, time, client>>

\* Where the month before that of t begins, in which struct tm.
MonthBefore(t) == IF t.mon = 0 THEN [t EXCEPT !.mon = 11, !.year = @ - 1] ELSE [t EXCEPT !.mon = @ - 1]
MonthAfter(t) == IF t.mon = 11 THEN [t EXCEPT !.mon = 0, !.year = @ + 1] ELSE [t EXCEPT !.mon = @ + 1]

Length(t) == _ytab(YEAR0 + t.year)[t.mon + 1]

\* while (day < 0)
Borrow ==
  /\ stage = "carried" /\ day < 0
  /\ tm' = MonthBefore(tm)
  /\ day' = day + Length(tm')
  /\ UNCHANGED <<stage, year, month, yday, time, client>>

\* while (day >= ...): with day no longer negative, nothing is borrowed again.
GiveBack ==
  /\ stage = "carried" /\ day >= Length(tm)
  /\ day' = day - Length(tm)
  /\ tm' = MonthAfter(tm)
  /\ UNCHANGED <<stage, year, month, yday, time, client>>

InMonth == stage = "carried" /\ day >= 0 /\ day < Length(tm)

TooEarly ==
  /\ InMonth /\ tm.year < EPOCH_YR - YEAR0
  /\ tm' = [tm EXCEPT !.mday = day + 1]
  /\ time' = NoTime
  /\ stage' = "made"
  /\ UNCHANGED <<locals, client>>

FindDay ==
  /\ InMonth /\ tm.year >= EPOCH_YR - YEAR0
  /\ tm' = [tm EXCEPT !.mday = day + 1]
  /\ month' = 0 /\ yday' = 0
  /\ stage' = "count"
  /\ UNCHANGED <<year, day, time, client>>

CountMonth ==
  /\ stage = "count" /\ month < tm.mon
  /\ yday' = yday + _ytab(YEAR0 + tm.year)[month + 1]
  /\ month' = month + 1
  /\ UNCHANGED <<stage, tm, year, day, time, client>>

\* The days that fit with so many seconds.
DaysLeft(secs) == IF secs <= MaxTime[2] THEN MaxTime[1] ELSE MaxTime[1] - 1

MakeTime ==
  LET inyear == yday + tm.mday - 1
      days   == DaysTo(YEAR0 + tm.year) + inyear
      secs   == (tm.hour * 60 + tm.min) * 60 + tm.sec IN
  /\ stage = "count" /\ month >= tm.mon
  /\ tm' = [tm EXCEPT !.yday = inyear, !.wday = (days + 4) % 7]
  /\ time' = IF DaysLeft(secs) < days THEN NoTime ELSE <<days, secs>>
  /\ stage' = "made"
  /\ UNCHANGED <<locals, client>>

----------------------------------------------------------------------------
(* The program *)

KeepDate ==
  /\ stage = "found" /\ meant[1] = today + 1
  /\ today' = today + 1 /\ date' = tm
  /\ stage' = "idle"
  /\ UNCHANGED <<tm, locals, time, meant>>

\* The days of the year y before its month m, from the calendar on the wall.
Before(y, m) ==
  <<0, 31, 59, 90, 120, 151, 181, 212, 243, 273, 304, 334, 365>>[m + 1]
    + (IF m > 1 /\ LEAPYEAR(y) THEN 1 ELSE 0)

\* The day on which the month m of the year y begins, and the month that comes
\* m months after the beginning of the year y.
FirstDay(y, m) == DaysTo(y) + Before(y, m)
Begins(y, m) == FirstDay(y + m \div 12, m % 12)

\* A month more or less is as many days as the months in between have.
Change(c) ==
  /\ stage = "found"
  /\ tm' = [tm EXCEPT !.sec = @ + c.sec, !.min = @ + c.min, !.hour = @ + c.hour,
                      !.mday = @ + c.mday, !.mon = @ + c.mon, !.year = @ + c.year]
  /\ meant' = <<meant[1] + c.mday + Begins(YEAR0 + tm'.year, tm'.mon) - FirstDay(YEAR0 + tm.year, tm.mon),
                 meant[2] + c.sec + 60 * c.min + 3600 * c.hour>>
  /\ stage' = "changed"
  /\ UNCHANGED <<locals, time, today, date>>

Epoch == [sec |-> 0, min |-> 0, hour |-> 0, mday |-> 1, mon |-> 0, year |-> 70, wday |-> 4, yday |-> 0]

CalInit ==
  /\ stage = "idle" /\ tm = Epoch /\ date = Epoch /\ today = 0 /\ meant = <<0, 0>>
  /\ year = EPOCH_YR /\ day = 0 /\ month = 0 /\ yday = 0 /\ time = NoTime

AskTomorrow == today < LastDay /\ Gmtime(today + 1, 0)

Walk == AskTomorrow \/ PassYear \/ FindYear \/ PassMonth \/ FindMonth \/ KeepDate

Calculate ==
  \/ \E d \in Days, clock \in Clocks : Gmtime(d, clock)
  \/ PassYear \/ FindYear \/ PassMonth \/ FindMonth
  \/ \E c \in Changes : Change(c)
  \/ CarryFields \/ Borrow \/ GiveBack \/ TooEarly \/ FindDay \/ CountMonth \/ MakeTime

CalNext == Walk \/ Calculate

CalSpec == CalInit /\ [][CalNext]_calvars

----------------------------------------------------------------------------
(* Properties *)

Civil == INSTANCE Almanac WITH year <- date.year + YEAR0, month <- date.mon + 1, day <- date.mday,
                               yday <- date.yday, wday <- date.wday

\* What the code calls the next day is the next day of the calendar, in every
\* field.
ImplementsAlmanac == Civil!Spec

\* The time so many seconds after a midnight, or -1 outside of time_t.
TimeAt(d, s) ==
  LET days == d + s \div SECS_DAY  secs == s % SECS_DAY IN
  IF days < 0 \/ days > MaxTime[1] \/ (days = MaxTime[1] /\ secs > MaxTime[2]) THEN NoTime
  ELSE <<days, secs>>

\* t is the time of day secs, every field in its range.
Clock(t, secs) ==
  /\ t.sec \in 0 .. 59 /\ t.min \in 0 .. 59 /\ t.hour \in 0 .. 23
  /\ 3600 * t.hour + 60 * t.min + t.sec = secs

\* t is a day of the calendar, the one that comes so many days after the epoch.
Dated(t, days) ==
  /\ t.mon \in 0 .. 11 /\ t.mday \in 1 .. Length(t)
  /\ t.yday = Before(YEAR0 + t.year, t.mon) + t.mday - 1
  /\ DaysTo(YEAR0 + t.year) + t.yday = days
  /\ t.wday = (days + 4) % 7

\* mktime undoes gmtime_r, also when fields were moved out of their ranges, and
\* answers -1 exactly for what time_t cannot hold.  Otherwise it leaves the
\* fields as gmtime_r would have set them.
MkTimeInverts ==
  stage = "made" =>
    /\ time = TimeAt(meant[1], meant[2])
    /\ time # NoTime => Dated(tm, time[1]) /\ Clock(tm, time[2])
=============================================================================
