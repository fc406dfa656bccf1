------------------------------- MODULE MCLibc -------------------------------
(***************************************************************************)
(* One program at a time: it sorts and searches, copies, asks for dates,   *)
(* prints numbers, or prints values and scans them again.                  *)
(***************************************************************************)
EXTENDS Sorting, Copying, Calendar, Numbers, Formats

VARIABLE program
vars == <<sortvars, copyvars, calvars, numvars, fvars, program>>

MCMaxTime == <<24855, 11647>>

\* Far and near, back and forth, in each field, and in all of them.
NoChange == [sec |-> 0, min |-> 0, hour |-> 0, mday |-> 0, mon |-> 0, year |-> 0]
MCChanges ==
  {NoChange, [sec |-> -100000, min |-> 61, hour |-> -25, mday |-> 31, mon |-> -24, year |-> 2]}
    \union UNION {{[NoChange EXCEPT !.sec = s, !.min = -s], [NoChange EXCEPT !.hour = s],
                   [NoChange EXCEPT !.mday = s], [NoChange EXCEPT !.mon = s]} : s \in {-400, -61, 29}}
    \union {[NoChange EXCEPT !.mon = 1], [NoChange EXCEPT !.year = 1]}

\* The borders of years and centuries, leap or not, and of time_t.
MCDays == (0 .. 60) \union (780 .. 800) \union (11010 .. 11020) \union (24850 .. 24856)
            \union (47535 .. 47545) \union {364, 365, 10956, 11322, 46020, 47846, 47847, 49709}
MCWidths == {-1, 2, 5}
MCPrecisions == {-1, 3}

D(p, s) == Directive(p, s)
Comma == -9

\* Conversions of every kind, with the flags that matter to the way back.
MCDirectives ==
  {[D("text", "text") EXCEPT !.char = Space], [D("text", "text") EXCEPT !.char = Comma],
   D("d", "d"), D("d", "i"), D("p", "x"), D("%", "%"),
   D("c", "c"), D("s", "s"), D("n", "n"),
   [D("d", "d") EXCEPT !.width = 5, !.flags = {"LEFT"}],
   [D("i", "d") EXCEPT !.width = 5, !.flags = {"ZEROPAD"}, !.short = TRUE],
   [D("x", "i") EXCEPT !.flags = {"SPECIAL"}],
   [D("o", "i") EXCEPT !.flags = {"SPECIAL"}, !.precision = 4],
   [D("s", "s") EXCEPT !.width = 3, !.most = 5],
   [D("d", "d") EXCEPT !.skip = TRUE]}

MCInts == {-8, -3, 0}
MCWords == {<<Letter, 10>>, <<Letter, Letter, Letter, 1, 10>>}

NoSort  == n = 0 /\ given = [x \in {} |-> 0] /\ base = given /\ pc = "sorted" /\ i = 0 /\ j = 0 /\ swap = 0
             /\ key = 0 /\ top = 0 /\ bottom = 0 /\ found = NULL
NoCopy  == before = [a \in Address |-> 0] /\ memory = before /\ fn = "bcopy" /\ src = 0 /\ dest = 0
             /\ size = 0 /\ left = 0 /\ running = FALSE
NoPrint == num = 0 /\ radix = 10 /\ width = 0 /\ precision = 0 /\ type = {} /\ str = <<>>
NoFormat == fmt = <<>> /\ passed = <<>> /\ out = <<>> /\ ends = <<>> /\ phase = "done" /\ at = 1 /\ pos = 1
              /\ got = <<>> /\ count = 0

Init ==
  \/ program = "sort" /\ SortInit /\ NoCopy /\ CalInit /\ NoPrint /\ NoFormat
  \/ program = "copy" /\ NoSort /\ CopyInit /\ CalInit /\ NoPrint /\ NoFormat
  \/ program \in {"date", "time"} /\ NoSort /\ NoCopy /\ CalInit /\ NoPrint /\ NoFormat
  \/ program = "print" /\ NoSort /\ NoCopy /\ CalInit /\ NumInit /\ NoFormat
  \/ program = "format" /\ NoSort /\ NoCopy /\ CalInit /\ NoPrint /\ FmtInit

Next ==
  /\ program' = program
  /\ \/ program = "sort" /\ SortNext /\ UNCHANGED <<copyvars, calvars, numvars, fvars>>
     \/ program = "copy" /\ CopyNext /\ UNCHANGED <<sortvars, calvars, numvars, fvars>>
     \/ program = "date" /\ Walk /\ UNCHANGED <<sortvars, copyvars, numvars, fvars>>
     \/ program = "time" /\ Calculate /\ UNCHANGED <<sortvars, copyvars, numvars, fvars>>
     \/ program = "print" /\ PrintNumber /\ UNCHANGED <<sortvars, copyvars, calvars, fvars>>
     \/ program = "format" /\ FmtNext /\ UNCHANGED <<sortvars, copyvars, calvars, numvars>>

\* A call runs to its end.
Spec == Init /\ [][Next]_vars /\ WF_sortvars(Probe)
=============================================================================
