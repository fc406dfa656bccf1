------------------------------- MODULE Console -------------------------------
(***************************************************************************)
(* print_c of screen.c: the text memory is one array of cells, the cursor  *)
(* a column and a row.  Attributes and the cursor registers of the video   *)
(* card, which set_cursor writes, are left out.                            *)
(***************************************************************************)
EXTENDS Integers

CONSTANTS MAX_COLUMNS, MAX_LINES, TAB_WIDTH,
          Chars    \* the printable characters that are used

ASSUME ConsoleAssumption ==
  /\ MAX_COLUMNS \in Nat \ {0} /\ MAX_LINES \in Nat \ {0} /\ TAB_WIDTH \in Nat \ {0}
  /\ MAX_COLUMNS % TAB_WIDTH = 0

VARIABLES video,           \* the characters at VIDEO_RAM
          csr_x, csr_y     \* the cursor

console == <<video, csr_x, csr_y>>

BLANK_CHAR == " "
Cells == 0..(MAX_COLUMNS * MAX_LINES - 1)
CHAR_OFF(x, y) == MAX_COLUMNS * y + x

\* The cells a, ..., b - 1 blanked.
Blanked(v, a, b) == [i \in Cells |-> IF i \in a..(b - 1) THEN BLANK_CHAR ELSE v[i]]

\* Mutant: the last line keeps what it had.
Scrolled_mutant(v) ==
  [i \in Cells |-> IF i + MAX_COLUMNS \in Cells THEN v[i + MAX_COLUMNS] ELSE v[i]]

\* scroll(1): every line moves up, the last one is blanked.
Scrolled(v) ==
  Blanked([i \in Cells |-> IF i + MAX_COLUMNS \in Cells THEN v[i + MAX_COLUMNS] ELSE v[i]],
          CHAR_OFF(0, MAX_LINES - 1), CHAR_OFF(0, MAX_LINES))

\* Mutant: off by one at the right edge.
PastEdge_mutant(x) == x > MAX_COLUMNS

PastEdge(x) == x >= MAX_COLUMNS

\* The end of print_c, with the cursor at (x, y) and the text v.
Settle(v, x, y) ==
  /\ csr_x' = IF PastEdge(x) THEN 0 ELSE x
  /\ csr_y' = IF PastEdge(x) /\ y < MAX_LINES - 1 THEN y + 1 ELSE y
  /\ video' = IF PastEdge(x) /\ y = MAX_LINES - 1 THEN Scrolled(v) ELSE v

Least(a, b) == IF a <= b THEN a ELSE b

\* `c' of case '\t': the next multiple of TAB_WIDTH.
NextTab == Least(csr_x + TAB_WIDTH - (csr_x % TAB_WIDTH), MAX_COLUMNS)

print_c(c) ==
  LET p == CHAR_OFF(csr_x, csr_y) IN
  CASE c = "return" -> Settle(video, 0, csr_y)
    [] c = "newline" -> Settle(Blanked(video, p, CHAR_OFF(MAX_COLUMNS, csr_y)), MAX_COLUMNS, csr_y)
    [] c = "tab" -> Settle(Blanked(video, p, CHAR_OFF(NextTab, csr_y)), NextTab, csr_y)
    [] c = "back" -> IF csr_x = 0 /\ csr_y = 0 THEN UNCHANGED console
                   ELSE Settle(Blanked(video, p - 1, p),
                               IF csr_x = 0 THEN MAX_COLUMNS - 1 ELSE csr_x - 1,
                               IF csr_x = 0 THEN csr_y - 1 ELSE csr_y)
    [] OTHER    -> Settle([video EXCEPT ![p] = c], csr_x + 1, csr_y)

ConsoleInit ==
  /\ video = [i \in Cells |-> BLANK_CHAR]
  /\ csr_x = 0 /\ csr_y = 0

\* The cursor is on the screen and the text memory holds characters.
ConsoleTypeOK ==
  /\ video \in [Cells -> Chars \union {BLANK_CHAR}]
  /\ csr_x \in 0..(MAX_COLUMNS - 1)
  /\ csr_y \in 0..(MAX_LINES - 1)

TT == INSTANCE Teletype WITH
        Lines <- MAX_LINES, Columns <- MAX_COLUMNS, Tab <- TAB_WIDTH, Blank <- BLANK_CHAR,
        rows <- [y \in 1..MAX_LINES |-> [x \in 1..MAX_COLUMNS |-> video[CHAR_OFF(x - 1, y - 1)]]],
        row <- csr_y + 1,
        col <- csr_x + 1

\* What the text memory shows is the end of what was printed.
ImplementsTeletype == TT!Spec
=============================================================================
