------------------------------ MODULE Teletype ------------------------------
(***************************************************************************)
(* What a text console promises: a window of Lines rows that moves down    *)
(* over an endless sheet.  Rows that have left the window never return.    *)
(***************************************************************************)
EXTENDS Naturals, Sequences

CONSTANTS Lines, Columns, Tab, Blank, Chars

VARIABLES rows,   \* the rows in the window, each a sequence of characters
          row,    \* where the next character goes
          col

paper == <<rows, row, col>>

BlankRow == [x \in 1..Columns |-> Blank]

Init ==
  /\ rows = [y \in 1..Lines |-> BlankRow]
  /\ row = 1 /\ col = 1

\* The start of the next row; at the last row the sheet moves up.
Advanced(sheet) ==
  /\ col' = 1
  /\ row' = IF row < Lines THEN row + 1 ELSE row
  /\ rows' = IF row < Lines THEN sheet ELSE Append(Tail(sheet), BlankRow)

\* The row from column a up to but not including b, blanked.
Erased(a, b) == [rows EXCEPT ![row] = [x \in 1..Columns |-> IF x \in a..(b - 1) THEN Blank ELSE @[x]]]

MoveTo(sheet, x) ==
  IF x > Columns THEN Advanced(sheet) ELSE col' = x /\ row' = row /\ rows' = sheet

Type(c)   == MoveTo([rows EXCEPT ![row][col] = c], col + 1)
NewLine   == Advanced(Erased(col, Columns + 1))
TabStop   == CHOOSE x \in (col + 1)..(col + Tab) : (x - 1) % Tab = 0
ToTab     == MoveTo(Erased(col, TabStop), TabStop)
Return    == col' = 1 /\ UNCHANGED <<row, rows>>

\* One character back, over the start of a row but not out of the window.
Erase ==
  LET y == IF col > 1 THEN row ELSE row - 1
      x == IF col > 1 THEN col - 1 ELSE Columns IN
  IF y = 0 THEN UNCHANGED paper
  ELSE row' = y /\ col' = x /\ rows' = [rows EXCEPT ![y][x] = Blank]

Next == (\E c \in Chars : Type(c)) \/ NewLine \/ ToTab \/ Return \/ Erase

Spec == Init /\ [][Next]_paper
=============================================================================
