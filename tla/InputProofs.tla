----------------------------- MODULE InputProofs -----------------------------
(***************************************************************************)
(* The keyboard, the mouse and the text console, for a screen of any size, *)
(* any keys and any bounds: the variables keep their types, the console    *)
(* implements Teletype, and as long as no byte goes astray the modifiers   *)
(* and the packets of the mouse stay in step with the devices.             *)
(***************************************************************************)
EXTENDS Input, FiniteSetTheorems, TLAPS

USE ConsoleAssumption, InputAssumption

\* The queues of the devices, and mouse_byte as a whole, have a type too.
InputInv ==
  /\ TypeOK
  /\ kbq \in Seq(Bytes) /\ mq \in Seq(Bytes)
  /\ mouse_byte \in [1..3 -> Bytes]

\* What print_c is given.
Printed == Chars \union {"return", "newline", "tab", "back"}

----------------------------------------------------------------------------
(* The console *)

LEMMA BlankedTyped ==
  ASSUME NEW v \in [Cells -> Chars \union {BLANK_CHAR}], NEW a, NEW b
  PROVE  Blanked(v, a, b) \in [Cells -> Chars \union {BLANK_CHAR}]
BY DEF Blanked

LEMMA ScrolledTyped ==
  ASSUME NEW v \in [Cells -> Chars \union {BLANK_CHAR}]
  PROVE  Scrolled(v) \in [Cells -> Chars \union {BLANK_CHAR}]
<1> DEFINE u == [i \in Cells |-> IF i + MAX_COLUMNS \in Cells THEN v[i + MAX_COLUMNS] ELSE v[i]]
<1>1. u \in [Cells -> Chars \union {BLANK_CHAR}]
  OBVIOUS
<1> HIDE DEF u
<1>2. Blanked(u, CHAR_OFF(0, MAX_LINES - 1), CHAR_OFF(0, MAX_LINES)) \in [Cells -> Chars \union {BLANK_CHAR}]
  BY <1>1, BlankedTyped
<1> QED
  BY <1>2 DEF Scrolled, u

LEMMA SettleTyped ==
  ASSUME NEW v \in [Cells -> Chars \union {BLANK_CHAR}],
         NEW x \in Nat, NEW y \in 0..(MAX_LINES - 1), Settle(v, x, y)
  PROVE  ConsoleTypeOK'
<1>1. video' \in [Cells -> Chars \union {BLANK_CHAR}]
  BY ScrolledTyped DEF Settle
<1>2. csr_x' \in 0..(MAX_COLUMNS - 1) /\ csr_y' \in 0..(MAX_LINES - 1)
  BY DEF Settle, PastEdge
<1> QED
  BY <1>1, <1>2 DEF ConsoleTypeOK

LEMMA PrintTyped ==
  ASSUME ConsoleTypeOK, NEW c \in Printed, print_c(c)
  PROVE  ConsoleTypeOK'
<1> DEFINE p == CHAR_OFF(csr_x, csr_y)
<1>1. /\ video \in [Cells -> Chars \union {BLANK_CHAR}]
      /\ csr_x \in 0..(MAX_COLUMNS - 1) /\ csr_y \in 0..(MAX_LINES - 1)
  BY DEF ConsoleTypeOK
<1>2. CASE c = "return"
  BY <1>1, <1>2, SettleTyped DEF print_c
<1>3. CASE c = "newline"
  <2>1. Settle(Blanked(video, p, CHAR_OFF(MAX_COLUMNS, csr_y)), MAX_COLUMNS, csr_y)
    BY <1>3 DEF print_c
  <2> QED
    BY <1>1, <2>1, BlankedTyped, SettleTyped
<1>4. CASE c = "tab"
  <2>1. Settle(Blanked(video, p, CHAR_OFF(NextTab, csr_y)), NextTab, csr_y)
    BY <1>4 DEF print_c
  <2>2. NextTab \in Nat
    <3>1. csr_x % TAB_WIDTH \in 0..(TAB_WIDTH - 1)
      BY <1>1
    <3> QED
      BY <1>1, <3>1 DEF NextTab, Least
  <2> QED
    BY <1>1, <2>1, <2>2, BlankedTyped, SettleTyped
<1>5. CASE c = "back"
  <2>1. CASE csr_x = 0 /\ csr_y = 0
    BY <1>1, <1>5, <2>1 DEF print_c, console, ConsoleTypeOK
  <2>2. CASE ~(csr_x = 0 /\ csr_y = 0)
    <3> DEFINE x == IF csr_x = 0 THEN MAX_COLUMNS - 1 ELSE csr_x - 1
               y == IF csr_x = 0 THEN csr_y - 1 ELSE csr_y
    <3>1. Settle(Blanked(video, p - 1, p), x, y)
      BY <1>5, <2>2 DEF print_c
    <3>2. x \in Nat /\ y \in 0..(MAX_LINES - 1)
      BY <1>1, <2>2
    <3>3. Blanked(video, p - 1, p) \in [Cells -> Chars \union {BLANK_CHAR}]
      BY <1>1, BlankedTyped
    <3> HIDE DEF x, y, p
    <3> QED
      BY <3>1, <3>2, <3>3, SettleTyped
  <2> QED
    BY <2>1, <2>2
<1>6. CASE c \notin {"return", "newline", "tab", "back"}
  <2> DEFINE v == [video EXCEPT ![p] = c]
             x == csr_x + 1
  <2>1. Settle(v, x, csr_y)
    BY <1>6 DEF print_c
  <2>2. c \in Chars
    BY <1>6 DEF Printed
  <2>3. v \in [Cells -> Chars \union {BLANK_CHAR}] /\ x \in Nat
    <3> HIDE DEF p
    <3>1. v \in [Cells -> Chars \union {BLANK_CHAR}]
      BY <1>1, <2>2
    <3>2. x \in Nat
      BY <1>1
    <3> QED
      BY <3>1, <3>2
  <2> HIDE DEF v, x
  <2> QED
    BY <1>1, <2>1, <2>3, SettleTyped
<1> QED
  BY <1>2, <1>3, <1>4, <1>5, <1>6

\* The cell the cursor is on is a cell of the text memory.
LEMMA CursorCell == ConsoleTypeOK => CHAR_OFF(csr_x, csr_y) \in Cells
<1> SUFFICES ASSUME ConsoleTypeOK PROVE CHAR_OFF(csr_x, csr_y) \in Cells
  OBVIOUS
<1>1. csr_x \in 0..(MAX_COLUMNS - 1) /\ csr_y \in 0..(MAX_LINES - 1)
  BY DEF ConsoleTypeOK
<1>2. MAX_COLUMNS * csr_y \in Nat /\ MAX_COLUMNS * (MAX_LINES - 1 - csr_y) \in Nat
  BY <1>1
<1>3. MAX_COLUMNS * (MAX_LINES - 1 - csr_y) = MAX_COLUMNS * MAX_LINES - MAX_COLUMNS - MAX_COLUMNS * csr_y
  BY <1>1
<1> QED
  BY <1>1, <1>2, <1>3 DEF CHAR_OFF, Cells

----------------------------------------------------------------------------
(* The devices and the handlers *)

LEMMA InputInvInit == Init => InputInv
BY DEF Init, InputInv, TypeOK, ConsoleInit, ConsoleTypeOK, Bytes

LEMMA DigitPrinted == \A n \in 0..2 : Digit[n + 1] \in Printed
BY DEF Digit, Printed

\* Steps that print nothing.
LEMMA QuietInput ==
  ASSUME InputInv, UNCHANGED <<kbvars, mousevars, console>>,
         down' \subseteq Keys, kbq' \in Seq(Bytes), mq' \in Seq(Bytes), data' \in Bytes
  PROVE  InputInv'
BY DEF InputInv, TypeOK, ConsoleTypeOK, kbvars, mousevars, console

LEMMA DeviceStep == ASSUME InputInv, Devices \/ Fill PROVE InputInv'
<1>0. down \subseteq Keys /\ kbq \in Seq(Bytes) /\ mq \in Seq(Bytes) /\ data \in Bytes
  BY DEF InputInv, TypeOK
<1>1. CASE Move
  <2>1. mq' \in Seq(Bytes)
    <3>1. Part(1) \in Bytes /\ Part(2) \in Bytes /\ Part(3) \in Bytes
      BY DEF Bytes
    <3>2. <<Part(1), Part(2), Part(3)>> \in Seq(Bytes)
      BY <3>1
    <3>3. mq' = mq \o <<Part(1), Part(2), Part(3)>>
      BY <1>1 DEF Move
    <3> QED
      BY <1>0, <3>2, <3>3
  <2> QED
    BY <1>0, <1>1, <2>1, QuietInput DEF Move
<1>2. ASSUME NEW k \in Keys, NEW make \in BOOLEAN, Strike(k, make) PROVE InputInv'
  <2>1. Scan(k, make) \in Bytes
    BY DEF Bytes
  <2>2. down' \subseteq Keys
    BY <1>0, <1>2 DEF Strike
  <2> QED
    BY <1>0, <1>2, <2>1, <2>2, QuietInput DEF Strike
<1>3. CASE Fill
  <2>1. kbq' \in Seq(Bytes) /\ mq' \in Seq(Bytes) /\ data' \in Bytes
    <3>1. CASE kbq # <<>> /\ data' = Head(kbq) /\ kbq' = Tail(kbq) /\ mq' = mq
      BY <1>0, <3>1
    <3>2. CASE mq # <<>> /\ data' = Head(mq) /\ mq' = Tail(mq) /\ kbq' = kbq
      BY <1>0, <3>2
    <3> QED
      BY <1>3, <3>1, <3>2 DEF Fill
  <2> QED
    BY <1>0, <1>3, <2>1, QuietInput DEF Fill
<1> QED
  BY <1>1, <1>2, <1>3 DEF Devices

LEMMA InstallStep == ASSUME InputInv, Install PROVE InputInv'
<1>0. down \subseteq Keys /\ kbq \in Seq(Bytes) /\ mq \in Seq(Bytes) /\ data \in Bytes
  BY DEF InputInv, TypeOK
<1>1. CASE MouseWrite
  <2>1. mq' \in Seq(Bytes)
    <3>1. ACK \in Bytes
      BY DEF Bytes
    <3>2. mq' = Append(mq, ACK)
      BY <1>1 DEF MouseWrite
    <3> QED
      BY <1>0, <3>1, <3>2
  <2> QED
    BY <1>0, <1>1, <2>1, QuietInput DEF MouseWrite
<1>2. CASE MouseRead
  BY <1>0, <1>2, QuietInput DEF MouseRead, Inb
<1>3. CASE Sti
  BY <1>0, <1>3, QuietInput DEF Sti, hardware
<1> QED
  BY <1>1, <1>2, <1>3 DEF Install

\* What do_kb prints is in key_map.
LEMMA KeyPrinted == ASSUME InputInv, DoKb PROVE UNCHANGED console \/ \E c \in Printed : print_c(c)
<1>1. PICK code \in Codes(data) : KeyWay(code[1], code[2])
  BY DEF DoKb
<1>2. code = NoKey \/ code \in Keys \X BOOLEAN
  <2>1. data \in Bytes
    BY DEF InputInv, TypeOK
  <2>2. CASE data.from = "kb"
    <3>1. PICK k \in Keys, m \in BOOLEAN : data = Scan(k, m)
      BY <2>1, <2>2 DEF Bytes, ACK, Part
    <3> QED
      BY <2>2, <3>1 DEF Codes, Scan
  <2>3. CASE data.from # "kb"
    BY <2>3 DEF Codes
  <2> QED
    BY <2>2, <2>3
<1>3. CASE code[2] /\ code[1] \notin Modifier
  <2>1. code[1] \in Keys \ Modifier
    <3>1. code # NoKey
      <4>1. NoKey[2] = FALSE
        BY DEF NoKey
      <4>2. ~NoKey[2]
        BY <4>1, Zenon
      <4> QED
        BY <1>3, <4>2, Zenon
    <3> QED
      BY <1>2, <1>3, <3>1
  <2>2. pressed["shift"] + 1 \in 1..2
    BY DEF InputInv, TypeOK
  <2>3. key_map[code[1]][pressed["shift"] + 1] \in Printed
    BY <2>1, <2>2 DEF Printed
  <2>4. print_c(key_map[code[1]][pressed["shift"] + 1])
    BY <1>1, <1>3 DEF KeyWay
  <2> QED
    BY <2>3, <2>4
<1>4. CASE ~(code[2] /\ code[1] \notin Modifier)
  BY <1>1, <1>4 DEF KeyWay
<1> QED
  BY <1>3, <1>4

LEMMA DoKbStep == ASSUME InputInv, DoKb PROVE InputInv'
<1>1. /\ UNCHANGED <<down, kbq, mq, data, mousevars>>
      /\ \E code \in Codes(data) : KeyWay(code[1], code[2])
  BY DEF DoKb, Inb
<1>2. PICK code \in Codes(data) : KeyWay(code[1], code[2])
  BY <1>1
<1>3. pressed \in [Modifier -> 0..1] /\ pressed' \in [Modifier -> 0..1]
  <2>1. pressed \in [Modifier -> 0..1]
    BY DEF InputInv, TypeOK
  <2>2. CASE code[1] \in Modifier
    <3>1. 1 - pressed[code[1]] \in 0..1
      BY <2>1, <2>2
    <3> QED
      BY <1>2, <2>1, <2>2, <3>1 DEF KeyWay, Toggled
  <2>3. CASE code[1] \notin Modifier
    BY <1>2, <2>1, <2>3 DEF KeyWay
  <2> QED
    BY <2>1, <2>2, <2>3
<1>4. ConsoleTypeOK'
  <2>1. ConsoleTypeOK
    BY DEF InputInv, TypeOK
  <2>2. CASE UNCHANGED console
    BY <2>1, <2>2 DEF ConsoleTypeOK, console
  <2> QED
    BY <2>1, <2>2, KeyPrinted, PrintTyped
<1> QED
  BY <1>1, <1>3, <1>4 DEF InputInv, TypeOK, mousevars

LEMMA DoMouseStep == ASSUME InputInv, DoMouse PROVE InputInv'
<1>0. /\ down \subseteq Keys /\ kbq \in Seq(Bytes) /\ mq \in Seq(Bytes) /\ data \in Bytes
      /\ mousecount \in 0..2 /\ mouse_byte \in [1..3 -> Bytes] /\ ConsoleTypeOK
  BY DEF InputInv, TypeOK
<1>1. CASE DoMouseEmpty
  <2>1. ConsoleTypeOK'
    <3>1. print_c(Digit[mousecount + 1])
      BY <1>1 DEF DoMouseEmpty
    <3> QED
      BY <1>0, <3>1, DigitPrinted, PrintTyped
  <2> QED
    BY <1>0, <1>1, <2>1 DEF DoMouseEmpty, InputInv, TypeOK, kbvars
<1>2. CASE DoMouseTest
  BY <1>0, <1>2, QuietInput DEF DoMouseTest, hardware
<1>3. CASE DoMouseRead
  <2>1. mousecount' \in 0..2 /\ mousecount + 1 \in 1..3
    <3>1. mousecount' = IF PacketFull(mousecount + 1) THEN 0 ELSE mousecount + 1
      BY <1>3 DEF DoMouseRead
    <3> QED
      BY <1>0, <3>1 DEF PacketFull
  <2>2. ConsoleTypeOK'
    <3>1. print_c(Digit[mousecount' + 1])
      BY <1>3 DEF DoMouseRead
    <3> QED
      BY <1>0, <2>1, <3>1, DigitPrinted, PrintTyped
  <2>3. mouse_byte' \in [1..3 -> Bytes]
    BY <1>0, <1>3, <2>1 DEF DoMouseRead
  <2>4. UNCHANGED <<down, kbq, mq, data, pressed>>
    BY <1>3 DEF DoMouseRead, Inb, kbvars
  <2> QED
    BY <2>1, <2>2, <2>3, <2>4 DEF InputInv, TypeOK
<1> QED
  BY <1>1, <1>2, <1>3 DEF DoMouse

LEMMA InputInvNext == InputInv /\ [Next]_vars => InputInv'
<1> SUFFICES ASSUME InputInv, [Next]_vars PROVE InputInv'
  OBVIOUS
<1>1. CASE Devices \/ Fill
  BY <1>1, DeviceStep
<1>2. CASE Install
  BY <1>2, InstallStep
<1>3. CASE Handlers
  <2>1. CASE DoKb
    BY <2>1, DoKbStep
  <2>2. CASE DoMouse
    BY <2>2, DoMouseStep
  <2>3. ASSUME NEW i \in {"kb", "mouse"}, Deliver(i) PROVE InputInv'
    <3>1. down \subseteq Keys /\ kbq \in Seq(Bytes) /\ mq \in Seq(Bytes) /\ data \in Bytes
      BY DEF InputInv, TypeOK
    <3> QED
      BY <2>3, <3>1, QuietInput DEF Deliver
  <2> QED
    BY <1>3, <2>1, <2>2, <2>3 DEF Handlers
<1>4. CASE UNCHANGED vars
  <2>1. down \subseteq Keys /\ kbq \in Seq(Bytes) /\ mq \in Seq(Bytes) /\ data \in Bytes
    BY DEF InputInv, TypeOK
  <2> QED
    BY <1>4, <2>1, QuietInput DEF vars, hardware
<1> QED
  BY <1>1, <1>2, <1>3, <1>4 DEF Next

----------------------------------------------------------------------------
(* The console as a teletype *)

Screen == [Cells -> Chars \union {BLANK_CHAR}]

\* The text memory as the teletype has it: rows of characters.
View(v) == [y \in 1..MAX_LINES |-> [x \in 1..MAX_COLUMNS |-> v[CHAR_OFF(x - 1, y - 1)]]]

\* Cells are in the order of rows and, within a row, of columns.
LEMMA RowOrder ==
  ASSUME NEW x \in 0..(MAX_COLUMNS - 1), NEW y \in Int, NEW a \in 0..MAX_COLUMNS, NEW b \in Int
  PROVE  CHAR_OFF(x, y) >= CHAR_OFF(a, b) <=> y > b \/ (y = b /\ x >= a)
<1> DEFINE C == MAX_COLUMNS
<1>0. C \in Nat \ {0}
  OBVIOUS
<1>1. CASE y > b
  <2>1. C * (y - b - 1) >= 0
    BY <1>0, <1>1
  <2>2. C * (y - b - 1) = C * y - C * b - C
    BY <1>0
  <2>3. C * y \in Int /\ C * b \in Int
    BY <1>0
  <2> HIDE DEF C
  <2>4. MAX_COLUMNS = C
    BY DEF C
  <2> QED
    BY <1>0, <1>1, <2>1, <2>2, <2>3, <2>4 DEF CHAR_OFF
<1>2. CASE y = b
  <2>1. C * b \in Int
    BY <1>0
  <2> QED
    BY <1>2, <2>1 DEF CHAR_OFF
<1>3. CASE y < b
  <2>1. C * (b - y - 1) >= 0
    BY <1>0, <1>3
  <2>2. C * (b - y - 1) = C * b - C * y - C
    BY <1>0
  <2>3. C * y \in Int /\ C * b \in Int
    BY <1>0
  <2> HIDE DEF C
  <2>4. MAX_COLUMNS = C
    BY DEF C
  <2> QED
    BY <1>0, <1>3, <2>1, <2>2, <2>3, <2>4 DEF CHAR_OFF
<1> QED
  BY <1>1, <1>2, <1>3

LEMMA CellOf ==
  ASSUME NEW x \in 0..(MAX_COLUMNS - 1), NEW y \in 0..(MAX_LINES - 1)
  PROVE  CHAR_OFF(x, y) \in Cells
<1>2. MAX_COLUMNS * y \in Nat /\ MAX_COLUMNS * (MAX_LINES - 1 - y) \in Nat
  OBVIOUS
<1>3. MAX_COLUMNS * (MAX_LINES - 1 - y) = MAX_COLUMNS * MAX_LINES - MAX_COLUMNS - MAX_COLUMNS * y
  OBVIOUS
<1> QED
  BY <1>2, <1>3 DEF CHAR_OFF, Cells

LEMMA OneCell ==
  ASSUME NEW x \in 0..(MAX_COLUMNS - 1), NEW y \in Int, NEW a \in 0..(MAX_COLUMNS - 1), NEW b \in Int
  PROVE  CHAR_OFF(x, y) = CHAR_OFF(a, b) <=> y = b /\ x = a
<1>1. CHAR_OFF(x, y) \in Int /\ CHAR_OFF(a, b) \in Int
  BY DEF CHAR_OFF
<1>2. a \in 0..MAX_COLUMNS /\ x \in 0..MAX_COLUMNS
  OBVIOUS
<1>3. CHAR_OFF(x, y) >= CHAR_OFF(a, b) <=> y > b \/ (y = b /\ x >= a)
  BY <1>2, RowOrder
<1>4. CHAR_OFF(a, b) >= CHAR_OFF(x, y) <=> b > y \/ (b = y /\ a >= x)
  BY <1>2, RowOrder
<1> QED
  BY <1>1, <1>3, <1>4

\* Rows r with a c in column x, row y.
Put(r, x, y, c) == [r EXCEPT ![y + 1][x + 1] = c]

LEMMA ViewUpdated ==
  ASSUME NEW v \in Screen, NEW x \in 0..(MAX_COLUMNS - 1), NEW y \in 0..(MAX_LINES - 1), NEW c
  PROVE  View([v EXCEPT ![CHAR_OFF(x, y)] = c]) = Put(View(v), x, y, c)
<1> DEFINE w == [v EXCEPT ![CHAR_OFF(x, y)] = c]
           r == [View(v) EXCEPT ![y + 1][x + 1] = c]
<1>1. ASSUME NEW j \in 1..MAX_LINES, NEW k \in 1..MAX_COLUMNS
      PROVE  w[CHAR_OFF(k - 1, j - 1)] = IF j = y + 1 /\ k = x + 1 THEN c ELSE v[CHAR_OFF(k - 1, j - 1)]
  <2>1. k - 1 \in 0..(MAX_COLUMNS - 1) /\ j - 1 \in 0..(MAX_LINES - 1)
    OBVIOUS
  <2>2. CHAR_OFF(k - 1, j - 1) \in Cells
    BY <2>1, CellOf
  <2>3. CHAR_OFF(k - 1, j - 1) = CHAR_OFF(x, y) <=> j - 1 = y /\ k - 1 = x
    BY <2>1, OneCell
  <2>4. w[CHAR_OFF(k - 1, j - 1)] = IF CHAR_OFF(k - 1, j - 1) = CHAR_OFF(x, y) THEN c ELSE v[CHAR_OFF(k - 1, j - 1)]
    <3> HIDE DEF View
    <3> QED
      BY <2>2 DEF Screen
  <2> HIDE DEF w
  <2> QED
    BY <2>3, <2>4
<1> HIDE DEF w
<1>2. r = [j \in 1..MAX_LINES |-> [k \in 1..MAX_COLUMNS |->
             IF j = y + 1 /\ k = x + 1 THEN c ELSE v[CHAR_OFF(k - 1, j - 1)]]]
  BY DEF View
<1> HIDE DEF r
<1>3. View(w) = [j \in 1..MAX_LINES |-> [k \in 1..MAX_COLUMNS |->
                    IF j = y + 1 /\ k = x + 1 THEN c ELSE v[CHAR_OFF(k - 1, j - 1)]]]
  BY <1>1 DEF View
<1> QED
  BY <1>2, <1>3 DEF r, w, Put

\* The rows of v with the columns a + 1, ..., b of row y + 1 blank.
Wiped(v, y, a, b) ==
  [j \in 1..MAX_LINES |-> [k \in 1..MAX_COLUMNS |->
     IF j = y + 1 /\ k \in (a + 1)..b THEN BLANK_CHAR ELSE v[CHAR_OFF(k - 1, j - 1)]]]

LEMMA ViewBlanked ==
  ASSUME NEW v \in Screen, NEW y \in 0..(MAX_LINES - 1), NEW a \in 0..MAX_COLUMNS, NEW b \in 0..MAX_COLUMNS
  PROVE  View(Blanked(v, CHAR_OFF(a, y), CHAR_OFF(b, y))) = Wiped(v, y, a, b)
<1> DEFINE w == Blanked(v, CHAR_OFF(a, y), CHAR_OFF(b, y))
<1>1. ASSUME NEW j \in 1..MAX_LINES, NEW k \in 1..MAX_COLUMNS
      PROVE  w[CHAR_OFF(k - 1, j - 1)]
               = IF j = y + 1 /\ k \in (a + 1)..b THEN BLANK_CHAR ELSE v[CHAR_OFF(k - 1, j - 1)]
  <2> DEFINE i == CHAR_OFF(k - 1, j - 1)
  <2>1. k - 1 \in 0..(MAX_COLUMNS - 1) /\ j - 1 \in 0..(MAX_LINES - 1) /\ j - 1 \in Int /\ y \in Int
    OBVIOUS
  <2>2. i \in Cells
    BY <2>1, CellOf
  <2>3. i >= CHAR_OFF(a, y) <=> j - 1 > y \/ (j - 1 = y /\ k - 1 >= a)
    BY <2>1, RowOrder
  <2>4. i >= CHAR_OFF(b, y) <=> j - 1 > y \/ (j - 1 = y /\ k - 1 >= b)
    BY <2>1, RowOrder
  <2>5. i \in Int /\ CHAR_OFF(a, y) \in Int /\ CHAR_OFF(b, y) \in Int
    BY DEF CHAR_OFF
  <2>6. w[i] = IF i \in CHAR_OFF(a, y)..(CHAR_OFF(b, y) - 1) THEN BLANK_CHAR ELSE v[i]
    BY <2>2 DEF Blanked
  <2> HIDE DEF i, w
  <2>7. i \in CHAR_OFF(a, y)..(CHAR_OFF(b, y) - 1) <=> j = y + 1 /\ k \in (a + 1)..b
    BY <2>3, <2>4, <2>5
  <2>8. w[i] = IF j = y + 1 /\ k \in (a + 1)..b THEN BLANK_CHAR ELSE v[i]
    BY <2>6, <2>7
  <2> QED
    BY <2>8 DEF i
<1> HIDE DEF w
<1>2. View(w) = [j \in 1..MAX_LINES |-> [k \in 1..MAX_COLUMNS |->
                IF j = y + 1 /\ k \in (a + 1)..b THEN BLANK_CHAR ELSE v[CHAR_OFF(k - 1, j - 1)]]]
  BY <1>1 DEF View
<1> QED
  BY <1>2 DEF w, Wiped

LEMMA ViewTyped == ASSUME NEW v PROVE View(v) \in Seq([1..MAX_COLUMNS -> {v[i] : i \in Int}]) /\ Len(View(v)) = MAX_LINES
<1>1. \A j \in 1..MAX_LINES : [x \in 1..MAX_COLUMNS |-> v[CHAR_OFF(x - 1, j - 1)]] \in [1..MAX_COLUMNS -> {v[i] : i \in Int}]
  BY DEF CHAR_OFF
<1> DEFINE S == [1..MAX_COLUMNS -> {v[i] : i \in Int}]
<1> HIDE DEF S
<1>2. View(v) \in [1..MAX_LINES -> S]
  BY <1>1 DEF View, S
<1>3. View(v) \in Seq(S) /\ Len(View(v)) = MAX_LINES
  BY <1>2
<1> QED
  BY <1>3 DEF S

LEMMA ViewScrolled ==
  ASSUME NEW v \in Screen
  PROVE  View(Scrolled(v)) = Append(Tail(View(v)), TT!BlankRow)
<1> DEFINE u == [i \in Cells |-> IF i + MAX_COLUMNS \in Cells THEN v[i + MAX_COLUMNS] ELSE v[i]]
           new == [j \in 1..MAX_LINES |-> [k \in 1..MAX_COLUMNS |->
                     IF j = MAX_LINES THEN BLANK_CHAR ELSE v[CHAR_OFF(k - 1, j)]]]
<1>1. u \in Screen
  BY DEF Screen
<1>2. View(Scrolled(v)) = new
  <2>1. MAX_LINES - 1 \in 0..(MAX_LINES - 1) /\ 0 \in 0..MAX_COLUMNS /\ MAX_COLUMNS \in 0..MAX_COLUMNS
    OBVIOUS
  <2>2. CHAR_OFF(0, MAX_LINES) = CHAR_OFF(MAX_COLUMNS, MAX_LINES - 1)
    <3>1. MAX_COLUMNS * MAX_LINES = MAX_COLUMNS * (MAX_LINES - 1) + MAX_COLUMNS
      OBVIOUS
    <3>2. MAX_COLUMNS * MAX_LINES \in Int /\ MAX_COLUMNS * (MAX_LINES - 1) \in Int
      OBVIOUS
    <3> QED
      BY <3>1, <3>2 DEF CHAR_OFF
  <2>0. Scrolled(v) = Blanked(u, CHAR_OFF(0, MAX_LINES - 1), CHAR_OFF(0, MAX_LINES))
    BY DEF Scrolled
  <2> HIDE DEF u
  <2>3. Scrolled(v) = Blanked(u, CHAR_OFF(0, MAX_LINES - 1), CHAR_OFF(MAX_COLUMNS, MAX_LINES - 1))
    BY <2>0, <2>2
  <2>4. View(Blanked(u, CHAR_OFF(0, MAX_LINES - 1), CHAR_OFF(MAX_COLUMNS, MAX_LINES - 1)))
          = Wiped(u, MAX_LINES - 1, 0, MAX_COLUMNS)
    BY <1>1, <2>1, ViewBlanked
  <2>5. ASSUME NEW j \in 1..MAX_LINES, NEW k \in 1..MAX_COLUMNS, j # MAX_LINES
        PROVE  u[CHAR_OFF(k - 1, j - 1)] = v[CHAR_OFF(k - 1, j)]
    <3>1. k - 1 \in 0..(MAX_COLUMNS - 1) /\ j - 1 \in 0..(MAX_LINES - 1) /\ j \in 0..(MAX_LINES - 1)
      BY <2>5
    <3>2. CHAR_OFF(k - 1, j - 1) \in Cells /\ CHAR_OFF(k - 1, j) \in Cells
      BY <3>1, CellOf
    <3>3. CHAR_OFF(k - 1, j - 1) + MAX_COLUMNS = CHAR_OFF(k - 1, j)
      <4>1. MAX_COLUMNS * j = MAX_COLUMNS * (j - 1) + MAX_COLUMNS /\ MAX_COLUMNS * (j - 1) \in Int
        OBVIOUS
      <4> QED
        BY <4>1 DEF CHAR_OFF
    <3> QED
      BY <3>2, <3>3 DEF u
  <2>6. Wiped(u, MAX_LINES - 1, 0, MAX_COLUMNS) = new
    BY <2>5 DEF Wiped
  <2> QED
    BY <2>3, <2>4, <2>6
<1> DEFINE s == View(v)
<1>3. s \in Seq([1..MAX_COLUMNS -> {v[i] : i \in Int}]) /\ Len(s) = MAX_LINES
  BY ViewTyped
<1>4. \A j \in 1..MAX_LINES : s[j] = [k \in 1..MAX_COLUMNS |-> v[CHAR_OFF(k - 1, j - 1)]]
  BY DEF View
<1> HIDE DEF s
<1> DEFINE T == [1..MAX_COLUMNS -> {v[i] : i \in Int}]
           t == Tail(s)
<1>5. t \in Seq(T) /\ Len(t) = MAX_LINES - 1 /\ \A j \in 1..(MAX_LINES - 1) : t[j] = s[j + 1]
  <2> HIDE DEF T
  <2>1. s \in Seq(T) /\ s # <<>> /\ Len(s) = MAX_LINES
    BY <1>3 DEF T
  <2> QED
    BY <2>1
<1> HIDE DEF t, T
<1> DEFINE a == Append(t, TT!BlankRow)
<1>6. a = [j \in 1..MAX_LINES |-> IF j = MAX_LINES THEN TT!BlankRow ELSE t[j]]
  <2>1. t \in Seq(T \union {TT!BlankRow})
    BY <1>5
  <2>2. a \in Seq(T \union {TT!BlankRow}) /\ Len(a) = MAX_LINES
    BY <1>5, <2>1
  <2>3. \A j \in 1..MAX_LINES : a[j] = IF j = MAX_LINES THEN TT!BlankRow ELSE t[j]
    BY <1>5, <2>1
  <2> HIDE DEF a
  <2>4. a = [j \in 1..MAX_LINES |-> a[j]]
    BY <2>2
  <2> QED
    BY <2>3, <2>4
<1> HIDE DEF a
<1>7. \A j \in 1..MAX_LINES : (IF j = MAX_LINES THEN TT!BlankRow ELSE t[j])
          = [k \in 1..MAX_COLUMNS |-> IF j = MAX_LINES THEN BLANK_CHAR ELSE v[CHAR_OFF(k - 1, j)]]
  <2> SUFFICES ASSUME NEW j \in 1..MAX_LINES
               PROVE  (IF j = MAX_LINES THEN TT!BlankRow ELSE t[j])
                        = [k \in 1..MAX_COLUMNS |-> IF j = MAX_LINES THEN BLANK_CHAR ELSE v[CHAR_OFF(k - 1, j)]]
    OBVIOUS
  <2>1. CASE j = MAX_LINES
    BY <2>1 DEF TT!BlankRow
  <2>2. CASE j # MAX_LINES
    <3>1. j + 1 \in 1..MAX_LINES /\ j \in 1..(MAX_LINES - 1) /\ (j + 1) - 1 = j
      BY <2>2
    <3>2. t[j] = s[j + 1]
      BY <1>5, <3>1
    <3>3. s[j + 1] = [k \in 1..MAX_COLUMNS |-> v[CHAR_OFF(k - 1, (j + 1) - 1)]]
      BY <1>4, <3>1
    <3>4. t[j] = [k \in 1..MAX_COLUMNS |-> v[CHAR_OFF(k - 1, j)]]
      BY <3>1, <3>2, <3>3
    <3> QED
      BY <2>2, <3>4
  <2> QED
    BY <2>1, <2>2
<1>8. a = new
  BY <1>6, <1>7
<1> QED
  BY <1>2, <1>8 DEF a, t, s

LEMMA SettleMoves ==
  ASSUME csr_x \in 0..(MAX_COLUMNS - 1), csr_y \in 0..(MAX_LINES - 1),
         NEW v \in Screen, NEW x \in 0..MAX_COLUMNS, Settle(v, x, csr_y)
  PROVE  TT!MoveTo(View(v), x + 1)
<1> DEFINE shown == [j \in 1..MAX_LINES |-> [k \in 1..MAX_COLUMNS |-> video'[CHAR_OFF(k - 1, j - 1)]]]
<1>1. shown = View(video')
  BY DEF View
<1>2. CASE x < MAX_COLUMNS
  <2>1. shown = View(v) /\ csr_x' = x /\ csr_y' = csr_y
    BY <1>1, <1>2 DEF Settle, PastEdge
  <2>2. csr_x' + 1 = x + 1 /\ csr_y' + 1 = csr_y + 1 /\ ~(x + 1 > MAX_COLUMNS)
    BY <1>2, <2>1
  <2> QED
    BY <2>1, <2>2 DEF TT!MoveTo
<1>3. CASE x = MAX_COLUMNS /\ csr_y < MAX_LINES - 1
  <2>1. shown = View(v) /\ csr_x' = 0 /\ csr_y' = csr_y + 1
    BY <1>1, <1>3 DEF Settle, PastEdge
  <2>2. csr_x' + 1 = 1 /\ csr_y' + 1 = (csr_y + 1) + 1 /\ x + 1 > MAX_COLUMNS /\ csr_y + 1 < MAX_LINES
    BY <1>3, <2>1
  <2> QED
    BY <2>1, <2>2 DEF TT!MoveTo, TT!Advanced
<1>4. CASE x = MAX_COLUMNS /\ csr_y = MAX_LINES - 1
  <2>1. shown = View(Scrolled(v)) /\ csr_x' = 0 /\ csr_y' = csr_y
    BY <1>1, <1>4 DEF Settle, PastEdge
  <2>2. shown = Append(Tail(View(v)), TT!BlankRow)
    BY <2>1, ViewScrolled
  <2>3. csr_x' + 1 = 1 /\ csr_y' + 1 = csr_y + 1 /\ x + 1 > MAX_COLUMNS /\ ~(csr_y + 1 < MAX_LINES)
    BY <1>4, <2>1
  <2> QED
    BY <2>2, <2>3 DEF TT!MoveTo, TT!Advanced
<1> QED
  BY <1>2, <1>3, <1>4

LEMMA WipedErased ==
  ASSUME csr_y \in 0..(MAX_LINES - 1), NEW a \in 0..MAX_COLUMNS, NEW b \in 0..MAX_COLUMNS
  PROVE  TT!Erased(a + 1, b + 1) = Wiped(video, csr_y, a, b)
<1>1. (b + 1) - 1 = b
  OBVIOUS
<1> QED
  BY <1>1 DEF TT!Erased, Wiped

LEMMA OnlyZero == ASSUME NEW T \in Nat \ {0}, NEW m \in Int, T * m \in (1 - T)..(T - 1) PROVE m = 0
<1>1. CASE m >= 1
  <2>1. T * m = T * (m - 1) + T /\ T * (m - 1) >= 0
    BY <1>1
  <2> QED
    BY <2>1
<1>2. CASE m <= -1
  <2>1. T * m = T * (m + 1) - T /\ T * (m + 1) <= 0
    BY <1>2
  <2> QED
    BY <2>1
<1> QED
  BY <1>1, <1>2

LEMMA Division ==
  ASSUME NEW n \in Nat, NEW t \in Nat \ {0}
  PROVE  n \div t \in Nat /\ n % t \in 0..(t - 1) /\ n = t * (n \div t) + (n % t)
<1>1. n = t * (n \div t) + (n % t) /\ n \div t \in Int /\ n % t \in 0..(t - 1)
  BY SMT
<1>2. ASSUME NEW q \in Int, NEW r \in 0..(t - 1), n = t * q + r PROVE q \in Nat
  <2>1. CASE q <= -1
    <3>1. t * (-1 - q) >= 0 /\ t * (-1 - q) = -t - t * q
      BY <2>1
    <3> QED
      BY <1>2, <3>1
  <2> QED
    BY <2>1
<1>3. n \div t \in Nat
  BY <1>1, <1>2
<1> QED
  BY <1>1, <1>3

\* Tab stops are at the multiples of the width of a tab, which differ by no less.
LEMMA Multiple == ASSUME NEW T \in Nat \ {0}, NEW k \in Nat PROVE (T * k) % T = 0
<1> DEFINE a == T * k
           d == a \div T
           r == a % T
<1>1. a \in Nat
  OBVIOUS
<1> HIDE DEF a
<1>2. d \in Int /\ r \in 0..(T - 1) /\ a = T * d + r
  BY <1>1, SMT
<1> HIDE DEF d, r
<1>3. r = T * (k - d)
  BY <1>2 DEF a
<1>4. k - d = 0
  BY <1>2, <1>3, OnlyZero
<1> QED
  BY <1>2, <1>3, <1>4 DEF a, r

LEMMA SameStop ==
  ASSUME NEW T \in Nat \ {0}, NEW a \in Nat, NEW b \in Nat, a % T = 0, b % T = 0, a - b \in (1 - T)..(T - 1)
  PROVE  a = b
<1> DEFINE m == a \div T
           n == b \div T
<1>1. a = T * m /\ b = T * n /\ m \in Int /\ n \in Int
  OBVIOUS
<1> HIDE DEF m, n
<1>2. a - b = T * (m - n)
  BY <1>1
<1>3. m - n = 0
  BY <1>1, <1>2, OnlyZero
<1> QED
  BY <1>1, <1>3

LEMMA StopOfTab ==
  ASSUME csr_x \in 0..(MAX_COLUMNS - 1)
  PROVE  NextTab \in 0..MAX_COLUMNS /\ TT!TabStop = NextTab + 1
<1> DEFINE T == TAB_WIDTH
           s == csr_x + T - (csr_x % T)
           q == csr_x \div T
           m == MAX_COLUMNS \div T
<1>1. T \in Nat \ {0} /\ csr_x \in Nat /\ csr_x % T \in 0..(T - 1)
  OBVIOUS
<1>2. s \in (csr_x + 1)..(csr_x + T)
  BY <1>1
<1>3. s = T * (q + 1) /\ q \in Nat /\ csr_x >= T * q /\ m \in Nat /\ MAX_COLUMNS = T * m
  <2>1. csr_x = T * q + (csr_x % T) /\ q \in Nat
    BY <1>1, Division
  <2>2. MAX_COLUMNS = T * m /\ T * m \in Nat /\ m \in Nat
    <3>1. MAX_COLUMNS \in Nat /\ MAX_COLUMNS % T = 0
      OBVIOUS
    <3>2. MAX_COLUMNS = T * m + 0 /\ m \in Nat
      BY <1>1, <3>1, Division
    <3> HIDE DEF m
    <3>3. T * m \in Nat
      BY <1>1, <3>2
    <3> QED
      BY <3>2, <3>3
  <2> HIDE DEF q, m
  <2>3. T * (q + 1) = T * q + T /\ T * q \in Nat
    BY <2>1
  <2>4. s = T * (q + 1) /\ csr_x >= T * q
    <3> DEFINE r == csr_x % T
    <3>1. s = csr_x + T - r /\ csr_x = T * q + r /\ r \in 0..(T - 1)
      BY <1>1, <2>1
    <3> HIDE DEF r, s
    <3> QED
      BY <1>1, <2>3, <3>1
  <2> QED
    BY <2>1, <2>2, <2>4
<1>4. s <= MAX_COLUMNS
  <2> HIDE DEF q, m
  <2>1. CASE q >= m
    <3>1. T * (q - m) >= 0 /\ T * (q - m) = T * q - T * m
      BY <1>3, <2>1
    <3> QED
      BY <1>3, <3>1
  <2>2. CASE q < m
    <3>1. T * (m - q - 1) >= 0 /\ T * (m - q - 1) = T * m - T * (q + 1)
      BY <1>3, <2>2
    <3> QED
      BY <1>2, <1>3, <3>1
  <2> QED
    BY <1>3, <2>1, <2>2
<1>5. s % T = 0
  <2> HIDE DEF q, s
  <2>1. (T * (q + 1)) % T = 0
    BY <1>1, <1>3, Multiple
  <2> QED
    BY <1>3, <2>1
<1> QED
  BY <1>1, <1>2, <1>4, <1>5, SameStop DEF TT!TabStop, NextTab, Least


\* A byte that is printed is a step of the teletype, or none.
LEMMA PrintTypes ==
  ASSUME ConsoleTypeOK, NEW c \in Printed, print_c(c)
  PROVE  TT!Next \/ UNCHANGED TT!paper
<1> DEFINE p == CHAR_OFF(csr_x, csr_y)
<1>1. video \in Screen /\ csr_x \in 0..(MAX_COLUMNS - 1) /\ csr_y \in 0..(MAX_LINES - 1)
  BY DEF ConsoleTypeOK, Screen
<1>2. CASE c = "return"
  <2>1. video' = video /\ csr_x' = 0 /\ csr_y' = csr_y
    BY <1>1, <1>2 DEF print_c, Settle, PastEdge
  <2>2. csr_x' + 1 = 1 /\ csr_y' + 1 = csr_y + 1
    BY <2>1
  <2>3. TT!Return
    BY <2>1, <2>2 DEF TT!Return
  <2> QED
    BY <2>3 DEF TT!Next
<1>3. CASE c = "newline"
  <2> DEFINE v == Blanked(video, p, CHAR_OFF(MAX_COLUMNS, csr_y))
  <2>1. Settle(v, MAX_COLUMNS, csr_y) /\ v \in Screen /\ MAX_COLUMNS \in 0..MAX_COLUMNS
    BY <1>1, <1>3, BlankedTyped DEF print_c, Screen
  <2>2. csr_x \in 0..MAX_COLUMNS
    BY <1>1
  <2>3. View(v) = TT!Erased(csr_x + 1, MAX_COLUMNS + 1)
    BY <1>1, <2>1, <2>2, ViewBlanked, WipedErased
  <2> HIDE DEF v
  <2>4. TT!MoveTo(TT!Erased(csr_x + 1, MAX_COLUMNS + 1), MAX_COLUMNS + 1)
    BY <1>1, <2>1, <2>3, SettleMoves
  <2>5. TT!NewLine
    BY <2>4 DEF TT!NewLine, TT!MoveTo
  <2> QED
    BY <2>5 DEF TT!Next
<1>4. CASE c = "tab"
  <2> DEFINE v == Blanked(video, p, CHAR_OFF(NextTab, csr_y))
  <2>1. Settle(v, NextTab, csr_y) /\ v \in Screen
    BY <1>1, <1>4, BlankedTyped DEF print_c, Screen
  <2>2. csr_x \in 0..MAX_COLUMNS /\ NextTab \in 0..MAX_COLUMNS /\ TT!TabStop = NextTab + 1
    BY <1>1, StopOfTab
  <2>3. View(v) = TT!Erased(csr_x + 1, NextTab + 1)
    BY <1>1, <2>2, ViewBlanked, WipedErased
  <2> HIDE DEF v
  <2>4. TT!MoveTo(TT!Erased(csr_x + 1, NextTab + 1), NextTab + 1)
    BY <1>1, <2>1, <2>2, <2>3, SettleMoves
  <2>5. TT!ToTab
    BY <2>2, <2>4 DEF TT!ToTab
  <2> QED
    BY <2>5 DEF TT!Next
<1>5. CASE c = "back"
  <2>1. CASE csr_x = 0 /\ csr_y = 0
    <3>1. UNCHANGED console
      BY <1>5, <2>1 DEF print_c
    <3> QED
      BY <3>1 DEF console, TT!paper
  <2>2. CASE ~(csr_x = 0 /\ csr_y = 0)
    <3> DEFINE x == IF csr_x = 0 THEN MAX_COLUMNS - 1 ELSE csr_x - 1
               y == IF csr_x = 0 THEN csr_y - 1 ELSE csr_y
               v == Blanked(video, p - 1, p)
               w == [video EXCEPT ![CHAR_OFF(x, y)] = BLANK_CHAR]
    <3>1. Settle(v, x, y)
      BY <1>5, <2>2 DEF print_c
    <3>2. x \in 0..(MAX_COLUMNS - 1) /\ y \in 0..(MAX_LINES - 1)
      BY <1>1, <2>2
    <3>3. p - 1 = CHAR_OFF(x, y)
      <4>1. MAX_COLUMNS * (csr_y - 1) = MAX_COLUMNS * csr_y - MAX_COLUMNS /\ MAX_COLUMNS * csr_y \in Int
        BY <1>1
      <4> QED
        BY <1>1, <4>1 DEF CHAR_OFF
    <3>4. v = w
      <4>1. p \in Int
        BY <1>1 DEF CHAR_OFF
      <4> HIDE DEF p, x, y
      <4>2. CHAR_OFF(x, y)..(p - 1) = {CHAR_OFF(x, y)}
        BY <3>3, <4>1
      <4>3. v = [i \in Cells |-> IF i \in {CHAR_OFF(x, y)} THEN BLANK_CHAR ELSE video[i]]
        BY <3>3, <4>2 DEF Blanked
      <4> HIDE DEF v
      <4> QED
        BY <1>1, <4>3 DEF Screen
    <3>5. View(w) = Put(View(video), x, y, BLANK_CHAR)
      <4> HIDE DEF x, y
      <4> QED
        BY <1>1, <3>2, ViewUpdated
    <3>6. View(video') = View(w) /\ csr_x' = x /\ csr_y' = y
      <4> HIDE DEF x, y, v, w
      <4> QED
        BY <3>1, <3>2, <3>4 DEF Settle, PastEdge
    <3>7. View(video') = [View(video) EXCEPT ![y + 1][x + 1] = BLANK_CHAR]
      BY <3>5, <3>6 DEF Put
    <3>8. /\ y + 1 = IF csr_x + 1 > 1 THEN csr_y + 1 ELSE (csr_y + 1) - 1
          /\ x + 1 = IF csr_x + 1 > 1 THEN (csr_x + 1) - 1 ELSE MAX_COLUMNS
          /\ y + 1 # 0
      BY <1>1, <3>2
    <3> HIDE DEF x, y, v, w
    <3>9. TT!Erase
      BY <3>6, <3>7, <3>8 DEF TT!Erase, View
    <3> QED
      BY <3>9 DEF TT!Next
  <2> QED
    BY <2>1, <2>2
<1>6. CASE c \notin {"return", "newline", "tab", "back"}
  <2> DEFINE v == [video EXCEPT ![p] = c]
             x == csr_x + 1
  <2>1. Settle(v, x, csr_y) /\ c \in Chars
    BY <1>6 DEF print_c, Printed
  <2>2. v \in Screen
    <3> HIDE DEF p
    <3> QED
      BY <1>1, <2>1 DEF Screen
  <2>3. View(v) = [View(video) EXCEPT ![csr_y + 1][csr_x + 1] = c]
    <3>1. View(v) = Put(View(video), csr_x, csr_y, c)
      BY <1>1, ViewUpdated
    <3> QED
      BY <3>1 DEF Put
  <2>4. x \in 0..MAX_COLUMNS
    BY <1>1
  <2> HIDE DEF v
  <2>5. TT!MoveTo(View(v), x + 1)
    BY <1>1, <2>1, <2>2, <2>4, SettleMoves
  <2>6. TT!Type(c)
    BY <2>3, <2>5 DEF TT!Type, View
  <2> QED
    BY <2>1, <2>6 DEF TT!Next
<1> QED
  BY <1>2, <1>3, <1>4, <1>5, <1>6

LEMMA StartsBlank == Init => TT!Init
<1> SUFFICES ASSUME Init PROVE TT!Init
  OBVIOUS
<1>1. video = [i \in Cells |-> BLANK_CHAR] /\ csr_x = 0 /\ csr_y = 0
  BY DEF Init, ConsoleInit
<1>2. \A y \in 1..MAX_LINES, x \in 1..MAX_COLUMNS : video[CHAR_OFF(x - 1, y - 1)] = BLANK_CHAR
  <2> SUFFICES ASSUME NEW y \in 1..MAX_LINES, NEW x \in 1..MAX_COLUMNS
               PROVE  video[CHAR_OFF(x - 1, y - 1)] = BLANK_CHAR
    OBVIOUS
  <2>1. x - 1 \in 0..(MAX_COLUMNS - 1) /\ y - 1 \in 0..(MAX_LINES - 1)
    OBVIOUS
  <2>2. CHAR_OFF(x - 1, y - 1) \in Cells
    BY <2>1, CellOf
  <2> QED
    BY <1>1, <2>2
<1> QED
  BY <1>1, <1>2 DEF TT!Init, TT!BlankRow

LEMMA TeletypeStep == InputInv /\ [Next]_vars => [TT!Next]_(TT!paper)
<1> SUFFICES ASSUME InputInv, [Next]_vars PROVE TT!Next \/ UNCHANGED TT!paper
  OBVIOUS
<1>0. ConsoleTypeOK /\ mousecount \in 0..2
  BY DEF InputInv, TypeOK
<1>1. UNCHANGED console \/ \E c \in Printed : print_c(c)
  <2>1. CASE Devices \/ Fill \/ Install
    BY <2>1 DEF Devices, Move, Strike, Fill, Install, MouseWrite, MouseRead, Sti
  <2>2. CASE DoKb
    BY <2>2, KeyPrinted
  <2>3. CASE DoMouseEmpty
    BY <1>0, <2>3, DigitPrinted DEF DoMouseEmpty
  <2>4. CASE DoMouseTest
    BY <2>4 DEF DoMouseTest
  <2>5. CASE DoMouseRead
    <3>1. /\ mousecount' = IF PacketFull(mousecount + 1) THEN 0 ELSE mousecount + 1
          /\ print_c(Digit[mousecount' + 1])
      BY <2>5 DEF DoMouseRead
    <3>2. mousecount' \in 0..2
      BY <1>0, <3>1 DEF PacketFull
    <3> QED
      BY <3>1, <3>2, DigitPrinted
  <2>6. CASE \E i \in {"kb", "mouse"} : Deliver(i)
    BY <2>6 DEF Deliver
  <2>7. CASE UNCHANGED vars
    BY <2>7 DEF vars
  <2> QED
    BY <2>1, <2>2, <2>3, <2>4, <2>5, <2>6, <2>7 DEF Next, Handlers, DoMouse
<1>2. CASE UNCHANGED console
  BY <1>2 DEF console, TT!paper
<1> QED
  BY <1>0, <1>1, <1>2, PrintTypes

----------------------------------------------------------------------------
(* The bytes on their way *)

KbBytes == {Scan(k, m) : k \in Keys, m \in BOOLEAN}
MouseBytes == {ACK} \union {Part(n) : n \in 1..3}

\* The places of the codes of k in q.
Places(k, q) == {i \in DOMAIN q : q[i].what[1] = k}

LEMMA PlacesFinite ==
  ASSUME NEW q \in Seq(KbBytes), NEW k
  PROVE  IsFiniteSet(Places(k, q)) /\ Cardinality(Places(k, q)) \in Nat
<1>1. IsFiniteSet(1..Len(q))
  <2>1. Len(q) \in Int /\ 1 \in Int
    OBVIOUS
  <2> QED
    BY <2>1, FS_Interval, Zenon
<1>2. Places(k, q) \in SUBSET (1..Len(q))
  BY DEF Places
<1>3. IsFiniteSet(Places(k, q))
  BY <1>1, <1>2, FS_Subset, Zenon
<1> QED
  BY <1>3, FS_CardinalityType, Zenon

LEMMA CodesPlaced == ASSUME NEW k, NEW q PROVE CodesOf(k, q) = Cardinality(Places(k, q))
BY DEF CodesOf, Places

LEMMA CodesCounted == ASSUME NEW q \in Seq(KbBytes), NEW k PROVE CodesOf(k, q) \in Nat
BY PlacesFinite, CodesPlaced, Zenon

LEMMA CodeAppended ==
  ASSUME NEW q \in Seq(KbBytes), NEW b \in KbBytes, NEW k
  PROVE  CodesOf(k, Append(q, b)) = CodesOf(k, q) + (IF b.what[1] = k THEN 1 ELSE 0)
<1> DEFINE n == Len(q) + 1
           a == Append(q, b)
<1>1. n \notin Places(k, q)
  BY DEF Places
<1>2. /\ DOMAIN a = 1..n /\ DOMAIN q = 1..(n - 1) /\ n \in Nat \ {0}
      /\ a[n] = b /\ \A i \in 1..(n - 1) : a[i] = q[i]
  OBVIOUS
<1> HIDE DEF n, a
<1>3. Places(k, a) = IF b.what[1] = k THEN Places(k, q) \union {n} ELSE Places(k, q)
  <2>1. \A i \in DOMAIN a : i = n \/ i \in DOMAIN q
    BY <1>2
  <2>2. \A i \in DOMAIN q : i \in DOMAIN a /\ a[i] = q[i] /\ n \in DOMAIN a /\ i # n
    BY <1>2
  <2>3. a[n] = b /\ n \in DOMAIN a
    BY <1>2
  <2>4. \A i : i \in Places(k, a) <=> (i \in Places(k, q) \/ (i = n /\ b.what[1] = k))
    BY <2>1, <2>2, <2>3 DEF Places
  <2> QED
    BY <2>4
<1>4. Cardinality(Places(k, a)) = Cardinality(Places(k, q)) + (IF b.what[1] = k THEN 1 ELSE 0)
  <2>1. IsFiniteSet(Places(k, q)) /\ Cardinality(Places(k, q)) \in Nat
    BY PlacesFinite
  <2>2. CASE b.what[1] = k
    <3>1. Cardinality(Places(k, q) \union {n}) = Cardinality(Places(k, q)) + 1
      BY <1>1, <2>1, FS_AddElement, Zenon
    <3> QED
      BY <1>3, <2>2, <3>1
  <2>3. CASE b.what[1] # k
    BY <1>3, <2>1, <2>3
  <2> QED
    BY <2>2, <2>3
<1> QED
  BY <1>4, CodesPlaced DEF a

LEMMA CodeTaken ==
  ASSUME NEW q \in Seq(KbBytes), NEW b \in KbBytes, NEW k
  PROVE  CodesOf(k, <<b>> \o q) = CodesOf(k, q) + (IF b.what[1] = k THEN 1 ELSE 0)
<1> DEFINE n == Len(q)
           a == <<b>> \o q
           S == Places(k, q)
           T == {i + 1 : i \in S}
<1>1. /\ DOMAIN a = 1..(n + 1) /\ DOMAIN q = 1..n /\ n \in Nat
      /\ a[1] = b /\ \A i \in 1..n : a[i + 1] = q[i]
  <2>1. Len(<<b>>) = 1 /\ <<b>> \in Seq(KbBytes)
    OBVIOUS
  <2> QED
    BY <2>1
<1> HIDE DEF a, n
<1>2. Places(k, a) = IF b.what[1] = k THEN T \union {1} ELSE T
  <2>1. \A i \in 1..(n + 1) : i = 1 \/ (i - 1 \in 1..n /\ (i - 1) + 1 = i)
    BY <1>1
  <2>2. ASSUME NEW i \in Places(k, a), i # 1 PROVE i \in T
    <3>1. i \in 1..(n + 1) /\ a[i].what[1] = k
      BY <1>1 DEF Places
    <3>2. i - 1 \in 1..n /\ (i - 1) + 1 = i
      BY <1>1, <2>2, <3>1
    <3>3. a[(i - 1) + 1] = q[i - 1]
      BY <1>1, <3>2
    <3>4. q[i - 1].what[1] = k /\ i - 1 \in DOMAIN q
      BY <1>1, <3>1, <3>2, <3>3
    <3> QED
      BY <3>2, <3>4 DEF Places
  <2>3. T \subseteq Places(k, a) /\ 1 \notin T
    BY <1>1 DEF Places
  <2>4. 1 \in Places(k, a) <=> b.what[1] = k
    BY <1>1 DEF Places
  <2> QED
    BY <2>2, <2>3, <2>4
<1>3. 1 \notin T
  BY <1>1 DEF Places
<1>4. S \subseteq Nat
  BY <1>1 DEF Places
<1>5. IsFiniteSet(S) /\ Cardinality(S) \in Nat
  BY PlacesFinite
<1>6. IsFiniteSet(T) /\ Cardinality(T) = Cardinality(S)
  <2> DEFINE f == [i \in S |-> i + 1]
  <2> HIDE DEF S
  <2>1. f \in Bijection(S, T)
    <3>1. f \in [S -> T] /\ \A t \in T : \E i \in S : f[i] = t
      OBVIOUS
    <3>2. \A i, j \in DOMAIN f : f[i] = f[j] => i = j
      BY <1>4
    <3> QED
      BY <3>1, <3>2, Zenon DEF Bijection, Injection, Surjection, IsInjective
  <2> QED
    <3>1. ExistsBijection(S, T)
      BY <2>1 DEF ExistsBijection
    <3>2. IsFiniteSet(S)
      BY <1>5
    <3> HIDE DEF T
    <3> QED
      BY <3>1, <3>2, FS_Bijection, Zenon
<1> HIDE DEF S, T
<1>7. Cardinality(Places(k, a)) = Cardinality(S) + (IF b.what[1] = k THEN 1 ELSE 0)
  <2>1. CASE b.what[1] = k
    <3>1. Cardinality(T \union {1}) = Cardinality(T) + 1
      BY <1>3, <1>6, FS_AddElement, Zenon
    <3> QED
      BY <1>2, <1>6, <2>1, <3>1
  <2>2. CASE b.what[1] # k
    BY <1>2, <1>5, <1>6, <2>2
  <2> QED
    BY <2>1, <2>2
<1> QED
  BY <1>7, CodesPlaced DEF a, S

----------------------------------------------------------------------------
\* Each device sends its own bytes only.
QueuesTyped == kbq \in Seq(KbBytes) /\ mq \in Seq(MouseBytes)

LEMMA ByteKinds ==
  /\ \A b \in KbBytes : b.from = "kb" /\ b # ACK /\ \E k \in Keys, m \in BOOLEAN : b.what = <<k, m>>
  /\ \A b \in MouseBytes : b.from = "mouse"
  /\ \A b \in Bytes : b.from = "kb" <=> b \in KbBytes
  /\ \A b \in Bytes : b.from = "mouse" <=> b \in MouseBytes
  /\ ACK \in MouseBytes /\ \A n \in 1..3 : Part(n) \in MouseBytes
BY DEF KbBytes, MouseBytes, Bytes, ACK, Part, Scan

LEMMA QueuesInit == Init => QueuesTyped
BY DEF Init, QueuesTyped

LEMMA QueuesStep == QueuesTyped /\ [Next]_vars => QueuesTyped'
<1> SUFFICES ASSUME QueuesTyped, [Next]_vars PROVE QueuesTyped'
  OBVIOUS
<1>0. kbq \in Seq(KbBytes) /\ mq \in Seq(MouseBytes)
  BY DEF QueuesTyped
<1>1. CASE Move
  <2>1. <<Part(1), Part(2), Part(3)>> \in Seq(MouseBytes)
    BY ByteKinds
  <2>2. mq' = mq \o <<Part(1), Part(2), Part(3)>> /\ kbq' = kbq
    BY <1>1 DEF Move
  <2> QED
    BY <1>0, <2>1, <2>2 DEF QueuesTyped
<1>2. ASSUME NEW k \in Keys, NEW make \in BOOLEAN, Strike(k, make) PROVE QueuesTyped'
  <2>1. Scan(k, make) \in KbBytes
    BY DEF KbBytes
  <2> QED
    BY <1>0, <1>2, <2>1 DEF Strike, QueuesTyped
<1>3. CASE Fill
  <2>1. CASE kbq # <<>> /\ data' = Head(kbq) /\ kbq' = Tail(kbq) /\ mq' = mq
    BY <1>0, <2>1 DEF QueuesTyped
  <2>2. CASE mq # <<>> /\ data' = Head(mq) /\ mq' = Tail(mq) /\ kbq' = kbq
    BY <1>0, <2>2 DEF QueuesTyped
  <2> QED
    BY <1>3, <2>1, <2>2 DEF Fill
<1>4. CASE MouseWrite
  <2>1. mq' = Append(mq, ACK) /\ kbq' = kbq /\ ACK \in MouseBytes
    BY <1>4, ByteKinds DEF MouseWrite
  <2> QED
    BY <1>0, <2>1 DEF QueuesTyped
<1>5. CASE UNCHANGED <<kbq, mq>>
  BY <1>0, <1>5 DEF QueuesTyped
<1>6. CASE MouseRead \/ Sti \/ Handlers \/ UNCHANGED vars
  <2>1. UNCHANGED <<kbq, mq>>
    BY <1>6 DEF MouseRead, Sti, Handlers, Deliver, DoKb, DoMouse, DoMouseEmpty, DoMouseTest, DoMouseRead,
                Inb, hardware, vars
  <2> QED
    BY <1>5, <2>1
<1> QED
  BY <1>1, <1>2, <1>3, <1>4, <1>6 DEF Next, Devices, Install

\* The controller takes a byte over: that changes no order.
LEMMA FillPending ==
  ASSUME QueuesTyped, Fill
  PROVE  Pending(kbq, "kb")' = Pending(kbq, "kb") /\ Pending(mq, "mouse")' = Pending(mq, "mouse")
<1>1. ~full /\ full' = TRUE /\ kbq \in Seq(KbBytes) /\ mq \in Seq(MouseBytes)
  BY DEF Fill, QueuesTyped
<1>2. CASE kbq # <<>> /\ data' = Head(kbq) /\ kbq' = Tail(kbq) /\ mq' = mq
  <2>1. data' \in KbBytes /\ data'.from = "kb"
    BY <1>1, <1>2, ByteKinds
  <2>2. kbq = <<data'>> \o kbq' /\ kbq = <<>> \o kbq /\ mq = <<>> \o mq
    BY <1>1, <1>2
  <2> QED
    BY <1>1, <1>2, <2>1, <2>2 DEF Pending
<1>3. CASE mq # <<>> /\ data' = Head(mq) /\ mq' = Tail(mq) /\ kbq' = kbq
  <2>1. data' \in MouseBytes /\ data'.from = "mouse"
    BY <1>1, <1>3, ByteKinds
  <2>2. mq = <<data'>> \o mq' /\ kbq = <<>> \o kbq /\ mq = <<>> \o mq
    BY <1>1, <1>3
  <2> QED
    BY <1>1, <1>3, <2>1, <2>2 DEF Pending
<1> QED
  BY <1>2, <1>3 DEF Fill

LEMMA PendingTyped ==
  ASSUME InputInv, QueuesTyped
  PROVE  Pending(kbq, "kb") \in Seq(KbBytes) /\ Pending(mq, "mouse") \in Seq(MouseBytes)
<1>1. data \in Bytes /\ kbq \in Seq(KbBytes) /\ mq \in Seq(MouseBytes)
  BY DEF InputInv, TypeOK, QueuesTyped
<1>2. data.from = "kb" => <<data>> \in Seq(KbBytes)
  BY <1>1, ByteKinds
<1>3. data.from = "mouse" => <<data>> \in Seq(MouseBytes)
  BY <1>1, ByteKinds
<1>4. (IF full /\ data.from = "kb" THEN <<data>> ELSE <<>>) \in Seq(KbBytes)
  BY <1>2
<1>5. (IF full /\ data.from = "mouse" THEN <<data>> ELSE <<>>) \in Seq(MouseBytes)
  BY <1>3
<1> QED
  BY <1>1, <1>4, <1>5 DEF Pending

\* A read that takes the byte it is meant for.
LEMMA InbTakes ==
  ASSUME NEW meant \in BOOLEAN, Inb(meant), "byte" \notin slip'
  PROVE  full /\ meant /\ full' = FALSE /\ slip' = slip /\ UNCHANGED <<down, kbq, mq, data>>
BY DEF Inb

\* A byte too few or too many, and the history has it.
LEMMA SlipGrows == [Next]_vars => slip \subseteq slip'
BY DEF Next, Devices, Move, Strike, Fill, Install, MouseWrite, MouseRead, Sti, Handlers, Deliver, DoKb, DoMouse,
       DoMouseEmpty, DoMouseTest, DoMouseRead, Inb, vars

LEMMA StrikeInStep ==
  ASSUME InputInv, QueuesTyped, ModifiersInStep, NEW key \in Keys, NEW make \in BOOLEAN, Strike(key, make)
  PROVE  ModifiersInStep'
<1> DEFINE P == Pending(kbq, "kb")
<1> SUFFICES ASSUME slip' = {}, NEW k \in Modifier
             PROVE  (k \in down') <=> (pressed'[k] + CodesOf(k, P')) % 2 = 1
  BY DEF ModifiersInStep
<1>1. /\ make \/ key \in down
      /\ down' = IF make THEN down \union {key} ELSE down \ {key}
      /\ kbq' = Append(kbq, Scan(key, make))
      /\ UNCHANGED <<full, data, pressed>>
      /\ ~(make /\ key \in down /\ key \in Modifier) /\ slip = {}
  BY DEF Strike, kbvars
<1>2. Scan(key, make) \in KbBytes /\ Scan(key, make).what[1] = key
  BY DEF KbBytes, Scan
<1>3. P \in Seq(KbBytes) /\ P' = Append(P, Scan(key, make))
  <2>1. P \in Seq(KbBytes)
    BY PendingTyped
  <2> DEFINE h == IF full /\ data.from = "kb" THEN <<data>> ELSE <<>>
  <2>2. P = h \o kbq /\ P' = h \o Append(kbq, Scan(key, make))
    BY <1>1 DEF Pending
  <2>3. kbq \in Seq(Bytes) /\ h \in Seq(Bytes) /\ Scan(key, make) \in Bytes
    <3>1. data \in Bytes /\ kbq \in Seq(Bytes)
      BY DEF InputInv, TypeOK
    <3>2. Scan(key, make) \in Bytes
      BY DEF Bytes
    <3> QED
      BY <3>1, <3>2
  <2> HIDE DEF h, P
  <2> QED
    BY <2>1, <2>2, <2>3
<1> DEFINE n == CodesOf(k, P)
<1>4. CodesOf(k, P') = n + (IF key = k THEN 1 ELSE 0) /\ n \in Nat
  <2> HIDE DEF P
  <2>1. CodesOf(k, Append(P, Scan(key, make))) = CodesOf(k, P) + (IF Scan(key, make).what[1] = k THEN 1 ELSE 0)
    BY <1>2, <1>3, CodeAppended, Zenon
  <2>2. CodesOf(k, P) \in Nat
    BY <1>3, CodesCounted, Zenon
  <2> QED
    BY <1>2, <1>3, <2>1, <2>2
<1>5. pressed'[k] = pressed[k] /\ pressed[k] \in 0..1
  BY <1>1 DEF InputInv, TypeOK
<1>6. (k \in down) <=> (pressed[k] + n) % 2 = 1
  BY <1>1 DEF ModifiersInStep
<1> HIDE DEF n, P
<1>7. CASE key = k
  <2>1. (k \in down') <=> ~(k \in down)
    BY <1>1, <1>7
  <2>2. CodesOf(k, P') = n + 1
    BY <1>4, <1>7
  <2>3. (pressed[k] + (n + 1)) % 2 = 1 <=> ~((pressed[k] + n) % 2 = 1)
    BY <1>4, <1>5
  <2> QED
    BY <1>5, <1>6, <2>1, <2>2, <2>3
<1>8. CASE key # k
  <2>1. (k \in down') <=> (k \in down)
    BY <1>1, <1>8
  <2>2. CodesOf(k, P') = n
    BY <1>4, <1>8
  <2> QED
    BY <1>5, <1>6, <2>1, <2>2
<1> QED
  BY <1>7, <1>8

LEMMA DoKbInStep ==
  ASSUME InputInv, QueuesTyped, ModifiersInStep, DoKb
  PROVE  ModifiersInStep'
<1> DEFINE P == Pending(kbq, "kb")
<1> SUFFICES ASSUME slip' = {}, NEW k \in Modifier
             PROVE  (k \in down') <=> (pressed'[k] + CodesOf(k, P')) % 2 = 1
  BY DEF ModifiersInStep
<1>1. full /\ data.from = "kb" /\ full' = FALSE /\ slip' = slip /\ UNCHANGED <<down, kbq, data>>
  <2>1. Inb(data.from = "kb")
    BY DEF DoKb
  <2> QED
    BY <2>1, InbTakes
<1>2. PICK key \in Keys, m \in BOOLEAN : data.what = <<key, m>> /\ data \in KbBytes
  <2>1. data \in KbBytes
    BY <1>1, ByteKinds DEF InputInv, TypeOK
  <2> QED
    BY <2>1, ByteKinds
<1>3. pressed' = IF key \in Modifier THEN [pressed EXCEPT ![key] = 1 - pressed[key]] ELSE pressed
  <2>1. PICK code \in Codes(data) : KeyWay(code[1], code[2])
    BY DEF DoKb
  <2>2. code = <<key, m>>
    <3>1. Codes(data) = {data.what}
      BY <1>1 DEF Codes, ACK
    <3> QED
      BY <1>2, <2>1, <3>1
  <2> QED
    BY <2>1, <2>2 DEF KeyWay, Toggled
<1>4. P = <<data>> \o kbq /\ P' = kbq /\ kbq \in Seq(KbBytes)
  <2>1. kbq \in Seq(KbBytes) /\ <<>> \o kbq = kbq
    BY DEF QueuesTyped
  <2> QED
    BY <1>1, <2>1 DEF Pending
<1> DEFINE n == CodesOf(k, kbq)
<1>5. CodesOf(k, P) = n + (IF key = k THEN 1 ELSE 0) /\ n \in Nat
  <2>1. data.what[1] = key
    BY <1>2
  <2> QED
    <3> HIDE DEF P
    <3>1. CodesOf(k, <<data>> \o kbq) = CodesOf(k, kbq) + (IF data.what[1] = k THEN 1 ELSE 0)
      BY <1>2, <1>4, CodeTaken, Zenon
    <3>2. CodesOf(k, kbq) \in Nat
      BY <1>4, CodesCounted, Zenon
    <3> QED
      BY <1>4, <2>1, <3>1, <3>2
<1>6. (k \in down) <=> (pressed[k] + CodesOf(k, P)) % 2 = 1
  BY <1>1 DEF ModifiersInStep
<1>7. pressed[k] \in 0..1 /\ pressed \in [Modifier -> 0..1]
  BY DEF InputInv, TypeOK
<1>8. CodesOf(k, P') = n /\ down' = down
  BY <1>1, <1>4
<1> HIDE DEF n, P
<1>9. CASE key = k
  <2>1. pressed'[k] = 1 - pressed[k] /\ CodesOf(k, P) = n + 1
    BY <1>3, <1>5, <1>7, <1>9
  <2>2. ((1 - pressed[k]) + n) % 2 = 1 <=> (pressed[k] + (n + 1)) % 2 = 1
    BY <1>5, <1>7
  <2> QED
    BY <1>6, <1>8, <2>1, <2>2
<1>10. CASE key # k
  <2>1. pressed'[k] = pressed[k] /\ CodesOf(k, P) = n
    BY <1>3, <1>5, <1>7, <1>10
  <2> QED
    BY <1>6, <1>8, <2>1
<1> QED
  BY <1>9, <1>10

LEMMA InStepNext == InputInv /\ QueuesTyped /\ ModifiersInStep /\ [Next]_vars => ModifiersInStep'
<1> SUFFICES ASSUME InputInv, QueuesTyped, ModifiersInStep, [Next]_vars PROVE ModifiersInStep'
  OBVIOUS
<1>1. ASSUME slip' = {} => Pending(kbq, "kb")' = Pending(kbq, "kb") /\ UNCHANGED <<down, pressed>>
      PROVE  ModifiersInStep'
  <2> SUFFICES ASSUME slip' = {}, NEW k \in Modifier
               PROVE  (k \in down') <=> (pressed'[k] + CodesOf(k, Pending(kbq, "kb")')) % 2 = 1
    BY DEF ModifiersInStep
  <2>1. slip = {}
    BY SlipGrows
  <2> QED
    BY <1>1, <2>1 DEF ModifiersInStep
<1>2. ASSUME NEW k \in Keys, NEW make \in BOOLEAN, Strike(k, make) PROVE ModifiersInStep'
  BY <1>2, StrikeInStep
<1>3. CASE DoKb
  BY <1>3, DoKbInStep
<1>4. CASE Fill
  <2>1. UNCHANGED <<down, pressed>>
    BY <1>4 DEF Fill, kbvars
  <2> QED
    BY <1>1, <1>4, <2>1, FillPending
<1>5. CASE MouseRead
  <2>1. slip' = {} => Pending(kbq, "kb")' = Pending(kbq, "kb") /\ UNCHANGED <<down, pressed>>
    <3> SUFFICES ASSUME slip' = {} PROVE Pending(kbq, "kb")' = Pending(kbq, "kb") /\ UNCHANGED <<down, pressed>>
      OBVIOUS
    <3>1. full /\ data = ACK /\ full' = FALSE /\ UNCHANGED <<down, kbq, data, pressed>>
      BY <1>5, InbTakes DEF MouseRead, kbvars
    <3> QED
      BY <3>1, ByteKinds DEF Pending
  <2> QED
    BY <1>1, <2>1
<1>6. CASE DoMouseRead
  <2>1. slip' = {} => Pending(kbq, "kb")' = Pending(kbq, "kb") /\ UNCHANGED <<down, pressed>>
    <3> SUFFICES ASSUME slip' = {} PROVE Pending(kbq, "kb")' = Pending(kbq, "kb") /\ UNCHANGED <<down, pressed>>
      OBVIOUS
    <3>1. full /\ data.from = "mouse" /\ full' = FALSE /\ UNCHANGED <<down, kbq, data, pressed>>
      BY <1>6, InbTakes DEF DoMouseRead, kbvars
    <3> QED
      BY <3>1 DEF Pending
  <2> QED
    BY <1>1, <2>1
<1>7. CASE Move \/ MouseWrite \/ Sti \/ (\E i \in {"kb", "mouse"} : Deliver(i)) \/ DoMouseEmpty \/ DoMouseTest \/ UNCHANGED vars
  <2>1. UNCHANGED <<full, data, kbq, down, pressed>>
    BY <1>7 DEF Move, MouseWrite, Sti, Deliver, DoMouseEmpty, DoMouseTest, vars, hardware, kbvars
  <2>2. Pending(kbq, "kb")' = Pending(kbq, "kb")
    BY <2>1 DEF Pending
  <2> QED
    BY <1>1, <2>1, <2>2
<1> QED
  BY <1>2, <1>3, <1>4, <1>5, <1>6, <1>7 DEF Next, Devices, Install, Handlers, DoMouse

----------------------------------------------------------------------------
(* The packets of the mouse *)

\* What may come after the byte a of the mouse.
Follows(a, b) == IF a \in {ACK, Part(3)} THEN b \in {ACK, Part(1)}
                                         ELSE \E n \in 1..2 : a = Part(n) /\ b = Part(n + 1)

\* The bytes q finish a packet of which n bytes are read, and begin none that
\* they do not finish.
Train(q, n) ==
  /\ q = <<>> => n = 0
  /\ q # <<>> => /\ q[1] = Part(n + 1) \/ (q[1] = ACK /\ n = 0)
                 /\ q[Len(q)] \in {ACK, Part(3)}
  /\ \A i \in 1..(Len(q) - 1) : Follows(q[i], q[i + 1])

\* PacketsInStep, inductively: the bytes on their way are a train.
PacketInv ==
  "byte" \notin slip =>
    /\ Train(Pending(mq, "mouse"), mousecount)
    /\ \A i \in 1..mousecount : mouse_byte[i] = Part(i)
    /\ mousemoves => \A i \in 1..3 : mouse_byte[i] = Part(i)

LEMMA PartsDiffer ==
  /\ \A i, j \in 1..3 : Part(i) = Part(j) => i = j
  /\ \A i \in 1..3 : Part(i) # ACK
BY DEF Part, ACK

\* The first byte of a train, taken away.
LEMMA TrainTaken ==
  ASSUME NEW q \in Seq(MouseBytes), NEW b \in MouseBytes, NEW n \in 0..2, Train(<<b>> \o q, n)
  PROVE  /\ b = ACK => n = 0 /\ Train(q, 0)
         /\ b # ACK => b = Part(n + 1) /\ Train(q, IF n = 2 THEN 0 ELSE n + 1)
<1> DEFINE a == <<b>> \o q
           m == Len(q)
<1>1. /\ m \in Nat /\ Len(a) = m + 1 /\ a[1] = b /\ \A i \in 1..m : a[i + 1] = q[i]
      /\ a # <<>> /\ (q = <<>> <=> m = 0)
  <2>1. Len(<<b>>) = 1 /\ <<b>> \in Seq(MouseBytes)
    OBVIOUS
  <2> QED
    BY <2>1
<1>2. /\ a[1] = Part(n + 1) \/ (a[1] = ACK /\ n = 0)
      /\ a[Len(a)] \in {ACK, Part(3)}
      /\ \A i \in 1..(Len(a) - 1) : Follows(a[i], a[i + 1])
  BY <1>1 DEF Train
<1> HIDE DEF a, m
<1>3. \A i \in 1..(m - 1) : Follows(q[i], q[i + 1])
  <2> SUFFICES ASSUME NEW i \in 1..(m - 1) PROVE Follows(q[i], q[i + 1])
    OBVIOUS
  <2>1. i + 1 \in 1..(Len(a) - 1) /\ i \in 1..m /\ i + 1 \in 1..m
    BY <1>1
  <2>2. Follows(a[i + 1], a[(i + 1) + 1]) /\ a[i + 1] = q[i] /\ a[(i + 1) + 1] = q[i + 1]
    BY <1>1, <1>2, <2>1
  <2> QED
    BY <2>2
<1>4. m # 0 => Follows(b, q[1]) /\ q[m] \in {ACK, Part(3)}
  <2> HAVE m # 0
  <2>1. 1 \in 1..(Len(a) - 1) /\ 1 \in 1..m /\ m \in 1..m /\ Len(a) = m + 1 /\ 1 + 1 = 2
    BY <1>1
  <2>2. a[1] = b /\ a[1 + 1] = q[1] /\ a[m + 1] = q[m]
    BY <1>1, <2>1
  <2> QED
    BY <1>2, <2>1, <2>2
<1>5. m = 0 => b \in {ACK, Part(3)}
  BY <1>1, <1>2
<1>6. CASE b = ACK
  <2>1. n = 0
    BY <1>1, <1>2, <1>6, PartsDiffer
  <2>2. m # 0 => q[1] \in {ACK, Part(0 + 1)}
    BY <1>4, <1>6 DEF Follows
  <2> QED
    BY <1>1, <1>3, <1>4, <1>6, <2>1, <2>2 DEF Train, m
<1>7. CASE b # ACK
  <2>1. b = Part(n + 1) /\ n + 1 \in 1..3
    BY <1>1, <1>2, <1>7
  <2>2. CASE n = 2
    <3>1. m # 0 => q[1] \in {ACK, Part(0 + 1)}
      BY <1>4, <2>1, <2>2 DEF Follows
    <3> QED
      BY <1>1, <1>3, <1>4, <1>7, <2>1, <2>2, <3>1 DEF Train, m
  <2>3. CASE n # 2
    <3>1. n + 1 \in 1..2 /\ b # Part(3) /\ (n + 1) + 1 \in 1..3
      BY <2>1, <2>3, PartsDiffer
    <3>2. m # 0
      BY <1>5, <1>7, <3>1
    <3>3. q[1] = Part((n + 1) + 1)
      <4>1. PICK k \in 1..2 : b = Part(k) /\ q[1] = Part(k + 1)
        BY <1>4, <1>7, <3>1, <3>2 DEF Follows
      <4>2. k = n + 1
        BY <2>1, <3>1, <4>1, PartsDiffer
      <4> QED
        BY <4>1, <4>2
    <3> QED
      BY <1>1, <1>3, <1>4, <1>7, <2>1, <2>3, <3>2, <3>3 DEF Train, m
  <2> QED
    BY <2>2, <2>3
<1> QED
  BY <1>6, <1>7

\* One byte more.
LEMMA TrainAppended ==
  ASSUME NEW q \in Seq(MouseBytes), NEW b \in MouseBytes, NEW n \in 0..2,
         \A i \in 1..(Len(q) - 1) : Follows(q[i], q[i + 1]),
         q # <<>> => Follows(q[Len(q)], b)
  PROVE  \A i \in 1..(Len(Append(q, b)) - 1) : Follows(Append(q, b)[i], Append(q, b)[i + 1])
<1> DEFINE a == Append(q, b)
           m == Len(q)
<1>1. /\ m \in Nat /\ Len(a) = m + 1 /\ a[m + 1] = b /\ \A i \in 1..m : a[i] = q[i]
      /\ (q = <<>> <=> m = 0)
  OBVIOUS
<1> SUFFICES ASSUME NEW i \in 1..(Len(a) - 1) PROVE Follows(a[i], a[i + 1])
  OBVIOUS
<1> HIDE DEF a
<1>2. CASE i = m
  <2>1. q # <<>> /\ a[i] = q[Len(q)] /\ a[i + 1] = b
    BY <1>1, <1>2
  <2> QED
    BY <2>1
<1>3. CASE i # m
  <2>1. i \in 1..(Len(q) - 1) /\ i \in 1..m /\ i + 1 \in 1..m
    BY <1>1, <1>3
  <2>2. a[i] = q[i] /\ a[i + 1] = q[i + 1]
    BY <1>1, <2>1
  <2> QED
    BY <2>1, <2>2
<1> QED
  BY <1>2, <1>3

\* What Append does to a sequence.
LEMMA Appended ==
  ASSUME NEW S, NEW q \in Seq(S), NEW b \in S
  PROVE  LET a == Append(q, b) IN
         /\ a \in Seq(S) /\ Len(a) = Len(q) + 1 /\ a[Len(q) + 1] = b /\ a # <<>>
         /\ \A i \in 1..Len(q) : a[i] = q[i]
<1> DEFINE a == Append(q, b)
<1>1. Len(a) = Len(q) + 1 /\ a[Len(q) + 1] = b /\ \A i \in 1..Len(q) : a[i] = q[i]
  OBVIOUS
<1>2. a \in Seq(S) /\ Len(a) = Len(q) + 1
  OBVIOUS
<1>3. a # <<>>
  BY <1>2
<1> QED
  BY <1>1, <1>2, <1>3

\* An acknowledgement, or a packet, more.
LEMMA TrainGrows ==
  ASSUME NEW q \in Seq(MouseBytes), NEW n \in 0..2, Train(q, n)
  PROVE  /\ Train(Append(q, ACK), n)
         /\ Train(Append(Append(Append(q, Part(1)), Part(2)), Part(3)), n)
<1> DEFINE q1 == Append(q, Part(1))
           q2 == Append(q1, Part(2))
           q3 == Append(q2, Part(3))
           qa == Append(q, ACK)
           m == Len(q)
<1>0. m \in Nat /\ (q = <<>> <=> m = 0)
  OBVIOUS
<1>a. Part(1) \in MouseBytes /\ Part(2) \in MouseBytes /\ Part(3) \in MouseBytes /\ ACK \in MouseBytes
  BY ByteKinds
<1>1. /\ q1 \in Seq(MouseBytes) /\ Len(q1) = m + 1 /\ q1[m + 1] = Part(1) /\ q1 # <<>>
      /\ m # 0 => q1[1] = q[1]
  BY <1>0, <1>a, Appended
<1>2. /\ qa \in Seq(MouseBytes) /\ Len(qa) = m + 1 /\ qa[m + 1] = ACK /\ qa # <<>>
      /\ m # 0 => qa[1] = q[1]
  BY <1>0, <1>a, Appended
<1>3. \A i \in 1..(m - 1) : Follows(q[i], q[i + 1])
  BY DEF Train
<1>4. q # <<>> => Follows(q[m], Part(1)) /\ Follows(q[m], ACK)
  BY DEF Train, Follows
<1>5. Follows(Part(1), Part(2)) /\ Follows(Part(2), Part(3))
  <2>1. Part(1) \notin {ACK, Part(3)} /\ Part(2) \notin {ACK, Part(3)}
    BY PartsDiffer
  <2> QED
    BY <2>1 DEF Follows
<1>6. \A i \in 1..(Len(qa) - 1) : Follows(qa[i], qa[i + 1])
  BY <1>3, <1>4, <1>a, TrainAppended
<1>7. \A i \in 1..(Len(q1) - 1) : Follows(q1[i], q1[i + 1])
  BY <1>3, <1>4, <1>a, TrainAppended
<1> HIDE DEF q1, qa
<1>8. /\ q2 \in Seq(MouseBytes) /\ Len(q2) = m + 2 /\ q2[m + 2] = Part(2) /\ q2 # <<>> /\ q2[1] = q1[1]
  BY <1>0, <1>a, <1>1, Appended
<1>9. \A i \in 1..(Len(q2) - 1) : Follows(q2[i], q2[i + 1])
  <2>1. Follows(q1[Len(q1)], Part(2))
    BY <1>1, <1>5
  <2> QED
    BY <1>1, <1>7, <2>1, <1>a, TrainAppended
<1> HIDE DEF q2
<1>10. /\ q3 \in Seq(MouseBytes) /\ Len(q3) = m + 3 /\ q3[m + 3] = Part(3) /\ q3 # <<>> /\ q3[1] = q1[1]
  BY <1>0, <1>a, <1>1, <1>8, Appended
<1>11. \A i \in 1..(Len(q3) - 1) : Follows(q3[i], q3[i + 1])
  <2>1. Follows(q2[Len(q2)], Part(3))
    BY <1>5, <1>8
  <2> QED
    BY <1>8, <1>9, <2>1, <1>a, TrainAppended
<1> HIDE DEF q3
<1>12. m = 0 => n = 0 /\ q1[1] = Part(0 + 1) /\ qa[1] = ACK
  BY <1>0, <1>1, <1>2 DEF Train
<1>13. m # 0 => q[1] = Part(n + 1) \/ (q[1] = ACK /\ n = 0)
  BY <1>0 DEF Train
<1>14. Train(qa, n)
  BY <1>0, <1>2, <1>6, <1>12, <1>13 DEF Train
<1>15. Train(q3, n)
  BY <1>0, <1>1, <1>10, <1>11, <1>12, <1>13 DEF Train
<1> QED
  BY <1>14, <1>15 DEF qa, q1, q2, q3

\* What the property says of the bytes on their way.
LEMMA TrainFirst ==
  ASSUME NEW q \in Seq(MouseBytes), NEW n \in 0..2, Train(q, n), NEW i \in DOMAIN q, q[i] # ACK,
         \A j \in 1..(i - 1) : q[j] = ACK
  PROVE  q[i] = Part(n + 1)
<1>1. Len(q) \in Nat /\ DOMAIN q = 1..Len(q) /\ q # <<>> /\ i \in 1..Len(q) /\ 1 \in 1..Len(q)
  OBVIOUS
<1>2. q[1] = Part(n + 1) \/ (q[1] = ACK /\ n = 0)
  BY <1>1 DEF Train
<1>3. CASE i = 1
  BY <1>2, <1>3
<1>4. CASE i # 1
  <2>1. i - 1 \in 1..(Len(q) - 1) /\ (i - 1) + 1 = i /\ 1 \in 1..(i - 1) /\ i - 1 \in 1..(i - 1)
    BY <1>1, <1>4
  <2>2. q[i - 1] = ACK /\ q[1] = ACK
    BY <2>1
  <2>3. Follows(q[i - 1], q[(i - 1) + 1])
    BY <2>1 DEF Train
  <2>4. q[i] \in {ACK, Part(1)}
    BY <2>1, <2>2, <2>3 DEF Follows
  <2>5. n = 0
    BY <1>2, <2>2, PartsDiffer
  <2> QED
    BY <2>4, <2>5
<1> QED
  BY <1>3, <1>4

----------------------------------------------------------------------------
\* Nothing PacketInv speaks of changes, unless a report is taken back.
LEMMA MouseQuiet ==
  ASSUME PacketInv, [Next]_vars,
         "byte" \notin slip' => /\ Pending(mq, "mouse")' = Pending(mq, "mouse")
                                /\ UNCHANGED <<mousecount, mouse_byte>>
                                /\ mousemoves' => mousemoves
  PROVE  PacketInv'
<1> SUFFICES ASSUME "byte" \notin slip'
             PROVE  /\ Train(Pending(mq, "mouse")', mousecount')
                    /\ \A i \in 1..mousecount' : mouse_byte'[i] = Part(i)
                    /\ mousemoves' => \A i \in 1..3 : mouse_byte'[i] = Part(i)
  BY DEF PacketInv, Train, Pending
<1>1. "byte" \notin slip
  BY SlipGrows
<1> QED
  BY <1>1 DEF PacketInv

LEMMA PendingGrows ==
  ASSUME InputInv, QueuesTyped, UNCHANGED <<full, data>>
  PROVE  /\ \A b \in MouseBytes : mq' = Append(mq, b) => Pending(mq, "mouse")' = Append(Pending(mq, "mouse"), b)
         /\ mq' = mq \o <<Part(1), Part(2), Part(3)>> =>
              Pending(mq, "mouse")' = Append(Append(Append(Pending(mq, "mouse"), Part(1)), Part(2)), Part(3))
<1> DEFINE h == IF full /\ data.from = "mouse" THEN <<data>> ELSE <<>>
<1>1. Pending(mq, "mouse") = h \o mq /\ Pending(mq, "mouse")' = h \o mq'
  BY DEF Pending
<1>2. mq \in Seq(MouseBytes) /\ h \in Seq(MouseBytes)
  <2>1. data \in Bytes /\ mq \in Seq(MouseBytes)
    BY DEF InputInv, TypeOK, QueuesTyped
  <2>2. data.from = "mouse" => <<data>> \in Seq(MouseBytes)
    BY <2>1, ByteKinds
  <2> QED
    BY <2>1, <2>2
<1> HIDE DEF h
<1>3. \A b \in MouseBytes : h \o Append(mq, b) = Append(h \o mq, b)
  BY <1>2
<1>4. mq \o <<Part(1), Part(2), Part(3)>> = Append(Append(Append(mq, Part(1)), Part(2)), Part(3))
  BY <1>2, ByteKinds
<1>5. h \o Append(Append(Append(mq, Part(1)), Part(2)), Part(3)) = Append(Append(Append(h \o mq, Part(1)), Part(2)), Part(3))
  <2>1. /\ Append(mq, Part(1)) \in Seq(MouseBytes) /\ Append(Append(mq, Part(1)), Part(2)) \in Seq(MouseBytes)
    BY <1>2, ByteKinds
  <2>2. /\ \A q \in Seq(MouseBytes), b \in MouseBytes : h \o Append(q, b) = Append(h \o q, b)
    BY <1>2
  <2> QED
    BY <1>2, <2>1, <2>2, ByteKinds
<1> QED
  BY <1>1, <1>3, <1>4, <1>5

LEMMA PacketInit == Init => PacketInv
<1> SUFFICES ASSUME Init PROVE PacketInv
  OBVIOUS
<1>1. full = FALSE /\ mq = <<>> /\ mousecount = 0 /\ mousemoves = FALSE
  BY DEF Init
<1>2. Pending(mq, "mouse") = <<>> /\ Len(<<>>) = 0
  BY <1>1 DEF Pending
<1> QED
  BY <1>1, <1>2 DEF PacketInv, Train

LEMMA GrowsWhole ==
  ASSUME InputInv, QueuesTyped, PacketInv, Move \/ MouseWrite
  PROVE  PacketInv'
<1> DEFINE P == Pending(mq, "mouse")
<1>1. UNCHANGED <<full, data, mousecount, mouse_byte, mousemoves, slip>>
  BY DEF Move, MouseWrite, mousevars
<1> SUFFICES ASSUME "byte" \notin slip PROVE Train(P', mousecount)
  BY <1>1 DEF PacketInv, Train, Pending
<1>2. P \in Seq(MouseBytes) /\ mousecount \in 0..2 /\ Train(P, mousecount)
  BY PendingTyped DEF PacketInv, InputInv, TypeOK
<1>3. \/ P' = Append(P, ACK)
      \/ P' = Append(Append(Append(P, Part(1)), Part(2)), Part(3))
  BY <1>1, PendingGrows, ByteKinds DEF Move, MouseWrite
<1> HIDE DEF P
<1> QED
  BY <1>2, <1>3, TrainGrows

LEMMA ReadWhole ==
  ASSUME InputInv, QueuesTyped, PacketInv, MouseRead \/ DoMouseRead, "byte" \notin slip'
  PROVE  PacketInv'
<1> DEFINE n == mousecount
<1>1. "byte" \notin slip /\ mousecount \in 0..2 /\ mq \in Seq(MouseBytes) /\ <<>> \o mq = mq
      /\ mouse_byte \in [1..3 -> Bytes]
  <2>1. "byte" \notin slip
    BY DEF MouseRead, DoMouseRead, Inb
  <2>2. mousecount \in 0..2 /\ mq \in Seq(MouseBytes) /\ mouse_byte \in [1..3 -> Bytes]
    BY DEF InputInv, TypeOK, QueuesTyped
  <2> QED
    BY <2>1, <2>2
<1>2. full /\ full' = FALSE /\ UNCHANGED <<mq, data>> /\ data.from = "mouse" /\ data \in MouseBytes
      /\ (MouseRead => data = ACK) /\ (DoMouseRead => data # ACK)
  <2>1. full /\ full' = FALSE /\ UNCHANGED <<mq, data>> /\ (MouseRead => data = ACK)
        /\ (DoMouseRead => data.from = "mouse" /\ data # ACK)
    BY InbTakes DEF MouseRead, DoMouseRead
  <2>2. data.from = "mouse"
    BY <2>1, ByteKinds
  <2> QED
    BY <2>1, <2>2, ByteKinds DEF InputInv, TypeOK
<1>3. Pending(mq, "mouse") = <<data>> \o mq /\ Pending(mq, "mouse")' = mq
  BY <1>1, <1>2 DEF Pending
<1>4. Train(<<data>> \o mq, n) /\ \A i \in 1..n : mouse_byte[i] = Part(i)
  BY <1>1, <1>3 DEF PacketInv
<1>5. CASE MouseRead
  <2>1. UNCHANGED <<mousecount, mouse_byte, mousemoves>>
    BY <1>5 DEF MouseRead, mousevars
  <2>2. n = 0 /\ Train(mq, 0)
    BY <1>1, <1>2, <1>4, <1>5, TrainTaken
  <2> QED
    BY <1>1, <1>3, <2>1, <2>2 DEF PacketInv, Train, Pending
<1>6. CASE DoMouseRead
  <2>1. data = Part(n + 1) /\ Train(mq, IF n = 2 THEN 0 ELSE n + 1)
    BY <1>1, <1>2, <1>4, <1>6, TrainTaken
  <2>2. /\ mouse_byte' = [mouse_byte EXCEPT ![n + 1] = data]
        /\ (mousemoves' => n = 2) /\ mousecount' = IF n = 2 THEN 0 ELSE n + 1
    <3>1. PacketFull(n + 1) <=> n = 2
      BY <1>1 DEF PacketFull
    <3>2. /\ mouse_byte' = [mouse_byte EXCEPT ![n + 1] = data]
          /\ mousemoves' = PacketFull(n + 1)
          /\ mousecount' = IF PacketFull(n + 1) THEN 0 ELSE n + 1
      BY <1>6 DEF DoMouseRead
    <3> QED
      BY <3>1, <3>2
  <2>3. \A i \in 1..(n + 1) : mouse_byte'[i] = Part(i)
    BY <1>1, <1>4, <2>1, <2>2
  <2>4. Train(Pending(mq, "mouse")', mousecount')
    BY <1>3, <2>1, <2>2
  <2> HIDE DEF n
  <2>5. n = mousecount
    BY DEF n
  <2>6. /\ \A i \in 1..mousecount' : mouse_byte'[i] = Part(i)
        /\ mousemoves' => \A i \in 1..3 : mouse_byte'[i] = Part(i)
    <3>1. mousecount' = IF n = 2 THEN 0 ELSE n + 1
      BY <2>2
    <3>2. \A i \in 1..mousecount' : i \in 1..(n + 1)
      BY <1>1, <2>5, <3>1
    <3>3. mousemoves' => \A i \in 1..3 : i \in 1..(n + 1)
      BY <1>1, <2>2, <2>5
    <3> QED
      BY <2>3, <3>2, <3>3
  <2> QED
    BY <2>4, <2>6 DEF PacketInv, Train, Pending
<1> QED
  BY <1>5, <1>6

LEMMA PacketNext == InputInv /\ QueuesTyped /\ PacketInv /\ [Next]_vars => PacketInv'
<1> SUFFICES ASSUME InputInv, QueuesTyped, PacketInv, [Next]_vars PROVE PacketInv'
  OBVIOUS
<1>1. CASE Move \/ MouseWrite
  BY <1>1, GrowsWhole
<1>2. CASE MouseRead \/ DoMouseRead
  <2>1. CASE "byte" \notin slip'
    BY <1>2, <2>1, ReadWhole
  <2> QED
    BY <2>1 DEF PacketInv
<1>3. CASE Fill
  <2>1. UNCHANGED <<mousecount, mouse_byte, mousemoves>>
    BY <1>3 DEF Fill, mousevars
  <2> QED
    BY <1>3, <2>1, FillPending, MouseQuiet
<1>4. CASE DoKb
  <2>1. UNCHANGED <<mousecount, mouse_byte, mousemoves, mq>>
    BY <1>4 DEF DoKb, Inb, mousevars
  <2>2. "byte" \notin slip' => full /\ data.from = "kb" /\ full' = FALSE
    BY <1>4, InbTakes DEF DoKb
  <2>3. "byte" \notin slip' => Pending(mq, "mouse")' = Pending(mq, "mouse")
    BY <2>1, <2>2 DEF Pending
  <2> QED
    BY <2>1, <2>3, MouseQuiet
<1>5. CASE Sti \/ (\E i \in {"kb", "mouse"} : Deliver(i)) \/ DoMouseEmpty \/ DoMouseTest \/ UNCHANGED vars
           \/ \E k \in Keys, make \in BOOLEAN : Strike(k, make)
  <2>1. UNCHANGED <<mousecount, mouse_byte, mq, full, data>> /\ (mousemoves' => mousemoves)
    <3>1. CASE DoMouseEmpty
      BY <3>1 DEF DoMouseEmpty
    <3>2. CASE Sti \/ DoMouseTest \/ UNCHANGED vars
      <4>1. UNCHANGED <<mousecount, mouse_byte, mousemoves, mq, full, data>>
        BY <3>2 DEF Sti, DoMouseTest, vars, mousevars, hardware
      <4> QED
        BY <4>1
    <3>3. CASE \E i \in {"kb", "mouse"} : Deliver(i)
      BY <3>3 DEF Deliver, mousevars
    <3>4. CASE \E k \in Keys, make \in BOOLEAN : Strike(k, make)
      BY <3>4 DEF Strike, mousevars
    <3> QED
      BY <1>5, <3>1, <3>2, <3>3, <3>4
  <2>2. Pending(mq, "mouse")' = Pending(mq, "mouse")
    BY <2>1 DEF Pending
  <2> QED
    BY <2>1, <2>2, MouseQuiet
<1> QED
  BY <1>1, <1>2, <1>3, <1>4, <1>5 DEF Next, Devices, Install, Handlers, DoMouse

LEMMA InStepInit == Init => ModifiersInStep
<1> SUFFICES ASSUME Init, NEW k \in Modifier
             PROVE  (k \in down) <=> (pressed[k] + CodesOf(k, Pending(kbq, "kb"))) % 2 = 1
  BY DEF ModifiersInStep
<1>1. full = FALSE /\ kbq = <<>> /\ down = {} /\ pressed[k] = 0
  BY DEF Init
<1>2. Pending(kbq, "kb") = <<>> /\ DOMAIN <<>> = {}
  BY <1>1 DEF Pending
<1>3. Places(k, Pending(kbq, "kb")) = {}
  BY <1>2 DEF Places
<1>4. CodesOf(k, Pending(kbq, "kb")) = 0
  BY <1>3, CodesPlaced, FS_EmptySet
<1> QED
  BY <1>1, <1>4

LEMMA PacketsWhole == InputInv /\ QueuesTyped /\ PacketInv => PacketsInStep
<1> SUFFICES ASSUME InputInv, QueuesTyped, PacketInv, "byte" \notin slip,
                    NEW i \in DOMAIN Pending(mq, "mouse"),
                    Pending(mq, "mouse")[i] # ACK, \A j \in 1..(i - 1) : Pending(mq, "mouse")[j] = ACK
             PROVE  Pending(mq, "mouse")[i] = Part(mousecount + 1)
  BY DEF PacketInv, PacketsInStep
<1>1. Pending(mq, "mouse") \in Seq(MouseBytes) /\ mousecount \in 0..2 /\ Train(Pending(mq, "mouse"), mousecount)
  BY PendingTyped DEF PacketInv, InputInv, TypeOK
<1> QED
  BY <1>1, TrainFirst

----------------------------------------------------------------------------
(* The theorems *)

\* Whatever the keys, the mouse and bytes that go astray make do_kb and
\* do_mouse print, on a screen of any size: the variables keep their types,
\* mousecount stays an index of a packet, and the cell print_c writes next is
\* one of the text memory.
THEOREM InputTyped == Spec => [](TypeOK /\ CHAR_OFF(csr_x, csr_y) \in Cells)
<1>1. InputInv => TypeOK /\ CHAR_OFF(csr_x, csr_y) \in Cells
  BY CursorCell DEF InputInv, TypeOK
<1> QED
  BY <1>1, InputInvInit, InputInvNext, PTL DEF Spec

\* The one array of cells with its cursor, scroll and the tab, newline and
\* backspace of print_c show what a sheet of rows would that only moves up,
\* whatever the handlers print: for a screen of any size and any width of a
\* tab that divides its columns.
THEOREM ConsoleIsTeletype == Spec => ImplementsTeletype
<1>1. Spec => []InputInv
  BY InputInvInit, InputInvNext, PTL DEF Spec
<1>2. Init => TT!Init
  BY StartsBlank
<1>3. InputInv /\ [Next]_vars => [TT!Next]_(TT!paper)
  BY TeletypeStep
<1> QED
  BY <1>1, <1>2, <1>3, PTL DEF Spec, ImplementsTeletype, TT!Spec

\* Any keys struck and released in any order, with bytes of keyboard and mouse
\* interleaved as they come: what the flip of do_kb at every code of a modifier
\* leaves is right once the bytes on their way have arrived, unless a byte went
\* to the wrong reader or a held modifier has sent its code again.
THEOREM KeysInStep == Spec => []ModifiersInStep
BY InputInvInit, InputInvNext, QueuesInit, QueuesStep, InStepInit, InStepNext, PTL DEF Spec

\* Interrupts that find no byte, the acknowledgements of mouse_install and any
\* number of packets: as long as no byte is read by one it is not meant for,
\* do_mouse takes each byte for the part of a packet it is, and what it reports
\* is one packet.
THEOREM PacketsStayWhole == Spec => []PacketsInStep
BY InputInvInit, InputInvNext, QueuesInit, QueuesStep, PacketInit, PacketNext, PacketsWhole, PTL DEF Spec
=============================================================================
