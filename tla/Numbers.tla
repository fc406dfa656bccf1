------------------------------ MODULE Numbers ------------------------------
(***************************************************************************)
(* One call of number, with arguments of every kind.                       *)
(***************************************************************************)
EXTENDS Numerals

CONSTANTS Radices,     \* the bases that are tried: 8, 10, 16
          Widths,      \* field widths; -1 if there is none
          Precisions   \* the same

VARIABLES num, radix, width, precision, type,   \* the arguments of number
          str                                   \* what it printed
numvars == <<num, radix, width, precision, type, str>>

NumInit ==
  /\ num \in Signed /\ radix \in Radices
  /\ width \in Widths /\ precision \in Precisions
  /\ type \in SUBSET Flags /\ ("SMALL" \in type => radix = 16)
  /\ str = <<>>

PrintNumber ==
  /\ str = <<>>
  /\ str' = number(num, radix, width, precision, type)
  /\ UNCHANGED <<num, radix, width, precision, type>>

----------------------------------------------------------------------------
(* Properties *)

\* The digits of a text, and the number they make.
RECURSIVE ValueOf(_, _)
ValueOf(s, b) == IF s = <<>> THEN 0 ELSE ValueOf(SubSeq(s, 1, Len(s) - 1), b) * b + s[Len(s)]

\* What number prints is the number, for INT_MIN too, in as much of the field
\* as it needs: no wider than that or than the field.  atoi reads back what
\* %d and itoa print; kprintf prints the same word as an unsigned one.
PrintsNumber ==
  str # <<>> =>
    LET digits == SelectSeq(str, LAMBDA c : c >= 0)
        signs  == {str[x] : x \in DOMAIN str} \cap {Minus, Plus}
        need   == Len(SignOf(num, type)) + Len(Prefix(radix, type))
                    + Larger(precision, Len(Digits(Unsigned(ValueOf(digits, radix)), radix)))
    IN /\ (IF signs = {Minus} THEN -ValueOf(digits, radix) ELSE ValueOf(digits, radix))
            = (IF "SIGN" \in type THEN num ELSE Unsigned(num))
       /\ Len(str) = Larger(width, need)
       /\ atoi(itoa(num)) = num
       /\ itoa(num) = number(num, 10, -1, -1, {"SIGN"})
       /\ parse_num(num) = number(num, 10, -1, -1, {})
=============================================================================
