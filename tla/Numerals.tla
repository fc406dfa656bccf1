------------------------------ MODULE Numerals ------------------------------
(***************************************************************************)
(* Integers in text: number of vsprintf.c, itoa of screen.c and parse_num  *)
(* of kprintf.c print one, atoi of stdlib.c reads one.  A word has W bits. *)
(* A text is a sequence of characters: a digit is its value, other         *)
(* characters are below zero.                                              *)
(***************************************************************************)
EXTENDS Integers, Sequences

CONSTANT W   \* 32 in the code

Minus  == -1
Plus   == -2
Space  == -3
SmallX == -4
BigX   == -5

Flags == {"ZEROPAD", "SIGN", "PLUS", "SPACE", "LEFT", "SPECIAL", "SMALL"}

Signed == -(2^(W - 1))..(2^(W - 1) - 1)
Unsigned(x) == x % (2^W)
Wrap(x) == ((x + 2^(W - 1)) % (2^W)) - 2^(W - 1)

Repeat(c, k) == [x \in 1..k |-> c]
Larger(a, b) == IF a >= b THEN a ELSE b

\* The digits of an unsigned word, by unsigned division.
RECURSIVE Digits(_, _)
Digits(u, b) == IF u < b THEN <<u>> ELSE Digits(u \div b, b) \o <<u % b>>

SignOf(n, t) ==
  CASE "SIGN" \in t /\ n < 0 -> <<Minus>>
    [] "PLUS" \in t          -> <<Plus>>
    [] "SPACE" \in t         -> <<Space>>
    [] OTHER                 -> <<>>

Prefix(b, t) ==
  CASE "SPECIAL" \in t /\ b = 8  -> <<0>>
    [] "SPECIAL" \in t /\ b = 16 -> <<0, IF "SMALL" \in t THEN SmallX ELSE BigX>>
    [] OTHER                     -> <<>>

\* Mutant: the place of the sign is not taken off the field.
Room_mutant(w, sign, prefix, prec) == w - Len(prefix) - prec

\* size after the sign, the prefix and the digits.
Room(w, sign, prefix, prec) == w - Len(sign) - Len(prefix) - prec

number(n, b, w, prec, t) ==
  LET sign   == SignOf(n, t)
      prefix == Prefix(b, t)
      tmp    == Digits(Unsigned(IF sign = <<Minus>> THEN -n ELSE n), b)
      len    == Larger(prec, Len(tmp))
      pad    == Larger(0, Room(w, sign, prefix, len))
      left   == "LEFT" \in t
      zero   == "ZEROPAD" \in t /\ ~left
  IN Repeat(Space, IF left \/ zero THEN 0 ELSE pad) \o sign \o prefix
       \o Repeat(0, IF zero THEN pad ELSE 0) \o Repeat(0, len - Len(tmp)) \o tmp
       \o Repeat(Space, IF left THEN pad ELSE 0)

\* itoa (buf, 'd', n) and parse_num(n, 10).
itoa(n) == IF n < 0 THEN <<Minus>> \o Digits(Unsigned(-n), 10) ELSE Digits(n, 10)
parse_num(n) == Digits(Unsigned(n), 10)

RECURSIVE Accumulate(_, _)
Accumulate(s, result) ==
  IF s = <<>> \/ Head(s) < 0 THEN result
  ELSE Accumulate(Tail(s), Wrap(result * 10 + Head(s)))

atoi(s) == IF s[1] = Minus THEN Wrap(-Accumulate(Tail(s), 0)) ELSE Accumulate(s, 0)
=============================================================================
