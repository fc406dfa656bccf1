------------------------------ MODULE Formats ------------------------------
(***************************************************************************)
(* vsprintf prints values under a format (lib/vsprintf.c) and vsscanf      *)
(* scans the text under the corresponding one (lib/sscanf.c).  A format is *)
(* a sequence of directives, a value a sequence: <<n>> for an integer or a *)
(* character, the letters for a string.  A * for a width or a precision is *)
(* left out.                                                               *)
(***************************************************************************)
EXTENDS Numerals, FiniteSets

CONSTANTS Directives,    \* what formats are made of, see Directive
          Ints, Words,   \* values to print
          MaxFmt         \* bound: directives in a format

NUL     == -6
Percent == -7
Letter  == -8    \* any character that is no digit in any base and no x

\* One directive: a character, or a conversion as vsprintf and as vsscanf read it.
Directive(p, s) ==
  [print |-> p, scan |-> s,       \* the conversion characters
   char |-> Letter,               \* the character itself, if print = "text"
   flags |-> {}, width |-> -1, precision |-> -1,
   skip |-> FALSE,                \* vsscanf: * after %
   most |-> -1,                   \* vsscanf: field width
   short |-> FALSE]               \* h

VARIABLES fmt, passed,   \* the format, and what was passed to each directive
          out, ends,     \* the text, and how long it was after each directive
          phase,         \* "print", "scan" or "done"
          at, pos,       \* vsscanf: place in the format and in the text (str)
          got, count     \* vsscanf: what was stored, and its result num
fvars == <<fmt, passed, out, ends, phase, at, pos, got, count>>

----------------------------------------------------------------------------
(* vsprintf *)

Radix(p) == CASE p = "o" -> 8 [] p \in {"x", "X", "p"} -> 16 [] OTHER -> 10
Numeric(p) == p \in {"d", "i", "u", "o", "x", "X", "p"}
Takes(d) == Numeric(d.print) \/ d.print \in {"c", "s"}
Values(d) == IF d.print = "s" THEN Words
             ELSE IF d.print = "c" THEN {<<Letter>>, <<Space>>}
             ELSE IF Numeric(d.print) THEN {<<x>> : x \in Ints} ELSE {<<>>}

Justified(s, w, left) ==
  LET pad == Repeat(Space, Larger(0, w - Len(s))) IN IF left THEN s \o pad ELSE pad \o s

FlagsOf(d) == d.flags \cup CASE d.print \in {"d", "i"} -> {"SIGN"}
                             [] d.print = "x" -> {"SMALL"}
                             [] d.print = "p" /\ d.width = -1 -> {"ZEROPAD"}
                             [] OTHER -> {}
WidthOf(d) == IF d.print = "p" /\ d.width = -1 THEN 8 ELSE d.width

\* The text of a conversion of v.
Converted(d, v) ==
  IF Numeric(d.print)
  THEN number(v[1], Radix(d.print), WidthOf(d), d.precision, FlagsOf(d))
  ELSE Justified(IF d.precision \in 0..Len(v) /\ d.print = "s" THEN SubSeq(v, 1, d.precision) ELSE v,
                 d.width, "LEFT" \in d.flags)

Printed(d, v) ==
  CASE d.print = "text"  -> <<d.char>>
    [] d.print = "%"     -> <<Percent>>
    [] Takes(d)          -> Converted(d, v)
    [] OTHER             -> <<>>

PrintNext(d, v) ==
  /\ phase = "print" /\ Len(fmt) < MaxFmt
  /\ fmt' = Append(fmt, d)
  /\ passed' = Append(passed, IF d.print = "n" THEN <<Len(out)>> ELSE v)
  /\ out' = out \o Printed(d, v)
  /\ ends' = Append(ends, Len(out'))
  /\ UNCHANGED <<phase, at, pos, got, count>>

EndOfFormat ==
  /\ phase = "print" /\ phase' = "scan"
  /\ UNCHANGED <<fmt, passed, out, ends, at, pos, got, count>>

----------------------------------------------------------------------------
(* vsscanf *)

Char(q) == IF q <= Len(out) THEN out[q] ELSE NUL
IsBlank(d) == d.print = "text" /\ d.char = Space

\* The first place from q on with a character of S.
First(q, S) ==
  CHOOSE r \in q..(Len(out) + 1) : Char(r) \in S /\ \A s \in q..(r - 1) : Char(s) \notin S

NonWhite(q) == First(q, Int \ {Space})
WordEnd(q)  == First(q, {Space, NUL})

\* isdigit(c) and value < base; isxdigit(c) if base is 16.
IsDigit(c, base) == c \in 0..(base - 1)

Base(s) == CASE s = "o" -> 8 [] s \in {"x", "X"} -> 16 [] s = "i" -> 0 [] OTHER -> 10

RECURSIVE Parsed(_, _)
Parsed(s, base) ==
  IF s = <<>> THEN 0 ELSE Unsigned(Parsed(SubSeq(s, 1, Len(s) - 1), base) * base + s[Len(s)])

simple_strtoul(q, base) ==
  LET octal == base = 0 /\ Char(q) = 0
      hex   == octal /\ Char(q + 1) = SmallX /\ IsDigit(Char(q + 2), 16)
      b     == CASE hex -> 16 [] octal -> 8 [] base = 0 -> 10 [] OTHER -> base
      start == CASE hex -> q + 2 [] octal -> q + 1 [] OTHER -> q
      next  == First(start, Int \ (0..(b - 1)))
  IN [value |-> Parsed(SubSeq(out, start, next - 1), b), next |-> next]

\* Mutant: the minus is read and forgotten.
simple_strtol_mutant(q, base) == simple_strtoul(IF Char(q) = Minus THEN q + 1 ELSE q, base)

simple_strtol(q, base) ==
  IF Char(q) # Minus THEN simple_strtoul(q, base)
  ELSE LET r == simple_strtoul(q + 1, base)
       IN [value |-> Unsigned(-r.value), next |-> r.next]

\* The iteration looks at fmt[a] and the text from q on, blanks being skipped.
Here == IF at <= Len(fmt) /\ IsBlank(fmt[at])
        THEN [a |-> CHOOSE b \in at..(Len(fmt) + 1) :
                      /\ b > Len(fmt) \/ ~IsBlank(fmt[b])
                      /\ \A c \in at..(b - 1) : IsBlank(fmt[c]),
              q |-> NonWhite(pos)]
        ELSE [a |-> at, q |-> pos]

Stop == phase' = "done" /\ UNCHANGED <<at, pos, got, count>>
GoOn(a, q) == at' = a /\ pos' = q /\ phase' = phase
Store(v, counts) == got' = Append(got, v) /\ count' = count + (IF counts THEN 1 ELSE 0)

\* A character must match exactly; so must %%.
Literal(a, q) ==
  IF Char(q) = (IF fmt[a].print = "%" THEN Percent ELSE fmt[a].char)
  THEN GoOn(a + 1, q + 1) /\ UNCHANGED <<got, count>>
  ELSE Stop

\* %*: both go to the next white space.
Suppress(a, q) ==
  /\ GoOn(CHOOSE b \in a..(Len(fmt) + 1) :
            /\ b > Len(fmt) \/ IsBlank(fmt[b])
            /\ \A c \in a..(b - 1) : ~IsBlank(fmt[c]),
          WordEnd(q))
  /\ UNCHANGED <<got, count>>

\* Where w characters from q on end: one is taken in any case.
CharsEnd(q, w) == IF q + w <= Len(out) + 1 THEN q + w ELSE Larger(q, Len(out)) + 1

Characters(a, q) ==
  LET r == CharsEnd(q, IF fmt[a].most = -1 THEN 1 ELSE fmt[a].most)
  IN Store([x \in 1..(r - q) |-> Char(q + x - 1)], TRUE) /\ GoOn(a + 1, r)

\* Without a width, a word has sizeof(int) characters.
ScanWord(a, q) ==
  LET s == NonWhite(q)
      w == IF fmt[a].most = -1 THEN 4 ELSE fmt[a].most
      r == IF WordEnd(s) <= s + w THEN WordEnd(s) ELSE s + w
  IN Store(SubSeq(out, s, r - 1), TRUE) /\ GoOn(a + 1, r)

\* Mutant: the text may have ended.
TextLeft_mutant(q) == TRUE
TextLeft(q) == Char(q) # NUL

StartsNumber(s, q) ==
  LET c == IF s \in {"d", "i"} /\ Char(q) = Minus THEN Char(q + 1) ELSE Char(q)
  IN IsDigit(c, IF Base(s) = 0 THEN 10 ELSE Base(s))

Integer(a, q) ==
  LET d == fmt[a]
      s == NonWhite(q)
      r == IF d.scan \in {"d", "i"} THEN simple_strtol(s, Base(d.scan)) ELSE simple_strtoul(s, Base(d.scan))
  IN IF StartsNumber(d.scan, s)
     THEN Store(<<IF d.short THEN r.value % 2^(W \div 2) ELSE r.value>>, TRUE) /\ GoOn(a + 1, r.next)
     ELSE Stop

Scan ==
  LET a == Here.a
      q == Here.q
  IN /\ phase = "scan" /\ at <= Len(fmt) /\ Char(pos) # NUL
     /\ UNCHANGED <<fmt, passed, out, ends>>
     /\ \/ a > Len(fmt) /\ Stop
        \/ /\ a <= Len(fmt) /\ fmt[a].print = "text"
           /\ Literal(a, q)
        \/ /\ a <= Len(fmt) /\ fmt[a].skip
           /\ Suppress(a, q)
        \/ /\ a <= Len(fmt) /\ fmt[a].print # "text" /\ ~fmt[a].skip
           /\ IF ~TextLeft(q) THEN Stop
              ELSE CASE fmt[a].scan = "%" -> Literal(a, q)
                     [] fmt[a].scan = "c" -> Characters(a, q)
                     [] fmt[a].scan = "s" -> ScanWord(a, q)
                     [] fmt[a].scan = "n" -> Store(<<q - 1>>, FALSE) /\ GoOn(a + 1, q)
                     [] OTHER             -> Integer(a, q)

\* while (*fmt && *str)
Finish ==
  /\ phase = "scan" /\ (at > Len(fmt) \/ Char(pos) = NUL)
  /\ Stop
  /\ UNCHANGED <<fmt, passed, out, ends>>

FmtInit ==
  /\ fmt = <<>> /\ passed = <<>> /\ out = <<>> /\ ends = <<>>
  /\ phase = "print" /\ at = 1 /\ pos = 1 /\ got = <<>> /\ count = 0

FmtNext ==
  \/ \E d \in Directives : \E v \in Values(d) : PrintNext(d, v)
  \/ EndOfFormat
  \/ Scan
  \/ Finish

FmtSpec == FmtInit /\ [][FmtNext]_fvars
----------------------------------------------------------------------------
(* Properties *)

\* What follows directive k in the text does not become part of it, and the
\* two formats agree on its sign, base and padding.
Readable(k) ==
  LET d == fmt[k]
      next == Char(ends[k] + 1)
      apart == k = Len(fmt) \/ IsBlank(fmt[k + 1])
  IN CASE d.print \in {"text", "%"} -> TRUE
       [] d.skip -> d.width = -1 /\ apart
       [] d.print = "n" -> next \notin {Space, NUL}
       [] d.print = "c" -> passed[k] # <<Space>> /\ d.width = -1 /\ d.most = -1
       [] d.print = "s" -> /\ "LEFT" \in d.flags => apart
                           /\ d.precision = -1 /\ next \in {Space, NUL}
                           /\ Len(passed[k]) <= (IF d.most = -1 THEN 4 ELSE d.most)
       [] OTHER -> /\ "LEFT" \in d.flags => apart
                   /\ next \notin 0..15
                   /\ "PLUS" \notin d.flags
                   /\ d.print \in {"d", "i"} => d.scan \in {"d", "i"}
                   /\ IF d.scan # "i" THEN Base(d.scan) = Radix(d.print) /\ "SPECIAL" \notin d.flags
                      ELSE IF Radix(d.print) = 10 THEN d.width = -1 /\ d.precision = -1
                      ELSE "SPECIAL" \in d.flags /\ d.print \in {"o", "x"}

\* What directive k should store: for an integer, the word.
Stored(k) ==
  IF ~Numeric(fmt[k].print) THEN passed[k]
  ELSE <<passed[k][1] % 2^(IF fmt[k].short THEN W \div 2 ELSE W)>>

\* sscanf reads back what sprintf printed: every conversion of a readable
\* format is stored as it was passed, negative numbers, prefixes, padding and
\* the offset of %n included, and the result of sscanf counts them.
ReadsBack ==
  phase = "done" /\ (\A k \in DOMAIN fmt : Readable(k)) =>
    LET stores == SelectSeq([k \in DOMAIN fmt |-> k],
                            LAMBDA k : fmt[k].print \notin {"text", "%"} /\ ~fmt[k].skip)
        counts == {k \in DOMAIN fmt : fmt[k].print \notin {"text", "%", "n"} /\ ~fmt[k].skip}
    IN got = [x \in DOMAIN stores |-> Stored(stores[x])] /\ count = Cardinality(counts)

\* sscanf looks at no character behind the end of the text, and stores a
\* result for every conversion it counts and no more than there are.
StaysInText ==
  /\ pos \in 1..(Len(out) + 1) /\ at \in 1..(Len(fmt) + 1)
  /\ count <= Len(got) /\ Len(got) <= at - 1
=============================================================================
