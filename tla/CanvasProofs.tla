---------------------------- MODULE CanvasProofs ----------------------------
(***************************************************************************)
(* The canvas shows every frame that was drawn, for a canvas and blocks of *)
(* any size, any objects and any looks.                                    *)
(***************************************************************************)
EXTENDS Canvas, WellFoundedInduction, FiniteSetTheorems, SequenceTheorems, TLAPS

USE CanvasAssumption

\* The objects of s that show at pixel p, and the color of the first of them.
Over(s, p) == {k \in DOMAIN s : PC!Covers(s[k].look, p)}
ColorAt(s, p) == IF Over(s, p) = {} THEN CLEAR ELSE s[Min(Over(s, p))].look.color

\* The nodes of block b that are drawn at its column c and row r.
OverBlock(b, c, r) == {k \in DOMAIN pipeline[b] : NodeCovers(pipeline[b][k], c, r)}

Entry == [object : Object, look : Look, dirty : BOOLEAN]

Typed == TypeOK /\ scene \in Seq(Entry) /\ last \in Seq(Entry)

\* A frame has an object at most once.
Distinct(s) == \A i, j \in DOMAIN s : s[i].object = s[j].object => i = j
Once == Distinct(scene) /\ Distinct(last)

\* An object keeps the look it was drawn with until the frame is shown, and
\* then until it is marked.
LookOK ==
  /\ \A k \in DOMAIN scene : scene[k].look = look[scene[k].object]
  /\ \A k \in DOMAIN last :
       last[k].object \in Drawn \/ dirty[last[k].object] \/ last[k].look = look[last[k].object]

\* An object that is drawn without a mark was there in the last frame, with the
\* look it has and in the order it has among its like.
CleanOK ==
  /\ \A k \in DOMAIN scene : ~scene[k].dirty =>
       \E j \in DOMAIN last : last[j].object = scene[k].object /\ last[j].look = scene[k].look
  /\ \A k, m \in DOMAIN scene : \A i, j \in DOMAIN last :
       /\ k < m /\ ~scene[k].dirty /\ ~scene[m].dirty
       /\ last[i].object = scene[k].object /\ last[j].object = scene[m].object
       => i < j

\* The pipelines hold the objects of the scene, as many and in the order in
\* which they touch the block: what canvas_update would paint is the scene.
NodesOK ==
  /\ \A b \in Block : \A k \in DOMAIN pipeline[b] : pipeline[b][k].object \in Drawn
  /\ \A b \in Block : Len(pipeline[b]) = Cardinality(Touching(scene, b))
PaintOK ==
  \A p \in Pixel :
    /\ OverBlock(BlockOf(p), p[1] % BW, p[2] % BH) = {} <=> Over(scene, p) = {}
    /\ Painted(BlockOf(p), p[1] % BW, p[2] % BH) = ColorAt(scene, p)

\* A block that a marked object touches will be repainted.
MarkOK ==
  \A b \in Block : \A k \in Touching(scene, b) : scene[k].dirty => total_last[b] \in {-1, 0}

ScreenOK == \A p \in Pixel : screen[p] = ColorAt(last, p)

CanvasInv ==
  Typed /\ Once /\ LookOK /\ CleanOK /\ NodesOK /\ PaintOK /\ MarkOK /\ CountsShown /\ ScreenOK

----------------------------------------------------------------------------
(* Pixels and blocks *)

LEMMA Division ==
  ASSUME NEW n \in Nat, NEW d \in Nat \ {0}
  PROVE  n \div d \in Nat /\ n % d \in 0 .. d - 1 /\ n = d * (n \div d) + (n % d)
<1>1. n \div d \in Int /\ n % d \in 0 .. d - 1 /\ n = d * (n \div d) + (n % d)
  BY SMT
<1>2. n \div d >= 0
  <2> SUFFICES ASSUME n \div d <= -1 PROVE FALSE
    BY <1>1
  <2>1. d * ((n \div d) + 1) <= 0 /\ d * ((n \div d) + 1) = d * (n \div d) + d
    BY <1>1
  <2> QED
    BY <1>1, <2>1
<1> QED
  BY <1>1, <1>2

LEMMA DivisionGrows ==
  ASSUME NEW m \in Nat, NEW n \in Nat, m <= n, NEW d \in Nat \ {0}
  PROVE  m \div d <= n \div d
<1> DEFINE a == m \div d
           b == n \div d
<1>1. /\ a \in Nat /\ m % d \in 0 .. d - 1 /\ m = d * a + (m % d)
      /\ b \in Nat /\ n % d \in 0 .. d - 1 /\ n = d * b + (n % d)
  BY Division
<1> HIDE DEF a, b
<1>2. SUFFICES ASSUME a >= b + 1 PROVE FALSE
  BY <1>1 DEF a, b
<1>3. d * (a - (b + 1)) >= 0 /\ d * (a - (b + 1)) = d * a - d * b - d
  BY <1>1, <1>2
<1> QED
  BY <1>1, <1>3

\* An offset below the length has a block, also when the last one is not whole.
LEMMA BlockIndex ==
  ASSUME NEW n \in Nat, NEW len \in Nat \ {0}, n < len, NEW d \in Nat \ {0}
  PROVE  n \div d \in 0 .. CeilDiv(len, d) - 1
<1> DEFINE a == n \div d
           c == (n + d) \div d
<1>0. n + d \in Nat
  OBVIOUS
<1>1. /\ a \in Nat /\ n % d \in 0 .. d - 1 /\ n = d * a + (n % d)
      /\ c \in Nat /\ (n + d) % d \in 0 .. d - 1 /\ n + d = d * c + ((n + d) % d)
  BY <1>0, Division
<1>2. c <= CeilDiv(len, d) /\ CeilDiv(len, d) \in Nat
  <2>1. len + d - 1 \in Nat /\ n + d <= len + d - 1
    OBVIOUS
  <2> QED
    BY <1>0, <2>1, Division, DivisionGrows DEF CeilDiv
<1> HIDE DEF a, c
<1>3. a + 1 <= c
  <2> SUFFICES ASSUME a >= c PROVE FALSE
    BY <1>1
  <2>1. d * (a - c) >= 0 /\ d * (a - c) = d * a - d * c
    BY <1>1
  <2> QED
    BY <1>1, <2>1
<1> QED
  BY <1>1, <1>2, <1>3 DEF a

LEMMA BlockOfPixel ==
  ASSUME NEW p \in Pixel
  PROVE  /\ BlockOf(p) \in Block
         /\ p[1] \in Nat /\ p[2] \in Nat /\ p[1] < W /\ p[2] < H
         /\ BlockOf(p)[1] = p[1] \div BW /\ BlockOf(p)[2] = p[2] \div BH
         /\ BlockOf(p)[1] \in Nat /\ BlockOf(p)[2] \in Nat
         /\ p[1] % BW \in Int /\ p[2] % BH \in Int
         /\ BlockOf(p)[1] * BW \in Int /\ BlockOf(p)[2] * BH \in Int
         /\ p[1] = BlockOf(p)[1] * BW + (p[1] % BW)
         /\ p[2] = BlockOf(p)[2] * BH + (p[2] % BH)
<1>1. p[1] \in Nat /\ p[2] \in Nat /\ p[1] < W /\ p[2] < H
  BY DEF Pixel
<1>2. /\ p[1] \div BW \in 0 .. block_w - 1 /\ p[2] \div BH \in 0 .. block_h - 1
  BY <1>1, BlockIndex DEF block_w, block_h
<1>3. /\ p[1] \div BW \in Nat /\ p[1] % BW \in 0 .. BW - 1 /\ p[1] = BW * (p[1] \div BW) + (p[1] % BW)
      /\ p[2] \div BH \in Nat /\ p[2] % BH \in 0 .. BH - 1 /\ p[2] = BH * (p[2] \div BH) + (p[2] % BH)
  BY <1>1, Division
<1>4. BlockOf(p) = <<p[1] \div BW, p[2] \div BH>> /\ BlockOf(p) \in Block
  BY <1>2 DEF BlockOf, Block
<1>5. ASSUME NEW a \in Nat, NEW d \in Nat \ {0} PROVE a * d \in Int /\ a * d = d * a
  OBVIOUS
<1>6. BlockOf(p)[1] = p[1] \div BW /\ BlockOf(p)[2] = p[2] \div BH
  BY <1>4
<1>7. /\ BlockOf(p)[1] * BW \in Int /\ BlockOf(p)[1] * BW = BW * (p[1] \div BW)
      /\ BlockOf(p)[2] * BH \in Int /\ BlockOf(p)[2] * BH = BH * (p[2] \div BH)
  BY <1>3, <1>5, <1>6
<1>8. p[1] = BlockOf(p)[1] * BW + (p[1] % BW) /\ p[2] = BlockOf(p)[2] * BH + (p[2] % BH)
  BY <1>3, <1>7, Zenon
<1>9. p[1] % BW \in Int /\ p[2] % BH \in Int
  BY <1>3
<1> QED
  BY <1>1, <1>3, <1>4, <1>6, <1>7, <1>8, <1>9, Zenon

\* canvas_draw enters an object in the blocks of all its pixels.
LEMMA CoverTouches ==
  ASSUME NEW l \in Look, NEW p \in Pixel, PC!Covers(l, p)
  PROVE  ~Empty(l) /\ BlockOf(p) \in Touched(l)
<1>1. l.x \in Int /\ l.y \in Int /\ l.w \in Int /\ l.h \in Int
  OBVIOUS
<1>2. p[1] \in l.x .. l.x + l.w - 1 /\ p[2] \in l.y .. l.y + l.h - 1
  BY DEF PC!Covers
<1>3. p[1] \in Nat /\ p[2] \in Nat /\ p[1] < W /\ p[2] < H
  BY BlockOfPixel
<1>4. ~Empty(l) /\ ~OffCanvas(l)
  BY <1>1, <1>2, <1>3 DEF Empty, OffCanvas, Right, Bottom
<1>5. /\ AtLeast0(l.x) \in Nat /\ AtLeast0(l.x) <= p[1]
      /\ AtMost(Right(l), W - 1) \in Nat /\ p[1] <= AtMost(Right(l), W - 1)
      /\ AtLeast0(l.y) \in Nat /\ AtLeast0(l.y) <= p[2]
      /\ AtMost(Bottom(l), H - 1) \in Nat /\ p[2] <= AtMost(Bottom(l), H - 1)
  BY <1>1, <1>2, <1>3 DEF AtLeast0, AtMost, Right, Bottom
<1>6. /\ AtLeast0(l.x) \div BW <= p[1] \div BW /\ p[1] \div BW <= AtMost(Right(l), W - 1) \div BW
      /\ AtLeast0(l.y) \div BH <= p[2] \div BH /\ p[2] \div BH <= AtMost(Bottom(l), H - 1) \div BH
  BY <1>3, <1>5, DivisionGrows
<1>7. /\ AtLeast0(l.x) \div BW \in Nat /\ p[1] \div BW \in Nat /\ AtMost(Right(l), W - 1) \div BW \in Nat
      /\ AtLeast0(l.y) \div BH \in Nat /\ p[2] \div BH \in Nat /\ AtMost(Bottom(l), H - 1) \div BH \in Nat
  BY <1>3, <1>5, Division
<1>8. /\ BlockOf(p)[1] \in AtLeast0(l.x) \div BW .. AtMost(Right(l), W - 1) \div BW
      /\ BlockOf(p)[2] \in AtLeast0(l.y) \div BH .. AtMost(Bottom(l), H - 1) \div BH
  <2>1. BlockOf(p)[1] = p[1] \div BW /\ BlockOf(p)[2] = p[2] \div BH
    BY BlockOfPixel
  <2>2. \A i, j, k \in Nat : i <= j /\ j <= k => j \in i .. k
    OBVIOUS
  <2> QED
    BY <1>6, <1>7, <2>1, <2>2, Zenon
<1> QED
  BY <1>4, <1>8, BlockOfPixel DEF Touched

\* A node covers in its block what its object covers on the canvas.
LEMMA NodeOfObject ==
  ASSUME NEW o, NEW p \in Pixel, look[o] \in Look
  PROVE  NodeCovers(Node(o, look[o], BlockOf(p)), p[1] % BW, p[2] % BH) <=> PC!Covers(look[o], p)
<1> DEFINE l == look[o]
           b == BlockOf(p)
<1>1. l.x \in Int /\ l.y \in Int /\ l.w \in Int /\ l.h \in Int
  OBVIOUS
<1>2. Node(o, l, b).object = o /\ Node(o, l, b).x = l.x - b[1] * BW /\ Node(o, l, b).y = l.y - b[2] * BH
  BY DEF Node
<1>3. /\ p[1] % BW \in Int /\ p[2] % BH \in Int /\ b[1] * BW \in Int /\ b[2] * BH \in Int
      /\ p[1] = b[1] * BW + (p[1] % BW) /\ p[2] = b[2] * BH + (p[2] % BH)
  BY BlockOfPixel
<1>4. NodeCovers(Node(o, l, b), p[1] % BW, p[2] % BH)
        <=> /\ p[1] % BW \in l.x - b[1] * BW .. l.x - b[1] * BW + l.w - 1
            /\ p[2] % BH \in l.y - b[2] * BH .. l.y - b[2] * BH + l.h - 1
  BY <1>2 DEF NodeCovers
<1>5. PC!Covers(l, p) <=> p[1] \in l.x .. l.x + l.w - 1 /\ p[2] \in l.y .. l.y + l.h - 1
  BY DEF PC!Covers
<1> HIDE DEF l, b
<1> QED
  BY <1>1, <1>3, <1>4, <1>5 DEF l, b

----------------------------------------------------------------------------
(* The first of several *)

LEMMA First ==
  ASSUME NEW S \in SUBSET Nat, S # {}
  PROVE  Min(S) \in S /\ \A y \in S : Min(S) <= y
<1>1. \E x \in S : \A y \in S : x <= y
  <2> DEFINE R == OpToRel(<, Nat)
  <2>1. PICK x \in S : \A y \in S : ~(<<y, x>> \in R)
    BY NatLessThanWellFounded, WFMin
  <2>2. \A y \in S : ~(y < x)
    BY <2>1 DEF OpToRel
  <2> QED
    BY <2>2
<1> QED
  BY <1>1 DEF Min

LEMMA FirstIs ==
  ASSUME NEW S \in SUBSET Nat, NEW x \in S, \A y \in S : x <= y
  PROVE  Min(S) = x
<1>1. Min(S) \in S /\ Min(S) <= x
  BY First
<1>2. Min(S) \in Nat /\ x \in Nat /\ x <= Min(S)
  BY <1>1
<1> QED
  BY <1>1, <1>2

\* What comes last is the first only if there is nothing before it.
LEMMA FirstOfMore ==
  ASSUME NEW n \in Nat, NEW S \in SUBSET (1 .. n)
  PROVE  Min(S \union {n + 1}) = IF S = {} THEN n + 1 ELSE Min(S)
<1>0. S \in SUBSET Nat /\ S \union {n + 1} \in SUBSET Nat /\ n + 1 \in S \union {n + 1}
  OBVIOUS
<1>1. CASE S = {}
  <2>1. \A y \in S \union {n + 1} : n + 1 <= y
    BY <1>1
  <2> QED
    BY <1>0, <1>1, <2>1, FirstIs
<1>2. CASE S # {}
  <2>1. Min(S) \in S /\ \A y \in S : Min(S) <= y
    BY <1>0, <1>2, First
  <2>2. Min(S) \in S \union {n + 1} /\ \A y \in S \union {n + 1} : Min(S) <= y
    <3>1. Min(S) \in 1 .. n
      BY <2>1
    <3>2. Min(S) <= n + 1
      BY <3>1
    <3> QED
      BY <2>1, <3>2, Zenon
  <2> QED
    BY <1>0, <1>2, <2>2, FirstIs
<1> QED
  BY <1>1, <1>2

----------------------------------------------------------------------------
(* What a frame shows *)

\* A frame without its marks is one of Picture.
Plain(s) == [k \in DOMAIN s |-> [object |-> s[k].object, look |-> s[k].look]]

LEMMA FrameColor ==
  ASSUME NEW s \in Seq(Entry), NEW p
  PROVE  PC!Composite(Plain(s), p) = ColorAt(s, p)
<1>1. DOMAIN Plain(s) = DOMAIN s /\ \A k \in DOMAIN s : Plain(s)[k].look = s[k].look
  BY DEF Plain
<1>2. DOMAIN s \subseteq Nat /\ DOMAIN s = 1 .. Len(s) /\ Len(s) \in Nat
  OBVIOUS
<1>3. CASE Over(s, p) = {}
  BY <1>1, <1>3 DEF PC!Composite, ColorAt, Over
<1>4. CASE Over(s, p) # {}
  <2> DEFINE Top(k) == PC!Covers(Plain(s)[k].look, p)
                           /\ \A i \in 1 .. k - 1 : ~PC!Covers(Plain(s)[i].look, p)
             m == Min(Over(s, p))
             k0 == CHOOSE k \in DOMAIN Plain(s) : Top(k)
  <2>1. m \in Over(s, p) /\ \A y \in Over(s, p) : m <= y
    BY <1>2, <1>4, First DEF Over
  <2> HIDE DEF m
  <2>2. m \in DOMAIN s /\ PC!Covers(s[m].look, p)
    BY <2>1 DEF Over
  <2>3. ASSUME NEW i \in 1 .. m - 1 PROVE ~PC!Covers(s[i].look, p)
    BY <1>2, <2>1, <2>2 DEF Over
  <2>4. Top(m) /\ m \in DOMAIN Plain(s)
    BY <1>1, <1>2, <2>2, <2>3
  <2>5. k0 \in DOMAIN s /\ Top(k0)
    BY <1>1, <2>4
  <2> HIDE DEF k0
  <2>6. k0 \in Over(s, p) /\ \A y \in Over(s, p) : k0 <= y
    <3>1. k0 \in Over(s, p)
      BY <1>1, <2>5 DEF Over
    <3>2. ASSUME NEW y \in Over(s, p), y < k0 PROVE FALSE
      <4>1. y \in 1 .. k0 - 1 /\ y \in DOMAIN s /\ PC!Covers(s[y].look, p)
        BY <1>2, <2>5, <3>2 DEF Over
      <4> QED
        BY <1>1, <2>5, <4>1
    <3> QED
      BY <1>2, <3>1, <3>2 DEF Over
  <2>7. k0 = m
    BY <1>2, <2>1, <2>6 DEF Over
  <2>8. PC!Composite(Plain(s), p) = Plain(s)[k0].look.color
    BY <1>1, <2>4 DEF PC!Composite, k0
  <2> QED
    BY <1>1, <1>4, <2>2, <2>7, <2>8 DEF ColorAt, m
<1> QED
  BY <1>3, <1>4

LEMMA ColorType == ASSUME NEW s \in Seq(Entry), NEW p PROVE ColorAt(s, p) \in Nat
<1>1. DOMAIN s \subseteq Nat /\ \A k \in DOMAIN s : s[k] \in Entry
  OBVIOUS
<1>2. CASE Over(s, p) # {}
  <2>1. Min(Over(s, p)) \in DOMAIN s
    BY <1>1, <1>2, First DEF Over
  <2> QED
    BY <1>1, <2>1 DEF ColorAt, Entry, CLEAR
<1> QED
  BY <1>2 DEF ColorAt, CLEAR

LEMMA ColorAppend ==
  ASSUME NEW s \in Seq(Entry), NEW e \in Entry, NEW p
  PROVE  /\ Over(Append(s, e), p) =
              IF PC!Covers(e.look, p) THEN Over(s, p) \union {Len(s) + 1} ELSE Over(s, p)
         /\ ColorAt(Append(s, e), p) =
              IF Over(s, p) = {} /\ PC!Covers(e.look, p) THEN e.look.color ELSE ColorAt(s, p)
<1> DEFINE a == Append(s, e)
<1>1. /\ a \in Seq(Entry) /\ Len(a) = Len(s) + 1 /\ DOMAIN a = 1 .. Len(a)
      /\ \A k \in 1 .. Len(s) : a[k] = s[k]
      /\ a[Len(s) + 1] = e /\ Len(s) \in Nat /\ DOMAIN s = 1 .. Len(s)
  OBVIOUS
<1> HIDE DEF a
<1>2. Over(a, p) = IF PC!Covers(e.look, p) THEN Over(s, p) \union {Len(s) + 1} ELSE Over(s, p)
  <2>1. \A k : k \in DOMAIN a <=> k \in DOMAIN s \/ k = Len(s) + 1
    BY <1>1
  <2> QED
    BY <1>1, <2>1 DEF Over
<1>3. Over(s, p) \in SUBSET (1 .. Len(s))
  BY <1>1 DEF Over
<1>4. PC!Covers(e.look, p) => Min(Over(a, p)) = IF Over(s, p) = {} THEN Len(s) + 1 ELSE Min(Over(s, p))
  BY <1>1, <1>2, <1>3, FirstOfMore
<1>5. Over(s, p) # {} => Min(Over(s, p)) \in 1 .. Len(s)
  <2>1. Over(s, p) \in SUBSET Nat
    BY <1>1, <1>3
  <2> QED
    BY <1>3, <2>1, First
<1>6. ColorAt(a, p) = IF Over(s, p) = {} /\ PC!Covers(e.look, p) THEN e.look.color ELSE ColorAt(s, p)
  BY <1>1, <1>2, <1>4, <1>5 DEF ColorAt
<1> QED
  BY <1>2, <1>6 DEF a

----------------------------------------------------------------------------
(* Counting what touches a block *)

LEMMA TouchingFinite ==
  ASSUME NEW s \in Seq(Entry), NEW b
  PROVE  IsFiniteSet(Touching(s, b)) /\ Touching(s, b) \subseteq 1 .. Len(s)
<1>1. Touching(s, b) \in SUBSET (1 .. Len(s)) /\ IsFiniteSet(1 .. Len(s))
  BY FS_Interval DEF Touching
<1> QED
  BY <1>1, FS_Subset

LEMMA TouchingAppend ==
  ASSUME NEW s \in Seq(Entry), NEW e \in Entry, NEW b
  PROVE  LET more == ~Empty(e.look) /\ b \in Touched(e.look) IN
         /\ Touching(Append(s, e), b) =
              IF more THEN Touching(s, b) \union {Len(s) + 1} ELSE Touching(s, b)
         /\ Cardinality(Touching(Append(s, e), b)) =
              Cardinality(Touching(s, b)) + IF more THEN 1 ELSE 0
<1> DEFINE a == Append(s, e)
           more == ~Empty(e.look) /\ b \in Touched(e.look)
<1>1. /\ a \in Seq(Entry) /\ Len(a) = Len(s) + 1 /\ DOMAIN a = 1 .. Len(a)
      /\ \A k \in 1 .. Len(s) : a[k] = s[k]
      /\ a[Len(s) + 1] = e /\ Len(s) \in Nat /\ DOMAIN s = 1 .. Len(s)
  OBVIOUS
<1> HIDE DEF a
<1>2. Touching(a, b) = IF more THEN Touching(s, b) \union {Len(s) + 1} ELSE Touching(s, b)
  <2>1. \A k : k \in DOMAIN a <=> k \in DOMAIN s \/ k = Len(s) + 1
    BY <1>1
  <2> QED
    BY <1>1, <2>1 DEF Touching
<1>3. IsFiniteSet(Touching(s, b)) /\ Len(s) + 1 \notin Touching(s, b)
  BY <1>1, TouchingFinite
<1>4. Cardinality(Touching(s, b)) \in Nat
  BY <1>3, FS_CardinalityType
<1>5. Cardinality(Touching(a, b)) = Cardinality(Touching(s, b)) + IF more THEN 1 ELSE 0
  <2>1. Cardinality(Touching(s, b) \union {Len(s) + 1}) = Cardinality(Touching(s, b)) + 1
    BY <1>3, FS_AddElement
  <2> HIDE DEF more
  <2> QED
    BY <1>2, <1>4, <2>1
<1> QED
  BY <1>2, <1>5 DEF a

----------------------------------------------------------------------------
(* The steps *)

LEMMA NothingDrawn ==
  /\ <<>> \in Seq(Entry) /\ DOMAIN <<>> = {} /\ Len(<<>>) = 0
  /\ \A p : Over(<<>>, p) = {} /\ ColorAt(<<>>, p) = CLEAR
  /\ \A b : Touching(<<>>, b) = {} /\ Cardinality(Touching(<<>>, b)) = 0
<1>1. \A b : Touching(<<>>, b) = {}
  BY DEF Touching
<1> QED
  BY <1>1, FS_EmptySet DEF Over, ColorAt

LEMMA CanvasInit == Init => CanvasInv
<1> SUFFICES ASSUME Init PROVE CanvasInv
  OBVIOUS
<1>1. Typed
  <2>1. <<>> \in Seq([object : Object, x : Int, y : Int])
    OBVIOUS
  <2>2. pipeline \in [Block -> Seq([object : Object, x : Int, y : Int])]
    BY <2>1 DEF Init
  <2>3. total_last \in [Block -> {-1} \union Nat] /\ screen \in [Pixel -> Nat]
    BY DEF Init, CLEAR
  <2> QED
    BY <2>2, <2>3, NothingDrawn DEF Init, Typed, TypeOK
<1>2. Drawn = {} /\ Once /\ LookOK /\ CleanOK
  BY NothingDrawn DEF Init, Drawn, Once, Distinct, LookOK, CleanOK
<1>3. NodesOK /\ MarkOK /\ CountsShown
  BY NothingDrawn DEF Init, NodesOK, MarkOK, CountsShown
<1>4. PaintOK /\ ScreenOK
  BY BlockOfPixel, NothingDrawn DEF Init, PaintOK, ScreenOK, OverBlock, Painted
<1> QED
  BY <1>1, <1>2, <1>3, <1>4 DEF CanvasInv

LEMMA RedrawStep == CanvasInv /\ Redraw => CanvasInv'
<1> SUFFICES ASSUME CanvasInv, Redraw PROVE CanvasInv'
  OBVIOUS
<1>1. UNCHANGED <<look, dirty, pipeline, screen, overrun, scene, last>> /\ total_last' = [b \in Block |-> 0]
  BY DEF Redraw, CanvasRedraw
<1>2. Typed' /\ Drawn' = Drawn
  BY <1>1 DEF CanvasInv, Typed, TypeOK, Drawn
<1>3. Once' /\ LookOK' /\ CleanOK' /\ NodesOK' /\ ScreenOK'
  BY <1>1, <1>2 DEF CanvasInv, Once, LookOK, CleanOK, NodesOK, ScreenOK
<1>4. PaintOK'
  BY <1>1 DEF CanvasInv, PaintOK, OverBlock, NodeCovers, Painted
<1>5. MarkOK' /\ CountsShown'
  BY <1>1 DEF MarkOK, CountsShown
<1> QED
  BY <1>2, <1>3, <1>4, <1>5 DEF CanvasInv

\* An object changes when no pipeline refers to it.
LEMMA ChangeStep == ASSUME CanvasInv, NEW o \in Object, Change(o) PROVE CanvasInv'
<1>1. /\ o \notin Drawn /\ UNCHANGED <<pipeline, total_last, screen, overrun, scene, last>>
      /\ dirty' = [dirty EXCEPT ![o] = TRUE]
      /\ \E l \in Look : look' = [look EXCEPT ![o] = l]
  BY DEF Change, canvas
<1>2. Drawn' = Drawn /\ \A v \in Object : v # o => look'[v] = look[v] /\ dirty'[v] = dirty[v]
  BY <1>1 DEF CanvasInv, Typed, TypeOK, Drawn
<1>3. dirty'[o]
  BY <1>1 DEF CanvasInv, Typed, TypeOK
<1>4. Typed'
  BY <1>1 DEF CanvasInv, Typed, TypeOK
<1>5. /\ \A k \in DOMAIN scene : scene[k] \in Entry /\ scene[k].object \in Drawn
      /\ \A k \in DOMAIN last : last[k] \in Entry
  BY DEF CanvasInv, Typed, Drawn
<1>6. LookOK'
  BY <1>1, <1>2, <1>3, <1>5 DEF CanvasInv, LookOK, Entry
<1>7. Once' /\ CleanOK' /\ NodesOK' /\ MarkOK' /\ CountsShown' /\ ScreenOK'
  BY <1>1, <1>2 DEF CanvasInv, Once, CleanOK, NodesOK, MarkOK, CountsShown, ScreenOK
<1>8. PaintOK'
  <2> SUFFICES ASSUME NEW p \in Pixel
               PROVE  /\ OverBlock(BlockOf(p), p[1] % BW, p[2] % BH)' = OverBlock(BlockOf(p), p[1] % BW, p[2] % BH)
                      /\ Painted(BlockOf(p), p[1] % BW, p[2] % BH)' = Painted(BlockOf(p), p[1] % BW, p[2] % BH)
    BY <1>1 DEF CanvasInv, PaintOK
  <2> DEFINE b == BlockOf(p)
             c == p[1] % BW
             r == p[2] % BH
  <2>1. b \in Block /\ pipeline[b] \in Seq([object : Object, x : Int, y : Int])
    BY BlockOfPixel DEF CanvasInv, Typed, TypeOK
  <2> HIDE DEF b, c, r
  <2>2. \A k \in DOMAIN pipeline[b] : look'[pipeline[b][k].object] = look[pipeline[b][k].object]
    BY <1>1, <1>2, <2>1 DEF CanvasInv, NodesOK
  <2>3. OverBlock(b, c, r)' = OverBlock(b, c, r)
    BY <1>1, <2>2 DEF OverBlock, NodeCovers, b, c, r
  <2>4. OverBlock(b, c, r) # {} => Min(OverBlock(b, c, r)) \in DOMAIN pipeline[b]
    <3>1. OverBlock(b, c, r) \in SUBSET Nat /\ OverBlock(b, c, r) \subseteq DOMAIN pipeline[b]
      BY <2>1 DEF OverBlock
    <3> QED
      BY <3>1, First
  <2>5. /\ Painted(b, c, r) = IF OverBlock(b, c, r) = {} THEN CLEAR
                              ELSE look[pipeline[b][Min(OverBlock(b, c, r))].object].color
        /\ Painted(b, c, r)' = IF OverBlock(b, c, r)' = {} THEN CLEAR
                               ELSE look'[pipeline'[b][Min(OverBlock(b, c, r)')].object].color
    BY DEF Painted, OverBlock, b, c, r
  <2>6. Painted(b, c, r)' = Painted(b, c, r)
    BY <1>1, <2>2, <2>3, <2>4, <2>5
  <2> QED
    BY <2>3, <2>6 DEF b, c, r
<1> QED
  BY <1>4, <1>6, <1>7, <1>8 DEF CanvasInv

\* What a draw does to a pipeline is what it does to the scene.
LEMMA DrawPaint == ASSUME CanvasInv, NEW o \in Object, Draw(o) PROVE PaintOK'
<1> DEFINE l == look[o]
           e == [object |-> o, look |-> l, dirty |-> dirty[o]]
<1>1. l \in Look /\ e \in Entry /\ e.look = l /\ scene \in Seq(Entry)
  BY DEF CanvasInv, Typed, TypeOK, Entry
<1>2. scene' = Append(scene, e) /\ look' = look
  BY DEF Draw
<1> SUFFICES ASSUME NEW p \in Pixel
             PROVE  /\ OverBlock(BlockOf(p), p[1] % BW, p[2] % BH)' = {} <=> Over(scene, p)' = {}
                    /\ Painted(BlockOf(p), p[1] % BW, p[2] % BH)' = ColorAt(scene, p)'
  BY DEF PaintOK
<1> DEFINE b == BlockOf(p)
           c == p[1] % BW
           r == p[2] % BH
           n == Len(pipeline[b])
           covered == PC!Covers(l, p)
<1>3. b \in Block /\ pipeline[b] \in Seq([object : Object, x : Int, y : Int]) /\ n \in Nat /\ DOMAIN pipeline[b] = 1 .. n
  <2>1. b \in Block
    BY BlockOfPixel
  <2> HIDE DEF b
  <2>2. pipeline[b] \in Seq([object : Object, x : Int, y : Int])
    BY <2>1 DEF CanvasInv, Typed, TypeOK
  <2> QED
    BY <2>1, <2>2
<1>4. NodeCovers(Node(o, l, b), c, r) <=> covered
  BY <1>1, NodeOfObject
<1>5. covered => ~Empty(l) /\ b \in Touched(l)
  BY <1>1, CoverTouches
<1>6. \/ ~covered /\ pipeline'[b] = pipeline[b]
      \/ pipeline'[b] = Append(pipeline[b], Node(o, l, b))
  <2>1. CASE Empty(l)
    BY <1>5, <2>1 DEF Draw, CanvasDraw, canvas
  <2>2. CASE ~Empty(l)
    <3>1. pipeline'[b] = IF b \in Touched(l) THEN Append(pipeline[b], Node(o, l, b)) ELSE pipeline[b]
      BY <1>3, <2>2 DEF Draw, CanvasDraw
    <3> QED
      BY <1>5, <3>1
  <2> QED
    BY <2>1, <2>2
<1>7. OverBlock(b, c, r) \in SUBSET (1 .. n)
  BY <1>3 DEF OverBlock
<1>8. Over(scene, p) = {} <=> OverBlock(b, c, r) = {}
  BY DEF CanvasInv, PaintOK
<1>9. Painted(b, c, r) = ColorAt(scene, p)
  BY DEF CanvasInv, PaintOK
<1> HIDE DEF b, c, r, n, covered
<1>10. /\ Painted(b, c, r) = IF OverBlock(b, c, r) = {} THEN CLEAR
                             ELSE look[pipeline[b][Min(OverBlock(b, c, r))].object].color
       /\ Painted(b, c, r)' = IF OverBlock(b, c, r)' = {} THEN CLEAR
                              ELSE look[pipeline'[b][Min(OverBlock(b, c, r)')].object].color
  BY <1>2 DEF Painted, OverBlock, b, c, r
<1>11. /\ OverBlock(b, c, r)' = IF covered THEN OverBlock(b, c, r) \union {n + 1} ELSE OverBlock(b, c, r)
       /\ \A k \in 1 .. n : pipeline'[b][k] = pipeline[b][k]
       /\ covered => pipeline'[b][n + 1].object = o
  <2>1. CASE ~covered /\ pipeline'[b] = pipeline[b]
    BY <1>2, <2>1 DEF OverBlock, NodeCovers, b, c, r
  <2>2. CASE pipeline'[b] = Append(pipeline[b], Node(o, l, b))
    <3>1. /\ DOMAIN pipeline'[b] = 1 .. n + 1 /\ \A k \in 1 .. n : pipeline'[b][k] = pipeline[b][k]
          /\ pipeline'[b][n + 1] = Node(o, l, b)
      BY <1>3, <2>2 DEF n
    <3>2. \A k : k \in DOMAIN pipeline'[b] <=> k \in DOMAIN pipeline[b] \/ k = n + 1
      BY <1>3, <3>1
    <3>3. NodeCovers(Node(o, l, b), c, r)' <=> NodeCovers(Node(o, l, b), c, r)
      BY <1>2 DEF NodeCovers, Node, b, c, r
    <3>4. OverBlock(b, c, r)' = IF covered THEN OverBlock(b, c, r) \union {n + 1} ELSE OverBlock(b, c, r)
      <4>1. OverBlock(b, c, r)' = {k \in DOMAIN pipeline'[b] :
                                     /\ c \in pipeline'[b][k].x .. pipeline'[b][k].x + look[pipeline'[b][k].object].w - 1
                                     /\ r \in pipeline'[b][k].y .. pipeline'[b][k].y + look[pipeline'[b][k].object].h - 1}
        BY <1>2 DEF OverBlock, NodeCovers, b, c, r
      <4>2. OverBlock(b, c, r) = {k \in DOMAIN pipeline[b] :
                                     /\ c \in pipeline[b][k].x .. pipeline[b][k].x + look[pipeline[b][k].object].w - 1
                                     /\ r \in pipeline[b][k].y .. pipeline[b][k].y + look[pipeline[b][k].object].h - 1}
        BY DEF OverBlock, NodeCovers
      <4>3. covered <=> /\ c \in pipeline'[b][n + 1].x .. pipeline'[b][n + 1].x + look[pipeline'[b][n + 1].object].w - 1
                        /\ r \in pipeline'[b][n + 1].y .. pipeline'[b][n + 1].y + look[pipeline'[b][n + 1].object].h - 1
        BY <1>4, <3>1 DEF NodeCovers
      <4> DEFINE P(k) == /\ c \in pipeline'[b][k].x .. pipeline'[b][k].x + look[pipeline'[b][k].object].w - 1
                         /\ r \in pipeline'[b][k].y .. pipeline'[b][k].y + look[pipeline'[b][k].object].h - 1
      <4>4. \A k \in DOMAIN pipeline[b] : k \in OverBlock(b, c, r) <=> P(k)
        BY <1>3, <3>1, <4>2
      <4>5. OverBlock(b, c, r)' = {k \in DOMAIN pipeline'[b] : P(k)} /\ (covered <=> P(n + 1))
        BY <4>1, <4>3
      <4>6. OverBlock(b, c, r) \subseteq DOMAIN pipeline[b]
        BY <4>2
      <4> HIDE DEF P
      <4> QED
        BY <3>2, <4>4, <4>5, <4>6
    <3>5. Node(o, l, b).object = o
      BY DEF Node
    <3> QED
      BY <3>1, <3>4, <3>5
  <2> QED
    BY <1>6, <2>1, <2>2
<1>12. /\ (Over(scene, p)' = IF covered THEN Over(scene, p) \union {Len(scene) + 1} ELSE Over(scene, p))
       /\ (ColorAt(scene, p)' = IF Over(scene, p) = {} /\ covered THEN l.color ELSE ColorAt(scene, p))
  <2>1. Over(scene, p)' = Over(Append(scene, e), p)
    BY <1>2 DEF Over, PC!Covers
  <2>2. ColorAt(scene, p)' = ColorAt(Append(scene, e), p)
    BY <1>2, <2>1 DEF ColorAt
  <2> QED
    BY <1>1, <2>1, <2>2, ColorAppend DEF covered
<1>13. OverBlock(b, c, r)' = {} <=> Over(scene, p)' = {}
  BY <1>8, <1>11, <1>12
<1>14. Painted(b, c, r)' = ColorAt(scene, p)'
  <2>1. CASE ~covered
    <3>1. OverBlock(b, c, r) # {} => Min(OverBlock(b, c, r)) \in 1 .. n
      <4>1. OverBlock(b, c, r) \in SUBSET Nat
        BY <1>3, <1>7
      <4> QED
        BY <1>7, <4>1, First
    <3> QED
      BY <1>9, <1>10, <1>11, <1>12, <2>1, <3>1
  <2>2. CASE covered
    <3>1. Min(OverBlock(b, c, r)') = IF OverBlock(b, c, r) = {} THEN n + 1 ELSE Min(OverBlock(b, c, r))
      BY <1>3, <1>7, <1>11, <2>2, FirstOfMore
    <3>2. OverBlock(b, c, r)' # {}
      BY <1>11, <2>2
    <3>3. CASE OverBlock(b, c, r) = {}
      BY <1>8, <1>10, <1>11, <1>12, <2>2, <3>1, <3>2, <3>3
    <3>4. CASE OverBlock(b, c, r) # {}
      <4>1. Min(OverBlock(b, c, r)) \in 1 .. n
        <5>1. OverBlock(b, c, r) \in SUBSET Nat
          BY <1>3, <1>7
        <5> QED
          BY <1>7, <3>4, <5>1, First
      <4> QED
        BY <1>8, <1>9, <1>10, <1>11, <1>12, <2>2, <3>1, <3>2, <3>4, <4>1
    <3> QED
      BY <3>3, <3>4
  <2> QED
    BY <2>1, <2>2
<1> QED
  BY <1>13, <1>14 DEF b, c, r

LEMMA Appended ==
  ASSUME NEW S, NEW s \in Seq(S), NEW x \in S, NEW t, t = Append(s, x), NEW n, n = Len(s)
  PROVE  /\ t \in Seq(S) /\ n \in Nat /\ Len(t) = n + 1
         /\ DOMAIN s = 1 .. n /\ DOMAIN t = 1 .. n + 1
         /\ \A k \in 1 .. n : t[k] = s[k]
         /\ t[n + 1] = x
         /\ \A k : k \in DOMAIN t <=> k \in 1 .. n \/ k = n + 1
OBVIOUS

LEMMA DrawStep == ASSUME CanvasInv, NEW o \in Object, Draw(o) PROVE CanvasInv'
<1> DEFINE l == look[o]
           e == [object |-> o, look |-> l, dirty |-> dirty[o]]
           n == Len(scene)
           touches(b) == ~Empty(l) /\ b \in Touched(l)
<1>1. /\ l \in Look /\ dirty[o] \in BOOLEAN /\ e \in Entry
      /\ e.object = o /\ e.look = l /\ e.dirty = dirty[o] /\ scene \in Seq(Entry) /\ last \in Seq(Entry)
  BY DEF CanvasInv, Typed, TypeOK, Entry
<1>2. /\ o \notin Drawn /\ scene' = Append(scene, e) /\ (dirty[o] \/ AsBefore(o))
      /\ UNCHANGED <<look, last, screen, overrun>>
  BY DEF Draw, CanvasDraw, canvas
<1>3. dirty' = IF Empty(l) THEN dirty ELSE [dirty EXCEPT ![o] = FALSE]
  BY DEF Draw, CanvasDraw
<1>4. ASSUME NEW b \in Block
      PROVE  /\ pipeline'[b] = IF touches(b) THEN Append(pipeline[b], Node(o, l, b)) ELSE pipeline[b]
             /\ total_last'[b] = IF touches(b) THEN Marked(total_last[b], dirty[o]) ELSE total_last[b]
  BY DEF Draw, CanvasDraw, canvas
<1>5. /\ pipeline' \in [Block -> Seq([object : Object, x : Int, y : Int])]
      /\ total_last' \in [Block -> {-1} \union Nat]
  <2>1. CASE Empty(l)
    BY <2>1 DEF Draw, CanvasDraw, canvas, CanvasInv, Typed, TypeOK
  <2>2. CASE ~Empty(l)
    <3>1. /\ pipeline' = [b \in Block |->
                IF b \in Touched(l) THEN Append(pipeline[b], Node(o, l, b)) ELSE pipeline[b]]
          /\ total_last' = [b \in Block |->
                IF b \in Touched(l) THEN Marked(total_last[b], dirty[o]) ELSE total_last[b]]
      BY <2>2 DEF Draw, CanvasDraw
    <3>2. ASSUME NEW b \in Block PROVE Node(o, l, b) \in [object : Object, x : Int, y : Int]
      <4>1. b[1] \in Int /\ b[2] \in Int
        BY DEF Block
      <4>2. b[1] * BW \in Int /\ b[2] * BH \in Int
        BY <4>1
      <4> QED
        BY <1>1, <4>2 DEF Node
    <3>3. \A b \in Block : pipeline[b] \in Seq([object : Object, x : Int, y : Int])
      BY DEF CanvasInv, Typed, TypeOK
    <3>4. \A b \in Block : total_last[b] \in {-1} \union Nat /\ Marked(total_last[b], dirty[o]) \in {-1} \union Nat
      BY DEF CanvasInv, Typed, TypeOK, Marked
    <3> HIDE DEF l
    <3>5. ASSUME NEW b \in Block
          PROVE  Append(pipeline[b], Node(o, l, b)) \in Seq([object : Object, x : Int, y : Int])
      <4> DEFINE N == [object : Object, x : Int, y : Int]
      <4>1. pipeline[b] \in Seq(N) /\ Node(o, l, b) \in N
        BY <3>2, <3>3
      <4> HIDE DEF N
      <4>2. Append(pipeline[b], Node(o, l, b)) \in Seq(N)
        BY <4>1, Appended
      <4> QED
        BY <4>2 DEF N
    <3> QED
      BY <3>1, <3>3, <3>4, <3>5
  <2> QED
    BY <2>1, <2>2
<1> HIDE DEF l, e
<1>6. /\ n \in Nat /\ DOMAIN scene = 1 .. n /\ DOMAIN scene' = 1 .. n + 1
      /\ \A k \in 1 .. n : scene'[k] = scene[k]
      /\ scene'[n + 1] = e /\ scene' \in Seq(Entry)
      /\ \A k : k \in DOMAIN scene' <=> k \in 1 .. n \/ k = n + 1
  <2>1. scene \in Seq(Entry) /\ e \in Entry
    BY <1>1
  <2>2. scene' = Append(scene, e)
    BY <1>2
  <2> HIDE DEF n
  <2>3. n = Len(scene)
    BY DEF n
  <2> QED
    BY <2>1, <2>2, <2>3, Appended
<1>7. \A k \in 1 .. n : scene[k] \in Entry /\ scene[k].object \in Drawn
  BY <1>1, <1>6 DEF Drawn
<1> HIDE DEF n
<1>8. Typed'
  <2>1. dirty' \in [Object -> BOOLEAN]
    BY <1>3 DEF CanvasInv, Typed, TypeOK
  <2> QED
    BY <1>2, <1>5, <1>6, <2>1 DEF CanvasInv, Typed, TypeOK
<1>9. Drawn' = Drawn \union {o}
  <2>1. Drawn' = {scene'[k].object : k \in DOMAIN scene'}
    BY DEF Drawn
  <2> QED
    BY <1>1, <1>6, <2>1 DEF Drawn
<1>10. Once'
  <2>1. \A k \in 1 .. n : scene'[k].object # o
    BY <1>2, <1>6, <1>7
  <2>2. \A i, j \in 1 .. n : scene'[i].object = scene'[j].object => i = j
    BY <1>6 DEF CanvasInv, Once, Distinct
  <2>3. \A i, j \in DOMAIN scene' : scene'[i].object = scene'[j].object => i = j
    BY <1>1, <1>6, <2>1, <2>2
  <2> QED
    BY <1>2, <2>3 DEF CanvasInv, Once, Distinct
<1>11. LookOK'
  <2>1. \A k \in DOMAIN scene' : scene'[k].look = look[scene'[k].object]
    <3>1. \A k \in 1 .. n : scene[k].look = look[scene[k].object]
      BY <1>6 DEF CanvasInv, LookOK
    <3>2. scene'[n + 1].look = look[scene'[n + 1].object]
      BY <1>1, <1>6 DEF l
    <3> QED
      BY <1>6, <3>1, <3>2
  <2>2. \A v \in Object : v # o => dirty'[v] = dirty[v]
    BY <1>3 DEF CanvasInv, Typed, TypeOK
  <2>3. \A k \in DOMAIN last : last[k].object \in Object
    <3>1. \A k \in DOMAIN last : last[k] \in Entry
      BY <1>1
    <3> QED
      BY <3>1 DEF Entry
  <2> QED
    BY <1>2, <1>9, <2>1, <2>2, <2>3 DEF CanvasInv, LookOK
<1>12. CleanOK'
  <2>1. CASE dirty[o]
    <3>1. \A k \in DOMAIN scene' : ~scene'[k].dirty => k \in 1 .. n
      BY <1>1, <1>6, <2>1
    <3>2. DOMAIN scene = 1 .. n /\ \A k \in 1 .. n : scene'[k] = scene[k]
      BY <1>6
    <3>3. last' = last
      BY <1>2
    <3> QED
      BY <3>1, <3>2, <3>3, Zenon DEF CanvasInv, CleanOK
  <2>2. CASE ~dirty[o]
    <3>1. PICK k0 \in DOMAIN last :
            /\ last[k0].object = o
            /\ \A i \in DOMAIN scene : ~scene[i].dirty =>
                 \E j \in 1 .. k0 - 1 : last[j].object = scene[i].object
      BY <1>2, <2>2 DEF AsBefore
    <3>2. last[k0].look = l
      BY <1>2, <2>2, <3>1 DEF CanvasInv, LookOK, l
    <3>3. DOMAIN last = 1 .. Len(last) /\ Len(last) \in Nat
      BY <1>1
    <3>4. ASSUME NEW k \in 1 .. n, ~scene[k].dirty, NEW i \in DOMAIN last, last[i].object = scene[k].object
          PROVE  i < k0
      <4>1. PICK j \in 1 .. k0 - 1 : last[j].object = scene[k].object
        BY <1>6, <3>1, <3>4
      <4>2. j = i
        BY <3>3, <3>4, <4>1 DEF CanvasInv, Once, Distinct
      <4> QED
        BY <3>3, <4>1, <4>2
    <3>5. \A j \in DOMAIN last : last[j].object = o => j = k0
      BY <3>1 DEF CanvasInv, Once, Distinct
    <3>6. \A k \in DOMAIN scene' : ~scene'[k].dirty =>
            \E j \in DOMAIN last : last[j].object = scene'[k].object /\ last[j].look = scene'[k].look
      BY <1>1, <1>6, <3>1, <3>2 DEF CanvasInv, CleanOK
    <3>7. ASSUME NEW k \in DOMAIN scene', NEW m \in DOMAIN scene', NEW i \in DOMAIN last, NEW j \in DOMAIN last,
                 k < m, ~scene'[k].dirty, ~scene'[m].dirty,
                 last[i].object = scene'[k].object, last[j].object = scene'[m].object
          PROVE  i < j
      <4>1. CASE m \in 1 .. n
        <5>1. k \in 1 .. n
          BY <1>6, <3>7, <4>1
        <5> QED
          BY <1>6, <3>7, <4>1, <5>1 DEF CanvasInv, CleanOK
      <4>2. CASE m = n + 1
        <5>1. k \in 1 .. n /\ j = k0
          BY <1>1, <1>6, <1>7, <3>5, <3>7, <4>2
        <5> QED
          BY <1>6, <3>4, <3>7, <5>1
      <4> QED
        BY <1>6, <4>1, <4>2
    <3> QED
      BY <1>2, <3>6, <3>7 DEF CleanOK
  <2> QED
    BY <1>1, <2>1, <2>2
<1>13. \A b \in Block : Touching(scene', b) = IF touches(b) THEN Touching(scene, b) \union {n + 1} ELSE Touching(scene, b)
  BY <1>1, <1>2, TouchingAppend DEF n
<1>14. NodesOK'
  <2>1. ASSUME NEW b \in Block, NEW k \in DOMAIN pipeline'[b] PROVE pipeline'[b][k].object \in Drawn'
    <3>1. pipeline[b] \in Seq([object : Object, x : Int, y : Int])
      BY DEF CanvasInv, Typed, TypeOK
    <3>2. \A i \in DOMAIN pipeline[b] : pipeline[b][i].object \in Drawn
      BY DEF CanvasInv, NodesOK
    <3>3. Node(o, l, b).object = o
      BY DEF Node
    <3>4. CASE pipeline'[b] = Append(pipeline[b], Node(o, l, b))
      <4>1. /\ DOMAIN pipeline[b] = 1 .. Len(pipeline[b])
            /\ \A i : i \in DOMAIN pipeline'[b] <=> i \in 1 .. Len(pipeline[b]) \/ i = Len(pipeline[b]) + 1
            /\ \A i \in 1 .. Len(pipeline[b]) : pipeline'[b][i] = pipeline[b][i]
            /\ pipeline'[b][Len(pipeline[b]) + 1] = Node(o, l, b)
        BY <3>1, <3>4
      <4> QED
        BY <1>9, <2>1, <3>2, <3>3, <4>1
    <3> QED
      BY <1>4, <1>9, <2>1, <3>2, <3>4
  <2>2. ASSUME NEW b \in Block PROVE Len(pipeline'[b]) = Cardinality(Touching(scene', b))
    <3>1. Len(pipeline[b]) \in Nat /\ Len(pipeline'[b]) = Len(pipeline[b]) + IF touches(b) THEN 1 ELSE 0
      <4> DEFINE N == [object : Object, x : Int, y : Int]
      <4>1. pipeline[b] \in Seq(N)
        BY DEF CanvasInv, Typed, TypeOK
      <4> HIDE DEF N
      <4>2. Len(Append(pipeline[b], Node(o, l, b))) = Len(pipeline[b]) + 1 /\ Len(pipeline[b]) \in Nat
        BY <4>1
      <4>3. pipeline'[b] = IF touches(b) THEN Append(pipeline[b], Node(o, l, b)) ELSE pipeline[b]
        BY <1>4
      <4>4. CASE touches(b)
        BY <4>2, <4>3, <4>4
      <4>5. CASE ~touches(b)
        <5>1. Len(pipeline'[b]) = Len(pipeline[b])
          BY <4>3, <4>5
        <5> HIDE DEF touches
        <5> QED
          BY <4>2, <4>5, <5>1
      <4> QED
        BY <4>4, <4>5
    <3>2. Len(pipeline[b]) = Cardinality(Touching(scene, b))
      BY DEF CanvasInv, NodesOK
    <3>3. Cardinality(Touching(scene', b)) = Cardinality(Touching(scene, b)) + IF touches(b) THEN 1 ELSE 0
      BY <1>1, <1>2, TouchingAppend
    <3> QED
      BY <3>1, <3>2, <3>3
  <2> QED
    BY <2>1, <2>2 DEF NodesOK
<1>15. MarkOK' /\ CountsShown'
  <2>1. ASSUME NEW b \in Block
        PROVE  /\ total_last'[b] = -1 \/ total_last'[b] = total_last[b]
               /\ touches(b) /\ dirty[o] => total_last'[b] = -1
    BY <1>4 DEF Marked
  <2>2. CountsShown'
    BY <1>2, <2>1 DEF CanvasInv, CountsShown
  <2>3. ASSUME NEW b \in Block, NEW k \in Touching(scene', b), scene'[k].dirty
        PROVE  total_last'[b] \in {-1, 0}
    <3>1. CASE k \in Touching(scene, b)
      <4>1. k \in 1 .. n
        BY <1>6, <3>1 DEF Touching
      <4> QED
        BY <1>6, <2>1, <2>3, <3>1, <4>1 DEF CanvasInv, MarkOK
    <3>2. CASE k = n + 1 /\ touches(b)
      BY <1>1, <1>6, <2>1, <2>3, <3>2
    <3> QED
      BY <1>13, <2>3, <3>1, <3>2
  <2> QED
    BY <2>2, <2>3 DEF MarkOK
<1>16. ScreenOK'
  BY <1>2 DEF CanvasInv, ScreenOK
<1> QED
  BY <1>8, <1>10, <1>11, <1>12, <1>14, <1>15, <1>16, DrawPaint DEF CanvasInv

\* A block that is not repainted shows what it has to: none of its objects is
\* marked and there are as many as before, so they are those of before.
LEMMA Shown == ASSUME CanvasInv, Update, NEW p \in Pixel PROVE screen'[p] = ColorAt(scene, p)
<1> DEFINE b == BlockOf(p)
           now == Touching(scene, b)
           was == Touching(last, b)
<1>1. b \in Block /\ scene \in Seq(Entry) /\ last \in Seq(Entry)
  BY BlockOfPixel DEF CanvasInv, Typed
<1>2. screen'[p] = IF Repainted(b) THEN Painted(b, p[1] % BW, p[2] % BH) ELSE screen[p]
  BY DEF Update, CanvasUpdate
<1>3. CASE Repainted(b)
  BY <1>2, <1>3 DEF CanvasInv, PaintOK
<1>4. CASE ~Repainted(b)
  <2>1. Len(pipeline[b]) \in Nat /\ total_last[b] = 1 + Len(pipeline[b])
    <3> DEFINE N == [object : Object, x : Int, y : Int]
    <3> HIDE DEF b
    <3>1. pipeline[b] \in Seq(N)
      BY <1>1 DEF CanvasInv, Typed, TypeOK
    <3> HIDE DEF N
    <3> QED
      BY <1>4, <3>1 DEF Repainted, total_object
  <2> HIDE DEF b
  <2>2. Cardinality(was) = Cardinality(now)
    <3>1. total_last[b] \notin {-1, 0}
      BY <2>1
    <3>2. total_last[b] = 1 + Cardinality(was) /\ Len(pipeline[b]) = Cardinality(now)
      BY <1>1, <3>1 DEF CanvasInv, CountsShown, NodesOK
    <3>3. Cardinality(was) \in Nat
      BY <1>1, TouchingFinite, FS_CardinalityType
    <3> QED
      BY <2>1, <3>2, <3>3
  <2>3. \A k \in now : k \in DOMAIN scene /\ ~scene[k].dirty
    BY <1>1, <2>1 DEF CanvasInv, MarkOK, Touching
  <2> DEFINE Same(k, j) == last[j].object = scene[k].object /\ last[j].look = scene[k].look
             f == [k \in now |-> CHOOSE j \in DOMAIN last : Same(k, j)]
  <2>4. \A k \in now : f[k] \in DOMAIN last /\ Same(k, f[k])
    BY <2>3 DEF CanvasInv, CleanOK
  <2> HIDE DEF f
  <2>5. ASSUME NEW k \in now, NEW m \in now, k < m PROVE f[k] < f[m]
    BY <2>3, <2>4, <2>5 DEF CanvasInv, CleanOK
  <2>6. f \in Surjection(now, was)
    <3>1. \A k \in now : f[k] \in was
      BY <2>4 DEF Touching
    <3>2. DOMAIN scene \subseteq Nat /\ DOMAIN last \subseteq Nat
      BY <1>1
    <3>3. \A k, m \in now : f[k] = f[m] => k = m
      BY <2>3, <2>4, <2>5, <3>2
    <3>4. f \in [now -> was]
      BY <3>1 DEF f
    <3>5. f \in Injection(now, was)
      BY <3>3, <3>4 DEF Injection, IsInjective
    <3>6. IsFiniteSet(was)
      BY <1>1, TouchingFinite
    <3> QED
      BY <2>2, <3>5, <3>6, FS_Injection
  <2>7. \A j \in was : \E k \in now : f[k] = j
    BY <2>6 DEF Surjection
  <2>8. Over(scene, p) \subseteq now /\ Over(last, p) \subseteq was
    <3>1. \A s \in Seq(Entry) : \A k \in DOMAIN s : s[k].look \in Look
      <4>1. \A s \in Seq(Entry) : \A k \in DOMAIN s : s[k] \in Entry
        OBVIOUS
      <4> QED
        BY <4>1 DEF Entry
    <3> QED
      BY <1>1, <3>1, CoverTouches DEF Over, Touching, b
  <2>9. \A k \in now : k \in Over(scene, p) <=> f[k] \in Over(last, p)
    BY <2>3, <2>4 DEF Over
  <2>10. Over(scene, p) \in SUBSET Nat /\ Over(last, p) \in SUBSET Nat
    BY <1>1 DEF Over
  <2>11. ColorAt(last, p) = ColorAt(scene, p)
    <3>1. CASE Over(scene, p) = {}
      <4>1. Over(last, p) = {}
        BY <2>7, <2>8, <2>9, <3>1
      <4> QED
        BY <3>1, <4>1 DEF ColorAt
    <3>2. CASE Over(scene, p) # {}
      <4> DEFINE m == Min(Over(scene, p))
      <4>1. m \in Over(scene, p) /\ \A k \in Over(scene, p) : m <= k
        BY <2>10, <3>2, First
      <4> HIDE DEF m
      <4>2. m \in now /\ f[m] \in Over(last, p)
        BY <2>8, <2>9, <4>1
      <4>3. ASSUME NEW j \in Over(last, p) PROVE f[m] <= j
        <5>1. PICK k \in now : f[k] = j /\ k \in Over(scene, p)
          BY <2>7, <2>8, <2>9
        <5>2. k \in Nat /\ m \in Nat /\ m <= k /\ f[m] \in Nat /\ j \in Nat
          BY <2>10, <4>1, <4>2, <5>1
        <5>3. m = k \/ f[m] < f[k]
          BY <2>5, <4>2, <5>1, <5>2
        <5> QED
          BY <5>1, <5>2, <5>3
      <4>4. Min(Over(last, p)) = f[m]
        BY <2>10, <4>2, <4>3, FirstIs
      <4> QED
        BY <2>4, <3>2, <4>2, <4>4 DEF ColorAt, m
    <3> QED
      BY <3>1, <3>2
  <2> QED
    BY <1>2, <1>4, <2>11 DEF CanvasInv, ScreenOK
<1> QED
  BY <1>3, <1>4

LEMMA UpdateStep == CanvasInv /\ Update => CanvasInv'
<1> SUFFICES ASSUME CanvasInv, Update PROVE CanvasInv'
  OBVIOUS
<1>1. /\ UNCHANGED <<look, dirty>> /\ scene' = <<>> /\ last' = scene /\ scene \in Seq(Entry)
      /\ pipeline' = [b \in Block |-> <<>>] /\ total_last' = [b \in Block |-> total_object(b)]
  BY DEF Update, CanvasUpdate, CanvasInv, Typed
<1>2. \A p \in Pixel : screen'[p] = ColorAt(last', p)
  BY <1>1, Shown
<1>3. Drawn' = {}
  BY <1>1 DEF Drawn
<1>4. Typed'
  <2>1. screen' \in [Pixel -> Nat]
    <3>1. \A p \in Pixel : screen'[p] \in Nat
      BY <1>1, <1>2, ColorType
    <3>2. screen' = [p \in Pixel |->
            IF Repainted(BlockOf(p)) THEN Painted(BlockOf(p), p[1] % BW, p[2] % BH) ELSE screen[p]]
      BY DEF Update, CanvasUpdate
    <3>3. screen' = [p \in Pixel |-> screen'[p]]
      BY <3>2
    <3> QED
      BY <3>1, <3>3
  <2> DEFINE N == [object : Object, x : Int, y : Int]
  <2>2. \A b \in Block : pipeline[b] \in Seq(N)
    BY DEF CanvasInv, Typed, TypeOK
  <2> HIDE DEF N
  <2>3. pipeline' \in [Block -> Seq(N)] /\ total_last' \in [Block -> {-1} \union Nat]
    BY <1>1, <2>2 DEF total_object
  <2>4. overrun' \in BOOLEAN
    BY DEF Update, CanvasUpdate, CanvasInv, Typed, TypeOK
  <2>5. look' \in [Object -> Look] /\ dirty' \in [Object -> BOOLEAN]
    BY <1>1 DEF CanvasInv, Typed, TypeOK
  <2>6. scene' \in Seq(Entry) /\ last' \in Seq(Entry)
    BY <1>1
  <2> QED
    BY <2>1, <2>3, <2>4, <2>5, <2>6 DEF Typed, TypeOK, N
<1>5. Once' /\ LookOK' /\ CleanOK'
  BY <1>1, <1>3 DEF CanvasInv, Once, Distinct, LookOK, CleanOK
<1>6. NodesOK' /\ MarkOK'
  BY <1>1, NothingDrawn DEF NodesOK, MarkOK
<1>7. CountsShown'
  BY <1>1 DEF CanvasInv, NodesOK, CountsShown, total_object
<1>8. PaintOK'
  <2> SUFFICES ASSUME NEW p \in Pixel
               PROVE  /\ OverBlock(BlockOf(p), p[1] % BW, p[2] % BH)' = {} <=> Over(scene, p)' = {}
                      /\ Painted(BlockOf(p), p[1] % BW, p[2] % BH)' = ColorAt(scene, p)'
    BY DEF PaintOK
  <2>1. OverBlock(BlockOf(p), p[1] % BW, p[2] % BH)' = {} /\ Painted(BlockOf(p), p[1] % BW, p[2] % BH)' = CLEAR
    BY <1>1, BlockOfPixel DEF OverBlock, Painted
  <2>2. Over(scene, p)' = {}
    BY <1>1 DEF Over
  <2> QED
    BY <2>1, <2>2 DEF ColorAt
<1>9. ScreenOK'
  BY <1>2 DEF ScreenOK
<1> QED
  BY <1>4, <1>5, <1>6, <1>7, <1>8, <1>9 DEF CanvasInv

LEMMA CanvasInvNext == CanvasInv /\ [Next]_vars => CanvasInv'
<1> SUFFICES ASSUME CanvasInv, [Next]_vars PROVE CanvasInv'
  OBVIOUS
<1>1. CASE Update
  BY <1>1, UpdateStep
<1>2. CASE Redraw
  BY <1>2, RedrawStep
<1>3. ASSUME NEW o \in Object, Change(o) \/ Draw(o) PROVE CanvasInv'
  BY <1>3, ChangeStep, DrawStep
<1>4. CASE UNCHANGED vars
  <2>1. UNCHANGED <<look, dirty, pipeline, total_last, screen, overrun, scene, last>>
    BY <1>4 DEF vars, canvas
  <2>2. Typed'
    BY <2>1 DEF CanvasInv, Typed, TypeOK
  <2>3. Drawn' = Drawn
    BY <2>1 DEF Drawn
  <2>4. Once' /\ LookOK' /\ CleanOK'
    BY <2>1, <2>3 DEF CanvasInv, Once, LookOK, CleanOK
  <2>5. NodesOK' /\ MarkOK' /\ CountsShown' /\ ScreenOK'
    BY <2>1, <2>3 DEF CanvasInv, NodesOK, MarkOK, CountsShown, ScreenOK
  <2>6. PaintOK'
    BY <2>1 DEF CanvasInv, PaintOK, OverBlock, NodeCovers, Painted
  <2> QED
    BY <2>2, <2>4, <2>5, <2>6 DEF CanvasInv
<1> QED
  BY <1>1, <1>2, <1>3, <1>4 DEF Next

----------------------------------------------------------------------------
(* The theorems *)

\* The number canvas_update compares the objects of a block with is that of the
\* objects the block shows, whatever the client draws and however often it calls
\* canvas_redraw.
THEOREM CanvasCorrect == Spec => [](TypeOK /\ CountsShown)
<1>1. CanvasInv => TypeOK /\ CountsShown
  BY DEF CanvasInv, Typed
<1> QED
  BY <1>1, CanvasInit, CanvasInvNext, PTL DEF Spec

LEMMA PictureInit == Init => PC!Init
<1>1. ASSUME Init PROVE [k \in DOMAIN scene |-> [object |-> scene[k].object, look |-> scene[k].look]] = <<>>
  BY <1>1 DEF Init
<1> QED
  BY <1>1 DEF Init, PC!Init

\* A draw adds to the frame, an update shows it, all else is not to be seen.
LEMMA PictureStep == CanvasInv /\ [Next]_vars =>
                       [PC!Next]_<<[k \in DOMAIN scene |-> [object |-> scene[k].object, look |-> scene[k].look]], screen>>
<1> SUFFICES ASSUME CanvasInv, [Next]_vars PROVE [PC!Next]_<<Plain(scene), screen>>
  BY DEF Plain
<1>1. scene \in Seq(Entry)
  BY DEF CanvasInv, Typed
<1>2. CASE Update
  <2>1. scene' = <<>> /\ screen' = [p \in Pixel |-> screen'[p]]
    BY <1>2 DEF Update, CanvasUpdate
  <2>2. \A p \in Pixel : screen'[p] = PC!Composite(Plain(scene), p)
    BY <1>1, <1>2, Shown, FrameColor
  <2>3. Plain(scene)' = <<>>
    BY <2>1 DEF Plain
  <2>4. screen' = [p \in Pixel |-> PC!Composite(Plain(scene), p)]
    BY <2>1, <2>2
  <2>5. PC!Show
    BY <2>3, <2>4 DEF PC!Show, Plain
  <2> QED
    BY <2>5 DEF PC!Next
<1>3. ASSUME NEW o \in Object, Draw(o) PROVE PC!Next
  <2> DEFINE e == [object |-> o, look |-> look[o], dirty |-> dirty[o]]
             a == [object |-> o, look |-> look[o]]
             n == Len(scene)
  <2>1. scene' = Append(scene, e) /\ screen' = screen /\ look[o] \in Look /\ e \in Entry
    BY <1>3 DEF Draw, CanvasDraw, canvas, CanvasInv, Typed, TypeOK, Entry
  <2>2. e.object = o /\ e.look = look[o]
    OBVIOUS
  <2> HIDE DEF e
  <2>3. /\ n \in Nat /\ DOMAIN scene = 1 .. n /\ DOMAIN scene' = 1 .. n + 1
        /\ \A k \in 1 .. n : scene'[k] = scene[k] /\ scene'[n + 1] = e
    BY <1>1, <2>1, Appended
  <2>4. scene'[n + 1] = e
    BY <1>1, <2>1, Appended
  <2>5. Plain(scene)' = Append(Plain(scene), a)
    <3> DEFINE s == Plain(scene)
               t == Plain(scene)'
    <3>1. s = [k \in 1 .. n |-> [object |-> scene[k].object, look |-> scene[k].look]]
      BY <2>3 DEF Plain
    <3>2. t = [k \in 1 .. n + 1 |-> [object |-> scene'[k].object, look |-> scene'[k].look]]
      BY <2>3 DEF Plain
    <3> HIDE DEF n, s, t
    <3>3. Append(s, a) = [k \in 1 .. n + 1 |-> IF k = n + 1 THEN a ELSE s[k]]
      <4>1. s \in Seq({s[k] : k \in 1 .. n}) /\ Len(s) = n
        BY <2>3, <3>1
      <4> QED
        BY <2>3, <3>1, <4>1
    <3>4. ASSUME NEW k \in 1 .. n + 1 PROVE t[k] = IF k = n + 1 THEN a ELSE s[k]
      <4>1. CASE k = n + 1
        BY <2>2, <2>3, <2>4, <3>2, <4>1
      <4>2. CASE k \in 1 .. n
        BY <2>3, <3>1, <3>2, <4>2
      <4> QED
        BY <2>3, <4>1, <4>2
    <3>5. t = Append(s, a)
      BY <3>2, <3>3, <3>4
    <3> QED
      BY <3>5 DEF s, t
  <2>6. PICK l \in Look : l = look[o]
    BY <2>1
  <2>7. PC!Draw(o, l)
    BY <2>1, <2>5, <2>6 DEF PC!Draw, Plain
  <2> QED
    BY <2>7 DEF PC!Next
<1>4. ASSUME NEW o \in Object, Change(o) PROVE UNCHANGED <<Plain(scene), screen>>
  BY <1>4 DEF Change, canvas, Plain
<1>5. CASE Redraw
  BY <1>5 DEF Redraw, CanvasRedraw, Plain
<1>6. CASE UNCHANGED vars
  BY <1>6 DEF vars, canvas, Plain
<1> QED
  BY <1>2, <1>3, <1>4, <1>5, <1>6 DEF Next

\* canvas_update shows the frame that was drawn, although it repaints only the
\* blocks whose count changed or that a marked object touches.
THEOREM PictureShown == Spec => ImplementsPicture
<1>1. Spec => []CanvasInv
  BY CanvasInit, CanvasInvNext, PTL DEF Spec
<1> QED
  BY <1>1, PictureInit, PictureStep, PTL DEF Spec, ImplementsPicture, PC!Spec, PC!vars
=============================================================================
