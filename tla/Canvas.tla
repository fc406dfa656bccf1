------------------------------- MODULE Canvas -------------------------------
(***************************************************************************)
(* The dirty-rectangle canvas of gui/canvas.c with the boxes of box.c.     *)
(*                                                                         *)
(* A frame is a number of canvas_draw calls and a canvas_update.  The      *)
(* canvas is cut into blocks of BW by BH pixels.  canvas_draw only enters  *)
(* the object into the pipeline of every block it touches; canvas_update   *)
(* repaints a block if an object of it is dirty or the number of objects   *)
(* in it has changed, and passes it to the flip function, which puts it on *)
(* the screen.                                                             *)
(*                                                                         *)
(* The pipelines grow as they need to (canvas_block_resize).  A look is    *)
(* the geometry and color of an object at its place: x is the argument of  *)
(* canvas_draw minus kx, y the same with ky.                               *)
(***************************************************************************)
EXTENDS Integers, Sequences, SequencesExt

CONSTANTS W, H,      \* the canvas, in pixels
          BW, BH,    \* CANVAS_BLOCK_WIDTH, CANVAS_BLOCK_HEIGHT
          PITCH,     \* the length of a line of the buffer, in pixels
          Object,    \* the objects of the client
          Look       \* the looks they take

ASSUME CanvasAssumption ==
  /\ W \in Nat \ {0} /\ H \in Nat \ {0} /\ BW \in Nat \ {0} /\ BH \in Nat \ {0}
  /\ PITCH \in Nat /\ PITCH >= W
  /\ Look \subseteq [x : Int, y : Int, w : Int, h : Int, color : Nat \ {0}]

VARIABLES look,        \* of each object
          dirty,       \* obj->dirty is not 0
          pipeline,    \* of each block: its nodes after node 0, which is flip
          total_last,  \* of each block
          screen,      \* what flip put on the screen
          overrun,     \* a write went beyond the lines of the buffer
          scene,       \* the draws of this frame, with their dirty marks
          last         \* the draws of the frame on the screen

canvas == <<pipeline, total_last, screen, overrun>>
vars == <<look, dirty, canvas, scene, last>>

CLEAR == 0
Pixel == (0 .. W - 1) \X (0 .. H - 1)

----------------------------------------------------------------------------
(* Blocks *)

CeilDiv(a, b) == (a + b - 1) \div b

block_w == CeilDiv(W, BW)
block_h == CeilDiv(H, BH)

Block == (0 .. block_w - 1) \X (0 .. block_h - 1)

BlockOf(p) == <<p[1] \div BW, p[2] \div BH>>

\* The offset in the buffer of column c and row r of block b.
Offset(b, c, r) == (b[2] * BH + r) * PITCH + b[1] * BW + c

\* draw_box stays within the block, and a block is painted as a whole.
Written(b) == {Offset(b, c, r) : c \in 0 .. BW - 1, r \in 0 .. BH - 1}

----------------------------------------------------------------------------
(* canvas_draw() *)

Empty(l) == l.w <= 0 \/ l.h <= 0

Right(l)  == l.x + l.w - 1
Bottom(l) == l.y + l.h - 1

OffCanvas(l) == l.x >= W \/ l.y >= H \/ Right(l) < 0 \/ Bottom(l) < 0

AtLeast0(n) == IF n < 0 THEN 0 ELSE n
AtMost(n, max) == IF n > max THEN max ELSE n

Touched(l) ==
  IF OffCanvas(l) THEN {}
  ELSE {b \in Block :
          /\ b[1] \in AtLeast0(l.x) \div BW .. AtMost(Right(l), W - 1) \div BW
          /\ b[2] \in AtLeast0(l.y) \div BH .. AtMost(Bottom(l), H - 1) \div BH}

Node(o, l, b) == [object |-> o, x |-> l.x - b[1] * BW, y |-> l.y - b[2] * BH]

\* total_last |= dirty, where DIRTY is ~0.
Marked(n, d) == IF d THEN -1 ELSE n

CanvasDraw(o) ==
  IF Empty(look[o])
    THEN UNCHANGED <<dirty, canvas>>
    ELSE /\ dirty' = [dirty EXCEPT ![o] = FALSE]
         /\ LET to == Touched(look[o]) IN
            /\ pipeline' = [b \in Block |->
                 IF b \in to THEN Append(pipeline[b], Node(o, look[o], b)) ELSE pipeline[b]]
            /\ total_last' = [b \in Block |->
                 IF b \in to THEN Marked(total_last[b], dirty[o]) ELSE total_last[b]]
         /\ UNCHANGED <<screen, overrun>>

----------------------------------------------------------------------------
(* canvas_update() *)

\* Mutant: the flip node is not counted.
total_object_mutant(b) == Len(pipeline[b])

total_object(b) == 1 + Len(pipeline[b])

\* Mutant: only a block with more objects than before is repainted.
Repainted_mutant(b) == total_object(b) > total_last[b]

Repainted(b) == total_object(b) # total_last[b]

\* draw_box covers column c and row r of the block of node n.
NodeCovers(n, c, r) ==
  /\ c \in n.x .. n.x + look[n.object].w - 1
  /\ r \in n.y .. n.y + look[n.object].h - 1

\* The nodes are drawn from the last to the first.
Painted(b, c, r) ==
  LET over == {k \in DOMAIN pipeline[b] : NodeCovers(pipeline[b][k], c, r)}
  IN IF over = {} THEN CLEAR ELSE look[pipeline[b][Min(over)].object].color

CanvasUpdate ==
  /\ screen' = [p \in Pixel |->
       IF Repainted(BlockOf(p)) THEN Painted(BlockOf(p), p[1] % BW, p[2] % BH) ELSE screen[p]]
  /\ overrun' = (overrun \/ \E b \in Block :
       Repainted(b) /\ ~(Written(b) \subseteq 0 .. H * PITCH - 1))
  /\ total_last' = [b \in Block |-> total_object(b)]
  /\ pipeline' = [b \in Block |-> <<>>]

CanvasRedraw ==
  /\ total_last' = [b \in Block |-> 0]
  /\ UNCHANGED <<pipeline, screen, overrun>>

----------------------------------------------------------------------------
(* The client: do_task3 and the box_draw it calls *)

Drawn == {scene[k].object : k \in DOMAIN scene}

\* Between frames an object changes and is marked DIRTY.
Change(o) ==
  /\ o \notin Drawn
  /\ \E l \in Look : look' = [look EXCEPT ![o] = l]
  /\ dirty' = [dirty EXCEPT ![o] = TRUE]
  /\ UNCHANGED <<canvas, scene, last>>

\* An object need not be marked if the last frame had it as it is, in the same
\* order among those that are not marked.
AsBefore(o) ==
  \E k \in DOMAIN last :
    /\ last[k].object = o
    /\ \A i \in DOMAIN scene : ~scene[i].dirty =>
         \E j \in 1 .. k - 1 : last[j].object = scene[i].object

Draw(o) ==
  /\ o \notin Drawn
  /\ dirty[o] \/ AsBefore(o)
  /\ scene' = Append(scene, [object |-> o, look |-> look[o], dirty |-> dirty[o]])
  /\ CanvasDraw(o)
  /\ UNCHANGED <<look, last>>

Update ==
  /\ CanvasUpdate
  /\ last' = scene
  /\ scene' = <<>>
  /\ UNCHANGED <<look, dirty>>

Redraw == CanvasRedraw /\ UNCHANGED <<look, dirty, scene, last>>

\* canvas_create: total_last is 0, so the first update paints every block.
Init ==
  /\ look \in [Object -> Look]
  /\ dirty = [o \in Object |-> TRUE]
  /\ pipeline = [b \in Block |-> <<>>]
  /\ total_last = [b \in Block |-> 0]
  /\ screen = [p \in Pixel |-> CLEAR]
  /\ overrun = FALSE
  /\ scene = <<>>
  /\ last = <<>>

Next == (\E o \in Object : Change(o) \/ Draw(o)) \/ Update \/ Redraw

Spec == Init /\ [][Next]_vars

----------------------------------------------------------------------------
(* Properties *)

\* Every variable has the type its C declaration intends (canvas.c).
TypeOK ==
  /\ look \in [Object -> Look]
  /\ dirty \in [Object -> BOOLEAN]
  /\ pipeline \in [Block -> Seq([object : Object, x : Int, y : Int])]
  /\ total_last \in [Block -> {-1} \union Nat]
  /\ screen \in [Pixel -> Nat]
  /\ overrun \in BOOLEAN

Touching(s, b) == {k \in DOMAIN s : ~Empty(s[k].look) /\ b \in Touched(s[k].look)}

\* The number a block is compared by is that of the objects it shows, unless
\* the block is to be repainted anyway: canvas_update can rely on it.
CountsShown ==
  \A b \in Block :
    \/ total_last[b] \in {-1, 0}
    \/ total_last[b] = 1 + Cardinality(Touching(last, b))

\* The clipping of canvas_draw, "clip to canvas", keeps every write inside the
\* buffer of gdi_create, H lines of PITCH pixels.
WithinBuffer == ~overrun

PC == INSTANCE Picture WITH
        Background <- CLEAR,
        scene <- [k \in DOMAIN scene |-> [object |-> scene[k].object, look |-> scene[k].look]]

\* With a client that marks what it changes, canvas_update shows the frame that
\* was drawn, although it repaints only some of the blocks.
ImplementsPicture == PC!Spec
=============================================================================
