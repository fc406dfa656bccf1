------------------------------ MODULE Picture ------------------------------
(***************************************************************************)
(* What the canvas of evilos promises, without blocks or dirty marks: the  *)
(* screen shows the objects of the last finished frame, those drawn first  *)
(* on top.                                                                 *)
(***************************************************************************)
EXTENDS Integers, Sequences

CONSTANTS Pixel,      \* the pixels of the canvas, pairs <<x, y>>
          Object,
          Look,       \* [x, y, w, h, color]
          Background

VARIABLES scene,  \* the frame that is being drawn: a sequence of [object, look]
          screen

vars == <<scene, screen>>

Covers(l, p) ==
  /\ p[1] \in l.x .. l.x + l.w - 1
  /\ p[2] \in l.y .. l.y + l.h - 1

\* What shows at pixel p of a frame s.
Composite(s, p) ==
  IF \E k \in DOMAIN s : Covers(s[k].look, p)
    THEN LET k == CHOOSE k \in DOMAIN s :
                    /\ Covers(s[k].look, p)
                    /\ \A i \in 1 .. k - 1 : ~Covers(s[i].look, p)
         IN s[k].look.color
    ELSE Background

Init == scene = <<>> /\ screen = [p \in Pixel |-> Background]

Draw(o, l) ==
  /\ scene' = Append(scene, [object |-> o, look |-> l])
  /\ UNCHANGED screen

Show ==
  /\ screen' = [p \in Pixel |-> Composite(scene, p)]
  /\ scene' = <<>>

Next == Show \/ \E o \in Object, l \in Look : Draw(o, l)

Spec == Init /\ [][Next]_vars
=============================================================================
