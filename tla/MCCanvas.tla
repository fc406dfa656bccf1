------------------------------ MODULE MCCanvas ------------------------------
(***************************************************************************)
(* A canvas of two by two blocks and two objects of different colors that  *)
(* are inside a block, across blocks, partly or wholly off the canvas, or  *)
(* empty.                                                                  *)
(***************************************************************************)
EXTENDS Canvas

Box(x, y, w, h, color) == [x |-> x, y |-> y, w |-> w, h |-> h, color |-> color]

\* In a block, across a corner, off the top left by one, off the canvas, empty.
SomeLooks ==
  {Box(0, 0, 2, 1, 1), Box(1, 1, 2, 2, 2), Box(-1, 0, 2, 2, 1), Box(2, 0, 1, 4, 2),
   Box(4, 0, 1, 1, 1), Box(0, 0, 0, 2, 1)}
=============================================================================
