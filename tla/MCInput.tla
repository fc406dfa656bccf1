------------------------------- MODULE MCInput -------------------------------
(***************************************************************************)
(* A keyboard with five keys and a mouse on a screen of 2 x 4 characters.  *)
(***************************************************************************)
EXTENDS Input, TLC

MCKeys == {"a", "enter", "back", "tab", "shift"}

MCKeyMap ==
  ("a" :> <<"a", "A">>) @@ ("enter" :> <<"newline", "newline">>) @@
  ("back" :> <<"back", "back">>) @@ ("tab" :> <<"tab", "tab">>)
=============================================================================
