--------------------------- MODULE MCApplication ---------------------------
(***************************************************************************)
(* Constants for model checking Application: a screen of one row and four  *)
(* pixels, that is two bytes of the framebuffer, and two pictures that     *)
(* differ in a pixel of each byte.                                         *)
(***************************************************************************)
EXTENDS Application

Row(a, b, c, d) ==
  [px \in Pixels |-> CASE px[1] = 0 -> a [] px[1] = 1 -> b
                       [] px[1] = 2 -> c [] px[1] = 3 -> d]

White == Row(0, 0, 0, 0)
Black == Row(1, 1, 1, 1)

\* A sprite of one pixel that moves from one byte to the next.
SomeScenes == {Row(0, 1, 0, 0), Row(0, 0, 1, 0)}

OldPanel == {Black}

NoLimitOrOne == {-1, 1}

=============================================================================
