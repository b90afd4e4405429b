--------------------------- MODULE MCDirtyRegions ---------------------------
(***************************************************************************)
(* Constants for model checking DirtyRegions: boxes of which, with their   *)
(* margins, some overlap, some touch, one bridges two others, one is empty *)
(* and one sticks out of the screen.                                       *)
(***************************************************************************)
EXTENDS DirtyRegions

B(x, y, w, h) == [x |-> x, y |-> y, w |-> w, h |-> h]

SomeBoxes == {B(0, 0, 2, 2), B(6, 0, 2, 2), B(3, 3, 2, 4), B(14, 1, 2, 2),
              B(1, 14, 3, 1), B(10, 13, 8, 8), B(7, 7, 0, 3)}

SmallScreen == B(0, 0, 16, 16)

=============================================================================
