---------------------------- MODULE MCGameEngine ----------------------------
(***************************************************************************)
(* Constants for model checking GameEngine: the code's own numbers, and a  *)
(* small game in which much more happens in few frames.  The small game    *)
(* keeps every relation between the constants that the code's numbers      *)
(* have: the gap is wider than any sprite, the speed is capped below the   *)
(* hitbox widths, the ground repeats at a multiple of a point's pixels, a  *)
(* jump takes several frames, and a frame may bring no point, one or two.  *)
(***************************************************************************)
EXTENDS GameEngine

\* The sizes of the sprites, [w, h].
Dims(width, height) == [w |-> width, h |-> height]

SmallStand == Dims(5, 6)
SmallDuck  == Dims(6, 4)

RealStand == Dims(44, 48)
RealDuck  == Dims(56, 28)

SmallSprite ==
  [k \in Kinds |->
     CASE k = "SmallCactus"     -> [w |-> 4, h |-> 4, y |-> 16]
       [] k = "LargeCactus"     -> [w |-> 5, h |-> 6, y |-> 14]
       [] k = "PterodactylLow"  -> [w |-> 5, h |-> 4, y |-> 15]
       [] k = "PterodactylHigh" -> [w |-> 5, h |-> 4, y |-> 12]
       [] k = "Cloud"           -> [w |-> 3, h |-> 2, y |-> 0]]

AllInputs == [jump : BOOLEAN, duck : BOOLEAN, restart : BOOLEAN]

\* The code's own sprites; a cactus stands on the ground line.
RealSprite ==
  [k \in Kinds |->
     CASE k = "SmallCactus"     -> [w |-> 20, h |-> 36, y |-> 520 - 36]
       [] k = "LargeCactus"     -> [w |-> 32, h |-> 48, y |-> 520 - 48]
       [] k = "PterodactylLow"  -> [w |-> 42, h |-> 32, y |-> 485]
       [] k = "PterodactylHigh" -> [w |-> 42, h |-> 32, y |-> 455]
       [] k = "Cloud"           -> [w |-> 46, h |-> 14, y |-> 80]]

\* After a crash only restart matters and before one it does not, so the
\* two commands are offered with restart released or pressed alike.
PlayInputs == {i \in AllInputs : i.restart => ~i.jump /\ ~i.duck}

=============================================================================
