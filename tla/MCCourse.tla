------------------------------ MODULE MCCourse ------------------------------
(***************************************************************************)
(* The code's own numbers for Course.                                      *)
(***************************************************************************)
EXTENDS Course, FairGaps

RealStand == [w |-> 44, h |-> 48]
RealDuck  == [w |-> 56, h |-> 28]

RealSprite ==
  [k \in Kinds |->
     CASE k = "SmallCactus"     -> [w |-> 20, h |-> 36, y |-> 520 - 36]
       [] k = "LargeCactus"     -> [w |-> 32, h |-> 48, y |-> 520 - 48]
       [] k = "PterodactylLow"  -> [w |-> 42, h |-> 32, y |-> 485]
       [] k = "PterodactylHigh" -> [w |-> 42, h |-> 32, y |-> 455]
       [] k = "Cloud"           -> [w |-> 46, h |-> 14, y |-> 80]]

\* The gaps are wide enough for speeds up to 13, which is all below 600
\* points: whoever takes off in the first frame that finds the next obstacle
\* this close survives.  At speed 14 a jump is longer than a gap.
ASSUME JumpingSufficesBelow600 ==
  /\ JumpingSuffices(13, [k \in ObstacleKinds |-> IF k \in GroundKinds THEN 134 ELSE 142], 16)
  /\ CalculateSpeed(599) = 13
  /\ 16 * 14 > MinGap

=============================================================================
