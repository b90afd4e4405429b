------------------------------- MODULE Player -------------------------------
(***************************************************************************)
(* The dinosaur (src/domain/player.{h,cpp}): vertical physics, pose and    *)
(* boxes.  Positions are whole pixels: every FixedPoint of the game is     *)
(* built by from_pixels and only added or subtracted, so the fraction of   *)
(* the 16.16 representation is always zero.  The y axis points down.       *)
(***************************************************************************)
EXTENDS Geometry

CONSTANTS
  GroundY,     \* y of the ground line, where the feet rest (520)
  JumpSpeed,   \* upward speed a jump starts with (22)
  Gravity,     \* added to the downward velocity each frame (3)
  PlayerX,     \* left edge of the sprite (50)
  StandSize,   \* [w, h] of every pose but ducking (44 x 48)
  DuckSize,    \* [w, h] while ducking (56 x 28)
  HitboxInset  \* margin removed from every sprite for collisions (3)

Size == [w : Nat, h : Nat]

ASSUME PlayerAssumption ==
  /\ GroundY \in Int /\ PlayerX \in Nat
  /\ JumpSpeed \in Nat \ {0} /\ Gravity \in Nat \ {0}
  /\ StandSize \in Size /\ DuckSize \in Size
  /\ HitboxInset \in Nat

Poses == {"Running", "Jumping", "Ducking", "Crashed"}

Players == [y : Int, vy : Int, pose : Poses, leg : {0, 1}]

\* A player just constructed or reset.
NewPlayer == [y |-> GroundY, vy |-> 0, pose |-> "Running", leg |-> 0]

IsOnGround(p) == p.y >= GroundY /\ p.vy >= 0

-----------------------------------------------------------------------------
\* Commands.  A crashed player ignores them, and so does an airborne one.

Obeys(p) == p.pose # "Crashed" /\ IsOnGround(p)

\* Mutant: the jump is not refused in the air.
JumpAnywhere(p) ==
  IF p.pose # "Crashed" THEN [p EXCEPT !.vy = -JumpSpeed, !.pose = "Jumping"] ELSE p

Jump(p) ==
  IF Obeys(p) THEN [p EXCEPT !.vy = -JumpSpeed, !.pose = "Jumping"] ELSE p

\* Mutant: the duck is not refused in the air.
DuckAnywhere(p) ==
  IF p.pose # "Crashed" THEN [p EXCEPT !.pose = "Ducking"] ELSE p

Duck(p) ==
  IF Obeys(p) THEN [p EXCEPT !.pose = "Ducking"] ELSE p

Stand(p) ==
  IF Obeys(p) THEN [p EXCEPT !.pose = "Running"] ELSE p

Crash(p) == [p EXCEPT !.pose = "Crashed"]

-----------------------------------------------------------------------------
\* One frame of physics: integrate, then clamp to the ground.

Fallen(p) ==
  LET y  == p.y + p.vy
      vy == p.vy + Gravity
  IN  IF y >= GroundY THEN [p EXCEPT !.y = GroundY, !.vy = 0]
                      ELSE [p EXCEPT !.y = y, !.vy = vy]

UpdatePlayer(p) ==
  IF p.pose = "Crashed" THEN p
  ELSE LET moved == [Fallen(p) EXCEPT !.leg = 1 - p.leg]
       IN  IF IsOnGround(moved) /\ moved.pose = "Jumping"
           THEN [moved EXCEPT !.pose = "Running"]
           ELSE moved

-----------------------------------------------------------------------------

PlayerSize(p) == IF p.pose = "Ducking" THEN DuckSize ELSE StandSize

PlayerBox(p) ==
  [x |-> PlayerX, y |-> p.y - PlayerSize(p).h,
   w |-> PlayerSize(p).w, h |-> PlayerSize(p).h]

PlayerHitbox(p) == Inset(PlayerBox(p), HitboxInset)

=============================================================================
