------------------------------- MODULE Course -------------------------------
(***************************************************************************)
(* Can every course be survived?  The engine of src/game/game_engine.cpp   *)
(* again, with the spawner as the adversary and, instead of one player,    *)
(* all that some sequence of commands has brought this far.  Obstacles do  *)
(* not depend on the player, so what the spawner makes of any sequence of  *)
(* rolls is one behaviour here, and it is survivable up to a frame exactly *)
(* when somebody is left.                                                  *)
(*                                                                         *)
(* The score decides over speed and kinds alone.  A course starts at any   *)
(* of the Levels with nothing on the screen, which hinders nobody, and the *)
(* score passes to the next level at any frame instead of after the pixels *)
(* it takes.                                                               *)
(***************************************************************************)
EXTENDS Frame, Scoring

CONSTANTS
  Levels,  \* scores, multiples of SpeedStepScore
  Passed   \* bound: the levels after which the course goes on at the next one

ASSUME CourseAssumption ==
  /\ Levels \subseteq Nat
  /\ \A level \in Passed : {level, level + SpeedStepScore} \subseteq Levels

VARIABLES
  points,    \* the level reached
  obstacles, \* ObstacleCollection
  nextGap,   \* ObstacleSpawner::next_gap_pixels_
  alive      \* every state the player can be in by now

vars == <<points, obstacles, nextGap, alive>>

Init ==
  /\ points \in Levels
  /\ obstacles = << >> /\ nextGap = MinGap
  /\ alive = {NewPlayer}

\* The commands of a frame.
Commands == [jump : BOOLEAN, duck : BOOLEAN]

\* Everybody moves in every way there is, and whoever collides is out.  The
\* leg is left out: nothing but a sprite depends on it.
Survivors(obs) ==
  LET commanded == {ApplyInput(p, command) : p \in alive, command \in Commands}
      moved     == {[UpdatePlayer(p) EXCEPT !.leg = 0] : p \in commanded}
  IN  {p \in moved : ~HasCollision(p, obs)}

\* The score reaches the next level, or not yet.
ReachLevel ==
  \/ UNCHANGED points
  \/ points \in Passed /\ points' = points + SpeedStepScore

\* A frame of play: update_movement and check_collisions, then the spawner,
\* then the score.
PlayFrame ==
  LET moved == PruneOffScreen(UpdateAll(obstacles, CalculateSpeed(points)))
  IN  /\ alive' = Survivors(moved)
      /\ IF RoomForObstacle(moved, nextGap)
         THEN \E kind \in Selectable(points), gap \in Gaps :
                /\ obstacles' = Add(moved, [kind |-> kind, x |-> ScreenWidth],
                                    ObstacleCapacity)
                /\ nextGap' = gap
         ELSE obstacles' = moved /\ UNCHANGED nextGap
      /\ ReachLevel

Next == PlayFrame

Spec == Init /\ [][Next]_vars

-----------------------------------------------------------------------------

\* The spacing the spawner enforces leaves a way through every course: no
\* sequence of kinds and gaps kills whatever is done (obstacle_spawner.cpp:
\* 31-50, docs/game-mechanics.md:75).
Survivable == alive # {}

=============================================================================
