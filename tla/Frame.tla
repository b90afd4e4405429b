------------------------------- MODULE Frame -------------------------------
(***************************************************************************)
(* The decisions of a frame that depend on nothing but their arguments:    *)
(* what the input does to the player (src/game/game_engine.cpp), when and  *)
(* what the spawner may place (obstacle_spawner.cpp), and the collision    *)
(* test (collision_detector.cpp).  GameEngine composes them with the state *)
(* of a game, Course with all ways to play at once.                        *)
(***************************************************************************)
EXTENDS Player, Collections

CONSTANTS
  ScreenWidth,   \* where obstacles and clouds enter (600)
  PteroMinScore, \* no pterodactyls below this score (300)
  MinGap,        \* MIN_SPAWN_GAP_PIXELS (220)
  MaxGap,        \* MAX_SPAWN_GAP_PIXELS (450)
  Gaps           \* the gaps that are drawn, all in MinGap..MaxGap

ASSUME FrameAssumption ==
  /\ ScreenWidth \in Nat /\ PteroMinScore \in Nat
  /\ MinGap \in Nat /\ MaxGap \in Nat /\ MinGap <= MaxGap
  /\ Gaps \subseteq MinGap..MaxGap

\* apply_input_commands.
ApplyInput(p, input) ==
  LET jumped == IF input.jump THEN Jump(p) ELSE p
  IN  IF input.duck THEN Duck(jumped) ELSE Stand(jumped)

\* CollisionDetector::has_collision.
HasCollision(p, obs) ==
  \E i \in DOMAIN obs :
    Intersects(PlayerHitbox(p), ObstacleHitbox(obs[i], HitboxInset))

\* ObstacleSpawner::select_obstacle_type: what its roll can select.
Selectable(points) ==
  IF points < PteroMinScore THEN GroundKinds ELSE ObstacleKinds

\* Mutant: the gap is measured from the first obstacle.
RoomForObstacleFirst(obs, gap) ==
  /\ ~IsFull(obs, ObstacleCapacity)
  /\ obs # << >> => obs[1].x <= ScreenWidth - gap

\* The guards of maybe_spawn_obstacle.
RoomForObstacle(obs, gap) ==
  /\ ~IsFull(obs, ObstacleCapacity)
  /\ obs # << >> => obs[Len(obs)].x <= ScreenWidth - gap

=============================================================================
