------------------------------ MODULE Survival ------------------------------
(***************************************************************************)
(* A game of GameEngine next to all other ways to play it: the history     *)
(* variable holds every state some sequence of commands could have brought *)
(* the player to by now, on the obstacles the spawner has laid.  It        *)
(* relates the engine to module Course, which looks at nothing else: what  *)
(* the engine does in a run is a course, and as long as the run lasts its  *)
(* player is one of the course's survivors.                                *)
(***************************************************************************)
EXTENDS GameEngine

\* Speed and kinds change with full steps of the score only, and no frame
\* passes more than one of them (300 is a multiple of 100; a frame brings
\* 2 points at most).
ASSUME LevelAssumption ==
  /\ PteroMinScore % SpeedStepScore = 0
  /\ (PixelsPerPoint - 1 + MaxSpeed) \div PixelsPerPoint <= SpeedStepScore

VARIABLE alive \* history: see above

survivalVars == <<vars, alive>>

\* The score's last full step.
Level == SpeedStepScore * (score.current \div SpeedStepScore)

AllLevels == {n \in Nat : n % SpeedStepScore = 0}

Run == INSTANCE Course WITH
  Levels <- AllLevels, Passed <- AllLevels, points <- Level

SurvivalInit == Init /\ alive = {NewPlayer}

\* A restart begins another course.
SurvivalNext ==
  /\ Next
  /\ alive' = IF ~gameOver THEN Run!Survivors(MovedObstacles)
              ELSE IF ~gameOver' THEN {NewPlayer} ELSE alive

SurvivalSpec == SurvivalInit /\ [][SurvivalNext]_survivalVars

-----------------------------------------------------------------------------
\* Properties.

\* Every frame of play is a step of a course, with or without godmode, and
\* every run begins as a course does: whatever is true of all courses is
\* true of the obstacles of every game (game_engine.cpp:20-44,
\* obstacle_spawner.cpp:10-50).
RunsAreCourses ==
  Run!Init /\ [][/\ ~gameOver /\ ~gameOver' => Run!Next
                 /\ gameOver /\ ~gameOver' => Run!Init']_survivalVars

\* The player of a run without godmode is among those whom the course lets
\* live, whatever commands brought it there; so where nobody is left, no
\* game goes on (collision_detector.cpp, game_engine.cpp:20-44).
PlayerIsSurvivor ==
  ~gameOver /\ ~godmode => [player EXCEPT !.leg = 0] \in alive

=============================================================================
