----------------------------- MODULE GameEngine -----------------------------
(***************************************************************************)
(* One fixed-step tick of the game: src/game/game_engine.{h,cpp} with the  *)
(* spawner (obstacle_spawner.cpp) and the collision test                   *)
(* (collision_detector.cpp).  GameEngine::step is called once per frame    *)
(* with the input of that frame; each early return of it is an action.     *)
(* The pseudo-random generator is replaced by a choice among the values    *)
(* it can return.                                                          *)
(***************************************************************************)
EXTENDS Frame, Scoring

CONSTANTS
  CloudSpeed,  \* pixels a cloud drifts per frame (1)
  CloudRolls,  \* the cloud rolls that are drawn, all in 0..40; 0 is a cloud
  Inputs,      \* the inputs a frame can bring
  StoredHighs, \* the high scores the store can have loaded
  MaxPoints    \* bound: no frame of play is taken at this score or above

ASSUME EngineAssumption ==
  /\ CloudSpeed \in Nat
  /\ CloudRolls \subseteq 0..40
  /\ Inputs \subseteq [jump : BOOLEAN, duck : BOOLEAN, restart : BOOLEAN]
  /\ StoredHighs \subseteq Nat /\ MaxPoints \in Nat

\* What makes the tick fine enough for the scores: the points of a frame
\* reach at most one milestone (at most 2 against 700), and the ground's
\* pattern repeats after whole points (600 of 10 pixels).
ASSUME PaceAssumption ==
  /\ (PixelsPerPoint - 1 + MaxSpeed) \div PixelsPerPoint <= MilestoneInterval
  /\ GroundRepeat % PixelsPerPoint = 0

\* What makes it fine enough for the collisions: no hitbox is empty, the
\* player's and an obstacle's together are wider than a frame's movement,
\* and an obstacle enters beyond the player.  And what keeps the collection
\* from filling: fewer gaps fit between an obstacle's entering and its
\* leaving than the collection has places.
ASSUME LayoutAssumption ==
  /\ \A size \in {StandSize, DuckSize} :
       /\ size.w > 2 * HitboxInset /\ size.h > 2 * HitboxInset
       /\ PlayerX + size.w <= ScreenWidth
  /\ \A kind \in ObstacleKinds :
       /\ Sprite[kind].w > 2 * HitboxInset /\ Sprite[kind].h > 2 * HitboxInset
       /\ \A size \in {StandSize, DuckSize} :
            MaxSpeed + 4 * HitboxInset < size.w + Sprite[kind].w
       /\ ScreenWidth + Sprite[kind].w < (ObstacleCapacity - 1) * MinGap

VARIABLES
  player,    \* the dinosaur
  obstacles, \* ObstacleCollection
  clouds,    \* CloudCollection
  ground,    \* scroll offset of the ground pattern
  nextGap,   \* ObstacleSpawner::next_gap_pixels_
  score,     \* ScoreBoard and DistanceTracker
  theme,     \* day or night, and the milestone flag
  gameOver,  \* EngineState::is_game_over_
  godmode,   \* EngineState::is_godmode_, set once at start-up
  startNight \* history: theme.night when the run under way began

world == <<player, obstacles, clouds, ground, nextGap>>
vars  == <<player, obstacles, clouds, ground, nextGap, score, theme, gameOver,
           godmode, startNight>>

Init ==
  /\ player = NewPlayer
  /\ obstacles = << >> /\ clouds = << >>
  /\ ground = 0 /\ nextGap = MinGap
  /\ \E high \in StoredHighs : score = SetHigh(NewScore(0), high)
  /\ theme = NewTheme
  /\ gameOver = FALSE /\ godmode \in BOOLEAN
  /\ startNight = FALSE

-----------------------------------------------------------------------------
\* The stages of a frame of play.

\* maybe_spawn_obstacle, on the collection the movement left.
SpawnObstacle(obs, points) ==
  IF RoomForObstacle(obs, nextGap)
  THEN \E kind \in Selectable(points), gap \in Gaps :
         /\ obstacles' = Add(obs, [kind |-> kind, x |-> ScreenWidth], ObstacleCapacity)
         /\ nextGap' = gap
  ELSE obstacles' = obs /\ UNCHANGED nextGap

\* maybe_spawn_cloud: a full collection draws no roll.
SpawnCloud(cs) ==
  IF IsFull(cs, CloudCapacity) THEN clouds' = cs
  ELSE \E roll \in CloudRolls :
         clouds' = IF roll = 0
                   THEN Add(cs, [kind |-> "Cloud", x |-> ScreenWidth], CloudCapacity)
                   ELSE cs

\* What update_movement makes of the world, given the frame's input.
Speed              == CalculateSpeed(score.current)
MovedPlayer(input) == UpdatePlayer(ApplyInput(player, input))
MovedObstacles     == PruneOffScreen(UpdateAll(obstacles, Speed))
MovedClouds        == PruneOffScreen(UpdateAll(clouds, CloudSpeed))

\* Mutant: the obstacles are tested against where the player was.
CollidesStale(input) == HasCollision(player, MovedObstacles)

Collides(input) == HasCollision(MovedPlayer(input), MovedObstacles)

-----------------------------------------------------------------------------
\* GameEngine::step.

\* The frame runs to the end of step: no collision, or godmode.
PlayFrame(input) ==
  /\ ~gameOver
  /\ score.current < MaxPoints
  /\ Collides(input) => godmode
  /\ player' = MovedPlayer(input)
  /\ SpawnObstacle(MovedObstacles, score.current)
  /\ SpawnCloud(MovedClouds)
  /\ ground' = ScrollGround(ground, Speed)
  /\ score' = UpdateScore(score, Speed)
  /\ theme' = CheckMilestone(theme, score.current, score'.current)
  /\ UNCHANGED <<gameOver, godmode, startNight>>

\* The frame ends in a crash: check_collisions, then the second early
\* return, before the spawner, the score and the theme.
CrashFrame(input) ==
  /\ ~gameOver
  /\ Collides(input) /\ ~godmode
  /\ player' = Crash(MovedPlayer(input))
  /\ obstacles' = MovedObstacles
  /\ clouds' = MovedClouds
  /\ ground' = ScrollGround(ground, Speed)
  /\ gameOver' = TRUE
  /\ UNCHANGED <<nextGap, score, theme, godmode, startNight>>

\* Mutant: the spawner's gap is zeroed.
RestartWithoutGap(input) ==
  /\ gameOver /\ input.restart
  /\ player' = NewPlayer
  /\ obstacles' = << >> /\ clouds' = << >>
  /\ ground' = 0 /\ nextGap' = 0
  /\ score' = ResetScore(score)
  /\ gameOver' = FALSE
  /\ startNight' = theme.night
  /\ UNCHANGED <<theme, godmode>>

\* restart(): everything but the theme, the high score and godmode.
Restart(input) ==
  /\ gameOver /\ input.restart
  /\ player' = NewPlayer
  /\ obstacles' = << >> /\ clouds' = << >>
  /\ ground' = 0 /\ nextGap' = MinGap
  /\ score' = ResetScore(score)
  /\ gameOver' = FALSE
  /\ startNight' = theme.night
  /\ UNCHANGED <<theme, godmode>>

\* Any other input after a crash is ignored.
StayOver(input) ==
  /\ gameOver /\ ~input.restart
  /\ UNCHANGED vars

Step(input) ==
  \/ PlayFrame(input)
  \/ CrashFrame(input)
  \/ Restart(input)
  \/ StayOver(input)

Next == \E input \in Inputs : Step(input)

Spec == Init /\ [][Next]_vars

-----------------------------------------------------------------------------
\* Invariants.

\* Every variable holds a value of its kind.
TypeOK ==
  /\ player \in Players
  /\ obstacles \in Seq(Obstacle)
  /\ clouds \in Seq(Cloud)
  /\ ground \in Nat /\ nextGap \in MinGap..MaxGap
  /\ score \in Scores /\ theme \in Themes
  /\ gameOver \in BOOLEAN /\ godmode \in BOOLEAN /\ startNight \in BOOLEAN

\* The pose tells where the player is.  Off the ground it is jumping, or it
\* crashed there; it never ducks in the air, however the jump, duck and
\* stand commands of the frames follow each other (player.cpp:47-91); and
\* it is crashed exactly when the engine says game over.
PoseMatchesMotion ==
  /\ ~IsOnGround(player) => player.pose \in {"Jumping", "Crashed"}
  /\ player.pose = "Jumping" => ~IsOnGround(player)
  /\ player.pose = "Crashed" <=> gameOver

\* The fairness gap: of any two obstacles on the screen the earlier one is
\* at least MinGap ahead, and the next one will not come closer either
\* (obstacle_spawner.cpp:31-50 measures only from the last one, and speed
\* changes and pruning happen in between).
ObstaclesSpaced ==
  \A i, j \in DOMAIN obstacles :
    i < j => obstacles[j].x - obstacles[i].x >= MinGap

\* The collection never fills, so maybe_spawn_obstacle's is_full return
\* and add's silent drop are never taken (obstacle_collection.cpp:14-20).
NeverFull == Len(obstacles) < ObstacleCapacity

\* A frame the player survives without godmode ends with its hitbox clear
\* of every obstacle, including the one that was just spawned.
SurvivorsAreClear ==
  ~gameOver /\ ~godmode => ~HasCollision(player, obstacles)

\* The palette is the one the run began with, flipped once for every
\* milestone passed: no milestone is skipped or counted twice, although a
\* frame can bring several points or none (game_engine.cpp:46-57).
NightFollowsMilestones ==
  theme.night <=>
    (startNight # ((score.current \div MilestoneInterval) % 2 = 1))

\* While a run lasts, the ground and the score have scrolled by the same
\* distance: what the ground's offset and the tracker's remainder leave
\* agree, and points and remainder make up the distance, as far as its 32
\* bits can tell.
ScrollAgrees ==
  LET pixels == score.current * PixelsPerPoint + score.remainder
  IN  /\ ~gameOver => ground % PixelsPerPoint = score.remainder
      /\ (pixels - score.accumulated) % (2 * PixelLimit) = 0
      /\ ground < GroundRepeat

\* The displayed high score is the best one seen: it never falls, restarts
\* and crashes included, and moves only to the points just reached.
HighIsBest ==
  [][/\ score'.high >= score.high
     /\ score'.high >= score'.current
     /\ score'.high # score.high => score'.high = score'.current]_vars

\* No obstacle passes the player between two frames without its hitbox
\* ever sharing a column with the player's: the tick is fine enough for
\* the collision test, at every speed.
Ahead(o, p) ==
  ObstacleHitbox(o, HitboxInset).x >= Right(PlayerHitbox(p))
Behind(o, p) ==
  Right(ObstacleHitbox(o, HitboxInset)) <= PlayerHitbox(p).x

NoTunnelling ==
  [][~gameOver =>
       \A i \in DOMAIN obstacles :
         Ahead(obstacles[i], player) =>
           ~Behind([obstacles[i] EXCEPT !.x = @ - Speed], player')]_vars

\* Every flight is the same arc, whatever commands come during it: height
\* and velocity stay on the parabola the jump began with (player.cpp:5-20,
\* and the refusals of jump, duck and stand off the ground).
JumpIsBallistic ==
  ~IsOnGround(player) =>
    2 * Gravity * (GroundY - player.y) =
      (player.vy + JumpSpeed) * (JumpSpeed + Gravity - player.vy)

-----------------------------------------------------------------------------
\* The engine implements the abstract session.

Session == INSTANCE GameSession WITH
  MaxGain <- (PixelsPerPoint - 1 + MaxSpeed) \div PixelsPerPoint,
  Interval <- MilestoneInterval,
  Highs <- StoredHighs,
  points <- score.current, high <- score.high,
  night <- theme.night, over <- gameOver

\* Every step of the engine is a step of the session or leaves it alone.
ImplementsSession == Session!SessionSpec

=============================================================================
