------------------------------ MODULE Scoring ------------------------------
(***************************************************************************)
(* Distance, points, speed, ground scroll and the day/night theme:         *)
(* src/domain/score.{h,cpp}, theme.h, ground.cpp and src/game/             *)
(* game_rules.{h,cpp}.                                                     *)
(***************************************************************************)
EXTENDS Integers

CONSTANTS
  PixelsPerPoint,    \* DISTANCE_PER_SCORE_PIXELS (10)
  PixelLimit,        \* a 16.16 FixedPoint holds fewer pixels than this (32768)
  BaseSpeed,         \* pixels per frame at zero points (8)
  MaxSpeed,          \* the speed never exceeds this (18)
  SpeedStepScore,    \* points per extra pixel of speed (100)
  MilestoneInterval, \* points between two day/night flips (700)
  GroundRepeat       \* PATTERN_REPEAT_WIDTH (600)

ASSUME ScoringAssumption ==
  /\ PixelsPerPoint \in Nat \ {0} /\ PixelLimit \in Nat \ {0}
  /\ BaseSpeed \in Nat \ {0} /\ MaxSpeed \in Nat /\ BaseSpeed <= MaxSpeed
  /\ SpeedStepScore \in Nat \ {0}
  /\ MilestoneInterval \in Nat \ {0}
  /\ GroundRepeat \in Nat \ {0} /\ MaxSpeed <= GroundRepeat

\* current and high are the ScoreBoard; remainder and accumulated (in
\* pixels) are the DistanceTracker.
Scores == [current : Nat, high : Nat, remainder : Nat, accumulated : Int]

\* The scores of a fresh game to which a stored high score has been given.
NewScore(high) == [current |-> 0, high |-> high, remainder |-> 0, accumulated |-> 0]

Themes == [night : BOOLEAN, milestone : BOOLEAN]

NewTheme == [night |-> FALSE, milestone |-> FALSE]

-----------------------------------------------------------------------------

\* Mutant: the cap is forgotten.
UncappedSpeed(points) == BaseSpeed + points \div SpeedStepScore

CalculateSpeed(points) ==
  LET wanted == BaseSpeed + points \div SpeedStepScore
  IN  IF wanted < MaxSpeed THEN wanted ELSE MaxSpeed

\* ScoreBoard::add_points.
AddPoints(s, delta) ==
  LET current == s.current + delta
  IN  [s EXCEPT !.current = current,
                !.high = IF current > @ THEN current ELSE @]

\* ScoreBoard::set_high, through which the stored high score enters.
SetHigh(s, high) == [s EXCEPT !.high = IF high > @ THEN high ELSE @]

\* DistanceValue::advance: an addition of 32-bit FixedPoints, in whole
\* pixels.  Overflow is undefined in C++; the addition the compilers emit
\* wraps around.
Advance(distance, speed) ==
  LET sum == distance + speed
  IN  IF sum < PixelLimit THEN sum ELSE sum - 2 * PixelLimit

\* Mutant: the leftover pixels are dropped instead of carried over.
UpdateScoreDropping(s, speed) ==
  LET pixels == s.remainder + speed
  IN  AddPoints([s EXCEPT !.remainder = IF pixels < PixelsPerPoint THEN pixels ELSE 0,
                          !.accumulated = Advance(@, speed)],
                pixels \div PixelsPerPoint)

\* Score::update: the distance tracker turns whole stretches of
\* PixelsPerPoint into points and keeps the rest.
UpdateScore(s, speed) ==
  LET pixels == s.remainder + speed
  IN  AddPoints([s EXCEPT !.remainder = pixels % PixelsPerPoint,
                          !.accumulated = Advance(@, speed)],
                pixels \div PixelsPerPoint)

\* Mutant: the high score is cleared as well.
ResetScoreAll(s) == NewScore(0)

\* Score::reset keeps the high score.
ResetScore(s) == NewScore(s.high)

-----------------------------------------------------------------------------

\* Mutant: the flip happens when the points are a multiple of the interval,
\* which is what ScoreValue::has_reached_milestone tests.
CheckMilestoneOnMultiple(t, oldPoints, points) ==
  LET crossed == points > 0 /\ points % MilestoneInterval = 0
  IN  [night |-> IF crossed THEN ~t.night ELSE t.night, milestone |-> crossed]

\* GameEngine::check_milestone: one frame's points cross a multiple of the
\* interval; otherwise the flag of the previous crossing is cleared.
CheckMilestone(t, oldPoints, points) ==
  LET crossed == /\ points \div MilestoneInterval > oldPoints \div MilestoneInterval
                 /\ points > 0
  IN  [night |-> IF crossed THEN ~t.night ELSE t.night, milestone |-> crossed]

\* Ground::update: the offset wraps by subtraction, at most once a frame.
ScrollGround(offset, speed) ==
  LET moved == offset + speed
  IN  IF moved >= GroundRepeat THEN moved - GroundRepeat ELSE moved

=============================================================================
