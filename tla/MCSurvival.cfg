CONSTANTS
  GroundY = 20
  JumpSpeed = 4
  Gravity = 2
  PlayerX = 2
  StandSize <- SmallStand
  DuckSize <- SmallDuck
  HitboxInset = 1
  Sprite <- SmallSprite
  ObstacleCapacity = 4
  CloudCapacity = 1
  PixelsPerPoint = 2
  PixelLimit = 8
  BaseSpeed = 1
  MaxSpeed = 3
  SpeedStepScore = 2
  MilestoneInterval = 6
  GroundRepeat = 6
  ScreenWidth = 18
  CloudSpeed = 1
  PteroMinScore = 6
  MinGap = 8
  MaxGap = 9
  Gaps = {8, 9}
  CloudRolls = {0, 1}
  Inputs <- PlayInputs
  StoredHighs = {0, 7}
  MaxPoints = 14
SPECIFICATION SurvivalSpec
INVARIANTS
  TypeOK
  PoseMatchesMotion
  ObstaclesSpaced
  NeverFull
  NightFollowsMilestones
  ScrollAgrees
  PlayerIsSurvivor
PROPERTIES
  HighIsBest
  NoTunnelling
  ImplementsSession
  RunsAreCourses
CHECK_DEADLOCK FALSE
