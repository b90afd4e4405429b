CONSTANTS
  GroundY = 520
  JumpSpeed = 22
  Gravity = 3
  PlayerX = 50
  StandSize <- RealStand
  DuckSize <- RealDuck
  HitboxInset = 3
  Sprite <- RealSprite
  ObstacleCapacity = 16
  CloudCapacity = 6
  PixelsPerPoint = 10
  PixelLimit = 32768
  BaseSpeed = 8
  MaxSpeed = 18
  SpeedStepScore = 100
  MilestoneInterval = 700
  GroundRepeat = 600
  ScreenWidth = 600
  PteroMinScore = 300
  MinGap = 220
  MaxGap = 450
  Gaps = {220, 450}
  Levels = {700}
  Passed = {}
SPECIFICATION Spec
INVARIANT
  Survivable
