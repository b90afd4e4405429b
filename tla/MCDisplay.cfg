CONSTANTS
  GroundY = 15
  JumpSpeed = 3
  Gravity = 2
  PlayerX = 1
  StandSize <- TinyStand
  DuckSize <- TinyDuck
  HitboxInset = 1
  Sprite <- TinySprite
  ObstacleCapacity = 4
  CloudCapacity = 1
  PixelsPerPoint = 2
  PixelLimit = 64
  BaseSpeed = 1
  MaxSpeed = 2
  SpeedStepScore = 5
  MilestoneInterval = 6
  GroundRepeat = 12
  ScreenWidth = 12
  CloudSpeed = 1
  PteroMinScore = 3
  MinGap = 8
  MaxGap = 9
  Gaps = {8}
  CloudRolls = {0}
  Inputs <- TinyInputs
  StoredHighs = {7}
  MaxPoints = 10
  FreezeFrames = 6
  Width = 12
  Height = 19
  Shades = {"White", "Black"}
  Glyph <- TinyGlyphs
  GlyphWidth = 1
  CharSpacing = 1
  SpriteMask <- TinyMasks
  Digit <- TinyDigits
  Bumps <- TinyBumps
  Layout <- TinyLayout
  Hint <- TinyHint
  DebugText <- TinyDebug
  Leftovers <- PlainScreens
SPECIFICATION DisplaySpec
INVARIANTS
  FramebufferShowsGame
  HudShowsScores
PROPERTY
  RestIsStill
CHECK_DEADLOCK FALSE
