CONSTANTS
  MaxGain = 1
  Interval = 1
  Highs = {0}
  FreezeFrames = 2
  Width = 4
  Height = 1
  Shades = {0, 1}
  Limits <- NoLimitOrOne
  Scenes <- SomeScenes
  Leftovers <- OldPanel
  Blank <- White
  MaxPoints = 2
SPECIFICATION FairSpec
INVARIANTS
  TypeOK
  PanelShowsFrame
  SavedBeforeShown
  CrashesAreCleared
  StopsWithinFrame
PROPERTIES
  RecordNeverFalls
  NoGhostRestart
  ComesToEnd
