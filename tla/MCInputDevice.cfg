CONSTANTS
  KeysOf <- ThreeNodes
  HeldFirst <- DownFirst
  QueueSize = 2
  MaxEvents = 5
SPECIFICATION Spec
INVARIANTS
  TypeOK
  NoStuckDuck
  PressIsSeen
  JumpsArePresses
CHECK_DEADLOCK FALSE
