CONSTANTS
  KeysOf <- TwoNodes
  HeldFirst = {}
  QueueSize = 4
  MaxEvents = 4
SPECIFICATION Spec
INVARIANTS
  DuckWhileHeld
CHECK_DEADLOCK FALSE
