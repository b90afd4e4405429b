CONSTANTS
  MaxSignals = 3
SPECIFICATION Spec
INVARIANTS
  TypeOK
  KindleIsRestored
  SignalsAreOrderly
  AloneUnlessDisturbed
PROPERTIES
  StopsWhenTold
