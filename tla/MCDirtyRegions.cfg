CONSTANTS
  Boxes <- SomeBoxes
  MaxRegions = 4
  Margin = 2
  Canvas <- SmallScreen
SPECIFICATION Spec
INVARIANTS
  TypeOK
  DamageIsCovered
  RegionsAreTight
