CONSTANTS
  i1 = i1
  i2 = i2
  i3 = i3
  i4 = i4
  i5 = i5
  Inodes <- Files
  NoFile = NoFile
  Scores = {0, 7, 12}
  DiskFaults = FALSE
SPECIFICATION Spec
SYMMETRY AnyFile
INVARIANTS
  TypeOK
PROPERTIES
  SafeNeverFalls
  ImplementsRegister
