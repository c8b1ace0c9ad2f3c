SPECIFICATION Spec
CONSTANTS
  Calls = {c1, c2, c3}
  Files = {f1}
  LastSecond = 2
  MaxAtOnce = 2
  MaxStops = 1
  NoFile = NoFile
  Broken = Broken
SYMMETRY Symmetry
INVARIANTS
  TypeOK
  BackupsOfOneRunHold
  ReferencedFilesKept
PROPERTIES
  UndisturbedRunLeavesAPair
CHECK_DEADLOCK FALSE
