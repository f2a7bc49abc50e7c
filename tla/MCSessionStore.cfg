SPECIFICATION Spec
CONSTANTS
  Ids = {a, b}
  MaxBodies = 2
  MaxQueue = 1
  MaxForeign = 1
  MaxRestarts = 1
SYMMETRY Symmetry
INVARIANTS TypeOK SavedIsWritten DiskWhole
PROPERTY ReloadKeepsSaved
CHECK_DEADLOCK FALSE
