SPECIFICATION Spec
CONSTANTS
  Keep = 2
  Interval = 1
  Base = 2
  ShortNames = 8
  Kinds = {"periodic"}
  MaxTurn = 4
  MaxSaves = 5
  MaxRuns = 2
  MaxCrashes = 0
  MaxFailures = 0
INVARIANT Recoverable
CHECK_DEADLOCK FALSE
