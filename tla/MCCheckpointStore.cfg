SPECIFICATION Spec
CONSTANTS
  Keep = 2
  Interval = 1
  Base = 2
  ShortNames = 4
  Kinds = {"periodic", "stop"}
  MaxTurn = 7
  MaxSaves = 7
  MaxRuns = 1
  MaxCrashes = 3
  MaxFailures = 1
INVARIANTS TypeOK Recoverable ResumeOffered
CHECK_DEADLOCK FALSE
