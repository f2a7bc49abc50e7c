SPECIFICATION FairSpec
CONSTANTS
  MaxTurns = 3
  MaxErrors = 1
  StuckAfter = 2
  RefuseAfter = 1
  MaxContinuations = 1
  MaxRefunds = 1
  AssertionRounds = 1
  Interval = 3
  Width = 2
  Keys = {"act", "read", "ask"}
  ReadOnly = {"read"}
  Questions = {"ask"}
ACTION_CONSTRAINT Narrow
INVARIANTS TypeOK SendBacksBounded StopSaved TriesBounded DefectsNoted
PROPERTY RunEnds
CHECK_DEADLOCK FALSE
