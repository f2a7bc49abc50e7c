SPECIFICATION Spec
CONSTANTS
  Calls = {"plain", "raw"}
  Batches = {{"plain", "raw"}}
  Raw = {"raw"}
  Texts = {FALSE}
  TailTurns = 2
  MinMessages = 4
  Interval = 2
  Lossy = FALSE
  MaxEvents = 5
  MaxRuns = 2
  MaxHints = 1
  MaxCompressions = 2
  MaxTrimmed = 1
  MaxCompacts = 1
  MaxCrashes = 1
  MaxRecoveries = 1
ACTION_CONSTRAINT FewSurprises
INVARIANTS TypeOK OaiPaired
PROPERTIES OnlyTrimsForget RecentKept CompactPairs
CHECK_DEADLOCK FALSE
