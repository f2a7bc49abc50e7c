SPECIFICATION Spec
CONSTANTS
  N = 3
  Oai = {0}
  Native = {1}
  Width = 2
  Pieces = 3
  SendRetries = 1
  HopRetries = 2
  MaxErrors = 1
  Window = 1
  MaxTurns = 3
INVARIANTS TypeOK NoOutputTwice SpeculationFaithful ShownIsReturned
PROPERTY StickyFailover
CHECK_DEADLOCK FALSE
