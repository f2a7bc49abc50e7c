SPECIFICATION Spec
CONSTANTS
  s1 = s1
  s2 = s2
  Sessions = {s1}
  Commands = {"rerun", "reminder", "platform"}
  MaxRuns = 2
  MaxStops = 1
  Cap = 1
INVARIANT TypeOK
PROPERTY NeverForgotten
CHECK_DEADLOCK FALSE
