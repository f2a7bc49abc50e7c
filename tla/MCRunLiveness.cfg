SPECIFICATION FairSpec
CONSTANTS
  s1 = s1
  s2 = s2
  Sessions = {s1}
  Commands = {"send"}
  MaxRuns = 2
  MaxStops = 1
  Cap = 1
PROPERTIES EveryRunPersists StopFreesSession
CHECK_DEADLOCK FALSE
