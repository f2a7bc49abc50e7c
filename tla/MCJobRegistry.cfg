CONSTANTS
  s1 = s1
  s2 = s2
  Sessions = {s1, s2}
  MaxSeq = 1
  MaxChunks = 2
  OutputCap = 1
SPECIFICATION FairSpec
CHECK_DEADLOCK FALSE
INVARIANTS TypeOK AnnouncedOnce StopIsHonest OutputConserved
PROPERTIES LifecycleSpec EveryEndIsAnnounced
