CONSTANTS
  Threads = {h1, h2}
  LastNode = 3
  CrossDirectory = FALSE
  HardLinks = FALSE
SPECIFICATION FairSpec
INVARIANTS TypeOK NoLockCycle LocksAccountedFor
PROPERTY EveryOperationEnds
