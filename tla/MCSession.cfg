CONSTANTS
  Daemons = {d1, d2}
  Helpers = {h1}
  Unmounter = um
  Unloader = k
  NoOne = NoOne
  MaxSessions = 2
  MaxMounts = 1
SPECIFICATION FairSpec
CHECK_DEADLOCK FALSE
INVARIANTS TypeOK NoUseAfterDestroy NoSessionLeak NothingOutlivesStop
PROPERTIES MountReturns SessionEnds
