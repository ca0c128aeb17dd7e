CONSTANTS
  Threads = {t1, t2}
  Creators = {t1}
  OpenTypes <- AllTypes
  MapTypes <- ReadWrite
  Paging <- PageOut
  Handles = {f1, f2, f3}
  MaxKnown = 2
  MaxUses = 2
  NoOne = NoOne
SPECIFICATION VnodesGoSpec
CHECK_DEADLOCK FALSE
INVARIANTS TypeOK OneReleasePerOpen InUseIsOpen NeverOverForgotten
PROPERTY UnusedReleased
