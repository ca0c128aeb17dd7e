CONSTANTS
  Threads = {t1, t2}
  Creators = {t1}
  OpenTypes <- AllTypes
  MapTypes <- ReadWrite
  Paging <- PageOut
  Handles = {f1, f2, f3}
  MaxKnown = 2
  MaxUses = 2
  NoOne = NoOne
SPECIFICATION Spec
CHECK_DEADLOCK FALSE
INVARIANT NoPanic
