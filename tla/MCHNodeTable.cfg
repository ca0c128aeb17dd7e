CONSTANTS
  Threads = {h1, h2, h3}
  Inodes = {i1}
  LastFork = 1
  Nodes = {n1, n2}
  Vnodes = {v1, v2}
  NULL = NULL
  MaxVid = 1
  BigLock = FALSE
SPECIFICATION Spec
SYMMETRY Symmetric
INVARIANTS TypeOK OneNodePerInode OneAttach CountIsExact
INVARIANTS NoDangling NoLeak RightVnode SleepersWillWake
