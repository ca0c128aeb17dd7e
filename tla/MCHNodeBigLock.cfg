CONSTANTS
  Threads = {h1, h2}
  Inodes = {i1}
  LastFork = 0
  Nodes = {n1, n2}
  Vnodes = {v1, v2}
  NULL = NULL
  MaxVid = 0
  BigLock = TRUE
SPECIFICATION FairSpec
PROPERTY AttachesEnd
\* The counterexample is a deadlock; the property names what it denies.
CHECK_DEADLOCK FALSE
