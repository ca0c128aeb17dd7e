CONSTANTS
  Threads = {h1, h2}
  LastNode = 4
  CrossDirectory = TRUE
  HardLinks = FALSE
SPECIFICATION Spec
SYMMETRY Symmetric
INVARIANTS ParentFirst
