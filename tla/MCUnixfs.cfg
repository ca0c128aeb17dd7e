CONSTANTS
  Threads = {t1, t2}
  Inodes = {dir, file}
  Dirs = {dir}
  dir = dir
  file = file
  Entries <- MCEntries
  Unreadable = {dir, file}
  Cells = {c1, c2, c3, c4}
  Files = {h1}
  None = None
SPECIFICATION FairSpec
INVARIANTS
  TypeOK
  CellsAccountedFor
  RightInode
  UndefinedOnlyIfStranded
PROPERTIES
  RequestsEnd
