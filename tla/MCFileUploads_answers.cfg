\* The table has room for one upload, and two clients upload: one evicts the other.
\* Entries may expire at any time, even while a block of theirs is being written.
\* Every message is answered and every upload ends, empty files included; the
\* uploads implement FileStore.
SPECIFICATION FairSpec
CONSTANTS
  c1 = c1
  c2 = c2
  p1 = p1
  p2 = p2
  Conn = {c1, c2}
  Path = {p1, p2}
  Home <- OwnPaths
  Capacity = 1
  Size = {0, 1}
  MaxBlocks = 2
  MaxUploads = 2
  MayStall = TRUE
  FileOps = {}
  MayMeddle = "no"
  None = None
  Folder = Folder
  Sweeper = Sweeper
INVARIANTS DescriptorsKept
PROPERTIES StoreRefined NothingHangs
CHECK_DEADLOCK FALSE
