\* Each client uploads to its own path; uploads are cancelled, expire, are retried;
\* files are renamed, deleted and replaced by folders between uploads, and between the
\* Stat and the Create of one.
SPECIFICATION Spec
CONSTANTS
  c1 = c1
  c2 = c2
  p1 = p1
  p2 = p2
  Conn = {c1, c2}
  Path = {p1, p2}
  Home <- OwnPaths
  Capacity = 2
  Size = {0, 2}
  MaxBlocks = 2
  MaxUploads = 2
  MayStall = FALSE
  FileOps = {p1, p2}
  MayMeddle = "early"
  None = None
  Folder = Folder
  Sweeper = Sweeper
PROPERTIES SuccessMeansStored
CHECK_DEADLOCK FALSE
