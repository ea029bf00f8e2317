\* The shell exits, the client leaves and a shutdown comes at any point.
SPECIFICATION FairSpec
INVARIANTS NothingLeft
PROPERTIES ClientTold SessionIsOver
CONSTANTS
  InCap = 1
  MaxOut = 2
  Dim <- MCDim
  MaxCols = 2
  MaxRows = 1
CHECK_DEADLOCK FALSE
