CONSTANTS
  f1 = f1
  f2 = f2
  top = top
  sub = sub
  None = None
  File = {f1, f2}
  Size <- MCSize
  Selections <- MCSelections
  Actions = {"delete"}
  Dir = {top, sub}
  Targets = {top}
  Root = top
  Socket = {s1, s2}
  MaxLosses = 1
  MaxLate = 1
  MaxRequests = 1
  LateAnswers = TRUE
  ReadFails = TRUE
SPECIFICATION Spec
CHECK_DEADLOCK FALSE
PROPERTIES ReportedIsStored
