\* Three connections, room for two, with a shutdown at any point, which ends.
SPECIFICATION FairSpec
CONSTANTS
  f1 = f1
  n1 = n1
  t1 = t1
  Conn = {f1, n1, t1}
  Kind <- OneOfEach
  Max = 2
  None = None
INVARIANTS LimitRespected CountAgrees HandlersCounted
PROPERTIES ShutdownEnds
CHECK_DEADLOCK FALSE
