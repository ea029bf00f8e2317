\* Concurrent calls and a client that comes, falls silent and goes, while the counter wraps.
SPECIFICATION FairSpec
CONSTANTS
  Client = {w1}
  Caller = {k1, k2}
  Buffer = 2
  IdMod = 6
  FirstId = 4
  Replaced = {5}
  MaxMessages = 3
  None = None
INVARIANTS FreshIds DeliversInOrder
PROPERTIES NotifyReturns DeadForgotten
CHECK_DEADLOCK FALSE
