CONSTANTS
  None = None
  Password = {right, wrong}
  Secrets = {None, right}
  Options <- MCOptions
  MaxLate = 1
SPECIFICATION FairSpec
CHECK_DEADLOCK FALSE
INVARIANTS OneAttempt DisplayAgrees ServicesHeld SilentOffline PageRenewed
PROPERTIES PasswordsKept Reconnects ServicesFlow
