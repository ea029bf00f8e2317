CONSTANTS
  None = None
  Password = {right, wrong}
  Secrets = {None, right}
  Options <- MCOptions
  MaxLate = 1
SPECIFICATION Spec
CHECK_DEADLOCK FALSE
INVARIANTS DialogIsAnswerable
