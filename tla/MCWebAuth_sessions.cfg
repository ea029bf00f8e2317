\* Logins, logouts, expiry, cleanup and restart around a full store.
SPECIFICATION Spec
CONSTANTS
  Credential = {c1}
  Token = {t1, t2, t3}
  Request = {r1, r2}
  Editor = {}
  MaxTokens = 2
  Validity = 2
  Burst = 2
  MaxTime = 3
  MaxStarts = 2
  MaxEdits = 0
  None = None
SYMMETRY Interchangeable
INVARIANTS StoreBounded AuthExact
PROPERTIES AttemptsBounded RefusedOnlyWhenFull SessionsRefined
CHECK_DEADLOCK FALSE
