\* The password database edited while the service starts and reloads; a
\* session nobody logs out of.
SPECIFICATION FairSpec
CONSTANTS
  Credential = {c1}
  Token = {t1}
  Request = {r1}
  Editor = {e1, e2}
  MaxTokens = 1
  Validity = 1
  Burst = 1
  MaxTime = 2
  MaxStarts = 2
  MaxEdits = 2
  None = None
PROPERTIES StaleIsReplaced
CHECK_DEADLOCK FALSE
