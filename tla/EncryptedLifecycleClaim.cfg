CHECK_DEADLOCK FALSE
SPECIFICATION FairSpec
CONSTANTS
  Callers = {c1}
  Artifacts = {a1, a2}
  Reasons = {r1}
  Source = source
  None = None
  MaxCrashes = 0
PROPERTY ForgetCompletes
