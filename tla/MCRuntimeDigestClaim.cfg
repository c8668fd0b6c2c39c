SPECIFICATION Spec
CONSTANTS
  Workers = {w1, w2}
  Operations = {o1}
  Contents = {x1}
  Stages = 2
  MaxAttempts = 2
  Lease = 1
  Deadline = 2
  MaxTime = 2
  MaxCrashes = 0
INVARIANTS InputDigestBinds
CHECK_DEADLOCK FALSE
