SPECIFICATION MCSpec
CONSTANTS
  Workers = {w1, w2}
  Operations = {o1}
  Contents = {x1}
  Stages = 2
  MaxAttempts = 2
  Lease = 1
  Deadline = 2
  MaxTime = 2
  MaxCrashes = 0
  Objects = {"x", "y"}
  Ops = {w1, w2}
  Shapes <- MCShapes
  Drafts <- MCDrafts
  Routes = {"live", "off", "missing"}
  MaxGen = 2
  Sensitivities = {0, 2}
  Limit = 1
  TokenCap = 1
  OpBudget = 2
  SpaceBudget = 2
SYMMETRY Symmetry
INVARIANTS StagesAreFenced 
PROPERTY OutcomeIsFinal
\* An operation that is over or a spent budget leaves nothing to do.
CHECK_DEADLOCK FALSE
