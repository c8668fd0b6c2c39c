SPECIFICATION MCSpec
CONSTANTS
  Devices = {d1, d2}
  Grants = {"g"}
  Caps = {"c"}
  Threads = {t1, t2}
  MaxTime = 1
  Expiries = {1}
  Actions = {"approve", "reject"}
  MaxAudits = 4
  N = 3
  Preapproved = {1, 2, 3}
  PageSize = 2
  MaxCommands = 3
  MaxCursors = 1
  MaxLookback = 0
  Gates = {"credential", "egress", "source"}
  Entries = {"e", "f"}
  MaxAccessTime = 2
  MaxRevoke = 2
  MaxReceipts = 2
  MaxEpoch = 2
  Globals = {"g"}
  Scoped = {"s"}
  WallGap = "g"
  Edited = {"g", "s"}
  Untrusted = {"owner"}
  MaxReading = 2
  MaxBodies = 2
  MaxNow = 1
  Supporters = {"a", "b", "c"}
  Digests = {"i", "k"}
  Benchmark = {"i"}
  Holdout = {"h"}
  Routes = {"x", "y"}
  EnabledRoutes = {"x"}
  MaxEdges = 2
  MaxProposals = 1
  MaxProjections = 1
SYMMETRY Symmetry
INVARIANTS RecallIsTheCut RevocationReaches AccessIsEarned  WithdrawalReaches
  OperationIsAuthorized
\* The bounds on commands, bodies, receipts and time leave nothing to do.
CHECK_DEADLOCK FALSE
