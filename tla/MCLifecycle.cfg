SPECIFICATION MCSpec
CONSTANTS
  Callers = {c1, c2}
  Artifacts = {a1, a2}
  Reasons = {r1}
  Source = source
  None = None
  MaxCrashes = 1
  FloorArtifacts = {"a"}
  Floors = {"f", "g"}
  Attempts = {"t", "u"}
  Genesis = "genesis"
  MaxGen = 3
  Nonces = {"n"}
  MaxHistory = 2
  MaxEpoch = 1
  MaxLeaves = 5
  MaxPath = 3
  Depth = 2
SYMMETRY Symmetry
INVARIANTS PhaseIsTrue   ProofsAreSound
 
\* Everything may be forgotten, and a proof is checked once: then nothing is
\* left to do.
CHECK_DEADLOCK FALSE
