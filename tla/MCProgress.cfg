SPECIFICATION MCFairSpec
CONSTANTS
  w1 = w1  w2 = w2
  Mirrors = {w1, w2}
  MaxReleases = 3
  MaxFailures = 1
INVARIANT ProcessedIsPushed
PROPERTIES MirrorConverges OperationEnds RegisteredForgetCompletes
\* Everything may be forgotten, and an operation may be over: then nothing is
\* left to do.
CHECK_DEADLOCK FALSE
