SPECIFICATION Spec
CONSTANTS
  Callers = {c1, c2}
  Artifacts = {a}
  Floors = {f, g}
  Attempts = {t1, t2}
  Genesis = genesis
  None = none
  MaxGen = 3
PROPERTY FloorForwardOnly
