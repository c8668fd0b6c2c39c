SPECIFICATION MCSpec
CONSTANTS
  None = None
  Holders = {h1, h2, h3}
  NoHolder = NoHolder
  TTL = 2
  MaxClock = 5
  MaxToken = 4
  Runs = {c1, c2}
  Generations = {g1, g2}
  RecordSets = {"a"}
  Optional = {"keyword"}
  Coordinators = {c1, c2}
  Items = {"k", "x"}
  Required = {"k"}
  SignedItems = {"k", "x"}
  MaxOverlays = 2
  WorkItems <- MCItems
  Workers = {c1, c2}
  MaxItems = 2
  MaxCost = 3
  PerWorkspace = 2
  MaxOperations = 1
  MaxAttempts = 2
  MaxTotal = 3
  Threshold = 1
  ResetAfter = 1
  MaxPressureClock = 3
  Callers = {c1, c2}
  CommandKeys = {"k"}
  Payloads = {"p", "q"}
  Objects = {"o"}
  Jobs = {"j"}
  MaxLevel = 1
  MaxGen = 2
  MaxAudit = 1
  Quota = 1
  Egress = 0
  Kinds = {"n"}
  KeyIds = {c1, c2}
  MaxVersion = 3
  MaxKeyTime = 1
SYMMETRY Symmetry
INVARIANTS TokensDistinct PointersAreServable  
   
PROPERTY LiveLeaseIsStable
\* A restored workspace, a spent budget or a full registry leaves nothing to do.
CHECK_DEADLOCK FALSE
