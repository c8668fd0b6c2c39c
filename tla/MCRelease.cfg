SPECIFICATION MCSpec
CONSTANTS
  Captures = {"c"}
  Exports = {"e"}
  Procs = {p1, p2}
  MaxTime = 2
  Window = 1
  MaxFiles = 1
  Samples = {"a", "b"}
  Failing = {"b"}
  ManifestKeys = {"k", "l"}
  MaxShadowTime = 1
  MaxRollbacks = 1
  MaxGap = 1
  MinSpan = 1
  MinSamples = 2
  MinPercent = 40
  MigrationSources = {p1, p2}
  MaxScope = 2
  Drills = {"route"}
  Foundations = {"f"}
  MinDays = 1
  MaxDay = 2
  MaxDecisions = 1
  Exporters = {p1, p2}
  Importers = {p1, p2}
  ImportCohorts = {"c"}
  Fixtures = {"f", "g"}
  Deleting = {"g"}
  Rows = 2
  MaxRecords = 2
  MaxPackages = 2
  MaxEdits = 1
  Sources = {"a", "b"}
  Registered = {"a", "b"}
  Cohorts = {"c", "d"}
  MaxEpoch = 2
  MaxStarts = 3
  Ops = {"a", "b"}
  Questions = {"q", "r"}
  Topics = {"t"}
  SuggestionKeys = {"k", "l"}
  Proposals = {"p"}
  DayLength = 2
  Quiet = {1}
  OpBudget = 1
  DailyCap = 1
  TopicCap = 1
  MaxAsked = 2
SYMMETRY Symmetry
INVARIANTS ImportIsTheExport  CaptureIsWhole 
  
\* The bounds on packages, decisions, captures and time leave nothing to do.
CHECK_DEADLOCK FALSE
