----------------------------- MODULE MCRelease ------------------------------
(***************************************************************************)
(* What moves evidence and data between stores: the shadow measurement,    *)
(* the cutover and release gates, the snapshot packages, the export        *)
(* authorizations with their capture, the fixture capture, and the ledgers *)
(* of attention and write proposals. They share no state. A behaviour is   *)
(* one of a single component, the active one. The configuration gives the  *)
(* parameters; ReleaseProofs keeps them arbitrary.                         *)
(*                                                                         *)
(* For TLC packages are restricted in two ways: two importers over the     *)
(* packages of one exporter at a time, and exporters that race for the     *)
(* destination while one import at a time reads it.                        *)
(***************************************************************************)
EXTENDS ExportAuthorization, TLC

CONSTANTS
  Samples, Failing, ManifestKeys, MaxShadowTime, MaxRollbacks, MaxGap, MinSpan, MinSamples,
  MinPercent,                                                     \* ShadowMeasurement
  MigrationSources, MaxScope, Drills, Foundations, MinDays, MaxDay,
  MaxDecisions,                                                   \* SecondBrainRelease
  Exporters, Importers, ImportCohorts, Fixtures, Deleting, Rows, MaxRecords, MaxPackages,
  MaxEdits,                                                       \* SnapshotTransfer
  Sources, Registered, Cohorts, MaxEpoch, MaxStarts,              \* FixtureCapture
  Ops, Questions, Topics, SuggestionKeys, Proposals, DayLength, Quiet, OpBudget,
  DailyCap, TopicCap, MaxAsked                                    \* RuntimeLedgers

VARIABLES
  active,   \* the component of the behaviour
  auth, seg, shadowClock, rollbacks, lock, proc, reported,
  scope, enabled, cohort, decisions, drills, stale, envelope, released, route, day,
  closedOn,
  packages, packageDest, durable, exports, leftover, edits, imports, cohorts, damaged,
  importReceipts,
  bindings, rows, checkpoint, captureCohorts, work, starts, advances,
  ledgerClock, questions, asked, records, proposalReceipts, core, submits

Shadow == INSTANCE ShadowMeasurement
    WITH Ids <- Samples, Keys <- ManifestKeys, MaxTime <- MaxShadowTime, clock <- shadowClock

Cutover == INSTANCE SecondBrainRelease WITH Sources <- MigrationSources

Snapshot == INSTANCE SnapshotTransfer
    WITH Cohorts <- ImportCohorts, receipts <- importReceipts, dest <- packageDest

Capture == INSTANCE FixtureCapture WITH Workers <- Procs, cohorts <- captureCohorts

Ledgers == INSTANCE RuntimeLedgers
    WITH Keys <- SuggestionKeys, Threads <- Procs, clock <- ledgerClock,
         receipts <- proposalReceipts

shadowVars == <<auth, seg, shadowClock, rollbacks, lock, proc, reported>>
cutoverVars == <<scope, enabled, cohort, decisions, drills, stale, envelope, released,
                 route, day, closedOn>>

Symmetry == Permutations(Procs)

snapshotVars == <<packages, packageDest, durable, exports, leftover, edits, imports,
                  cohorts, damaged, importReceipts>>
captureVars == <<bindings, rows, checkpoint, captureCohorts, work, starts, advances>>
ledgersVars == <<ledgerClock, questions, asked, records, proposalReceipts, core, submits>>

\* The variables of a component that is not active are off; those of
\* ExportAuthorization keep their initial values.
Off == "off"
ShadowOff ==
  /\ auth = Off /\ seg = Off /\ shadowClock = Off /\ rollbacks = Off /\ lock = Off
  /\ proc = Off /\ reported = Off
CutoverOff ==
  /\ scope = Off /\ enabled = Off /\ cohort = Off /\ decisions = Off /\ drills = Off
  /\ stale = Off /\ envelope = Off /\ released = Off /\ route = Off /\ day = Off
  /\ closedOn = Off
SnapshotOff ==
  /\ packages = Off /\ packageDest = Off /\ durable = Off /\ exports = Off
  /\ leftover = Off /\ edits = Off /\ imports = Off /\ cohorts = Off /\ damaged = Off
  /\ importReceipts = Off
CaptureOff ==
  /\ bindings = Off /\ rows = Off /\ checkpoint = Off /\ captureCohorts = Off
  /\ work = Off /\ starts = Off /\ advances = Off
LedgersOff ==
  /\ ledgerClock = Off /\ questions = Off /\ asked = Off /\ records = Off
  /\ proposalReceipts = Off /\ core = Off /\ submits = Off

Components == {"shadow", "cutover", "snapshot", "exporters", "export", "capture",
               "ledgers"}

MCInit ==
  /\ active \in Components
  /\ Init
  /\ IF active = "shadow" THEN Shadow!Init ELSE ShadowOff
  /\ IF active = "cutover" THEN Cutover!Init ELSE CutoverOff
  /\ IF active \in {"snapshot", "exporters"} THEN Snapshot!Init ELSE SnapshotOff
  /\ IF active = "capture" THEN Capture!Init ELSE CaptureOff
  /\ IF active = "ledgers" THEN Ledgers!Init ELSE LedgersOff

\* The two ways in which packages are checked.
OneExporter ==
  Cardinality({p \in Exporters : exports'[p] # Snapshot!Idle} \cup leftover') <= 1
OneImporter ==
  /\ Cardinality({q \in Importers : imports'[q] # Snapshot!Idle}) <= 1
  /\ \A p \in Exporters : exports'[p] # Snapshot!Idle => exports'[p].fixture \notin Deleting
  /\ edits' = 0

\* Only the active component takes steps.
MCNext ==
  \/ /\ active = "shadow" /\ Shadow!Next
     /\ UNCHANGED <<active, cutoverVars, snapshotVars, vars, captureVars,
                    ledgersVars>>
  \/ /\ active = "cutover" /\ Cutover!Next
     /\ UNCHANGED <<active, shadowVars, snapshotVars, vars, captureVars,
                    ledgersVars>>
  \/ /\ active = "snapshot" /\ Snapshot!Next /\ OneExporter
     /\ UNCHANGED <<active, shadowVars, cutoverVars, vars, captureVars,
                    ledgersVars>>
  \/ /\ active = "exporters" /\ Snapshot!Next /\ OneImporter
     /\ UNCHANGED <<active, shadowVars, cutoverVars, vars, captureVars,
                    ledgersVars>>
  \/ /\ active = "export" /\ Next
     /\ UNCHANGED <<active, shadowVars, cutoverVars, snapshotVars, captureVars,
                    ledgersVars>>
  \/ /\ active = "capture" /\ Capture!Next
     /\ UNCHANGED <<active, shadowVars, cutoverVars, snapshotVars, vars,
                    ledgersVars>>
  \/ /\ active = "ledgers" /\ Ledgers!Next
     /\ UNCHANGED <<active, shadowVars, cutoverVars, snapshotVars, vars,
                    captureVars>>

all == <<active, shadowVars, cutoverVars, snapshotVars, vars, captureVars,
         ledgersVars>>

MCSpec == MCInit /\ [][MCNext]_all

-----------------------------------------------------------------------------

ASSUME ExportAssumption /\ Cutover!ReleaseAssumption
ASSUME Snapshot!TransferAssumption /\ Ledgers!LedgerAssumption /\ Shadow!ShadowAssumption

\* Evidence that was reported is never forgotten or rewritten, and evidence
\* called complete spans the required time without a gap
\* (NativeShadowMeasurementCollector.report).
EvidenceOnlyGrows == [][active = "shadow" => Shadow!EvidenceKept]_shadowVars

\* The route moves to the canonical store only on a decision that observed this
\* manifest under this scope, never back after the first mutation, and a release
\* is admitted only on drills that all passed (second_brain_cutover.py).
CutoverIsEarned == [][active = "cutover" => Cutover!CutoverStep]_cutoverVars

\* What an import stores is one whole exported fixture, whatever was edited,
\* republished or raced for while it was read (SourceImportService).
ImportIsTheExport == active \in {"snapshot", "exporters"} => Snapshot!ImportIsTheExport

\* Every captured row has both halves of its evidence, and no advance of a
\* source's checkpoint is lost (FixtureCapture).
CaptureIsWhole == active = "capture" => Capture!CaptureIsWhole

\* Questions and suggestions stay within their caps, and a proposal reaches the
\* core once across retries and restarts (ClarificationEngine,
\* InMemoryAttentionLedger, WriteProposalGateway).
AttentionIsRationed == active = "ledgers" => Ledgers!AttentionIsRationed
=============================================================================
