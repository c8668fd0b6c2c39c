-------------------------- MODULE SnapshotTransfer --------------------------
(***************************************************************************)
(* How rows of unified-db reach the encrypted lifecycle store:             *)
(*                                                                         *)
(*  export   a fixture becomes a package directory, staged file by file,   *)
(*           sealed and renamed into place without overwriting             *)
(*           (applications/unified_db_snapshot_export_*.py,                *)
(*           infrastructure/local_snapshot_package_writer.py);             *)
(*  handoff  the package is verified offline, its snapshot read again and  *)
(*           its payload directory discovered by metadata alone            *)
(*           (applications/source_discovery_service.py);                   *)
(*  import   every file is opened, compared with the discovery, read,      *)
(*           compared with the snapshot, and the whole is stored in one    *)
(*           transaction under a cohort (applications/                     *)
(*           source_import_service.py over infrastructure/                 *)
(*           snapshot_import_store.py).                                    *)
(*                                                                         *)
(* The package directory belongs to an operator who may edit a file, with  *)
(* or without keeping its times, or remove the directory while an import   *)
(* reads it.  A digest is the value it binds.                              *)
(***************************************************************************)
EXTENDS Integers, FiniteSets, Sequences

CONSTANTS Exporters,  \* processes that export
          Importers,  \* processes that import
          Cohorts,    \* cohort identifiers
          Fixtures,   \* fixture files: the row sets that may be exported
          Deleting,   \* the fixtures whose first row is a tombstone
          Rows,       \* number of rows of a fixture
          MaxRecords, \* bound of the export profile
          MaxPackages,\* bound on the packages published
          MaxEdits    \* bound on the operator's edits

VARIABLES packages, dest, durable, exports, leftover, edits, imports, cohorts, damaged,
          receipts

packageVars == <<packages, dest, durable>>
exportVars == <<exports, leftover>>
storeVars == <<cohorts, damaged, receipts>>
vars == <<packageVars, exportVars, edits, imports, storeVars>>

None == [kind |-> "none"]
Idle == [phase |-> "idle"]
Tombstone == [kind |-> "tombstone"]
Ids == 1..Rows

(***************************************************************************)
(* A fixture's rows, in their order.  The content of a live row is a value *)
(* of its own, so the rows of two fixtures never agree by accident.        *)
(***************************************************************************)
FixtureRows(f) ==
    [i \in Ids |-> IF f \in Deleting /\ i = 1 THEN Tombstone
                   ELSE [kind |-> "body", fixture |-> f, row |-> i]]

Live(f) == {i \in Ids : FixtureRows(f)[i] # Tombstone}

\* payload_name(live_index): the live rows are numbered from 0.
PayloadName(f, i) == Cardinality({j \in Live(f) : j < i})

Paths(f) == {PayloadName(f, i) : i \in Live(f)}

\* build_bounded_snapshot: the record of a row binds its path and content digest.
Snapshot(f) ==
    [i \in Ids |-> IF i \in Live(f)
                   THEN [path |-> PayloadName(f, i), content |-> FixtureRows(f)[i]]
                   ELSE Tombstone]

\* The body of each payload file.
PayloadOf(f) ==
    [p \in Paths(f) |-> FixtureRows(f)[CHOOSE i \in Live(f) : PayloadName(f, i) = p]]

Init ==
    /\ packages = <<>>
    /\ dest = 0
    /\ durable = TRUE
    /\ exports = [p \in Exporters |-> Idle]
    /\ leftover = {}
    /\ edits = 0
    /\ imports = [q \in Importers |-> Idle]
    /\ cohorts = [c \in Cohorts |-> None]
    /\ damaged = {}
    /\ receipts = {}

(***************************************************************************)
(* Export.  The plan names the fixture it was drawn up for and the         *)
(* commitments its two read-safety proofs must show; the profile bounds    *)
(* the rows.                                                               *)
(***************************************************************************)
Proof(f, phase) == [phase |-> phase, commitment |-> f, writers |-> 0]

Plan(f) == [fixture |-> f, commitment |-> f]

ProofsHold(f, plan) ==
    /\ plan.fixture = f
    /\ \A phase \in {"OPENING", "CLOSING"} :
          Proof(f, phase).commitment = plan.commitment /\ Proof(f, phase).writers = 0

RowsValid(f) == Cardinality(DOMAIN FixtureRows(f)) <= MaxRecords

\* The parts of a package beside the payload; each binds the digests of the others.
Manifest(f) == [path \in Paths(f) |-> PayloadOf(f)[path]]

Cursors(f) == [watermark |-> f]

Evidence(f) == [snapshot |-> Snapshot(f), manifest |-> Manifest(f), cursors |-> Cursors(f)]

ExportReceipt(f) ==
    [fixture |-> f, evidence |-> Evidence(f), live |-> Cardinality(Live(f)),
     tombstones |-> Cardinality(Ids \ Live(f))]

\* start: the staging directory carries the process id.
Start(p, f, plan) ==
    /\ exports[p] = Idle
    /\ p \notin leftover
    /\ ProofsHold(f, Plan(plan))
    /\ RowsValid(f)
    /\ dest = 0
    /\ exports' = [exports EXCEPT ![p] = [phase |-> "staging", fixture |-> f]]
    /\ UNCHANGED <<packageVars, leftover, edits, imports, storeVars>>

\* write_file, the receipt and the sealing: nobody else sees the staging tree.
SealedTree(f, n) ==
    [fixture |-> f,
     files |-> [path \in Paths(f) |-> [content |-> PayloadOf(f)[path], meta |-> n]]]

\* commit: the rename fails when the destination exists; the staging tree is then removed.
Commit(p) ==
    LET f == exports[p].fixture
        n == Len(packages) + 1
    IN /\ exports[p].phase = "staging"
       /\ IF dest # 0 THEN /\ exports' = [exports EXCEPT ![p] = Idle]
                           /\ UNCHANGED packageVars
          ELSE /\ Len(packages) < MaxPackages
               /\ packages' = Append(packages, SealedTree(f, n))
               /\ dest' = n
               /\ durable' = FALSE
               /\ exports' = [exports EXCEPT ![p] = [@ EXCEPT !.phase = "renamed"]]
       /\ UNCHANGED <<leftover, edits, imports, storeVars>>

\* A failed fsync of the parent is PUBLISHED_DURABILITY_UNCERTAIN: nothing is undone.
FsyncParent(p, ok) ==
    /\ exports[p].phase = "renamed"
    /\ exports' = [exports EXCEPT ![p] = Idle]
    /\ durable' = (durable \/ ok)
    /\ UNCHANGED <<packages, dest, leftover, edits, imports, storeVars>>

\* A failed write or seal: the exporter removes its staging tree.
Abort(p) ==
    /\ exports[p].phase = "staging"
    /\ exports' = [exports EXCEPT ![p] = Idle]
    /\ UNCHANGED <<packageVars, leftover, edits, imports, storeVars>>

\* A killed exporter leaves its staging tree behind.
CrashExport(p) ==
    /\ exports[p].phase # "idle"
    /\ exports' = [exports EXCEPT ![p] = Idle]
    /\ leftover' = IF exports[p].phase = "renamed" THEN leftover ELSE leftover \cup {p}
    /\ UNCHANGED <<packageVars, edits, imports, storeVars>>

\* Power loss: a rename that was not made durable may be gone; every process dies.
PowerLoss ==
    /\ dest # 0 /\ ~durable
    /\ dest' = 0
    /\ durable' = TRUE
    /\ exports' = [p \in Exporters |-> Idle]
    /\ imports' = [q \in Importers |-> Idle]
    /\ UNCHANGED <<packages, leftover, edits, storeVars>>

(***************************************************************************)
(* The operator: edits a payload file in place, keeping its times or not;  *)
(* removes the package so that another may be published in its place.      *)
(***************************************************************************)
Edited == [kind |-> "edited"]

Edit(path, keep) ==
    /\ dest # 0
    /\ edits < MaxEdits
    /\ path \in DOMAIN packages[dest].files
    /\ edits' = edits + 1
    /\ packages' = [packages EXCEPT ![dest].files[path] =
                      [content |-> Edited,
                       meta |-> IF keep THEN @.meta ELSE MaxPackages + edits + 1]]
    /\ UNCHANGED <<dest, durable, exportVars, imports, storeVars>>

Remove ==
    /\ dest # 0
    /\ dest' = 0
    /\ durable' = TRUE
    /\ UNCHANGED <<packages, exportVars, edits, imports, storeVars>>

(***************************************************************************)
(* verify_export_package.  Everything read is compared with the digests of *)
(* the receipt, so a read that passes is a read of one instant.            *)
(***************************************************************************)
\* Every file of the payload directory, opened without following links.
ReadTree(k) == [path \in DOMAIN k.files |-> k.files[path].content]

PackageJoins(k) ==
    LET receipt == ExportReceipt(k.fixture)
        payload == ReadTree(k)
        tombstones == {i \in Ids : receipt.evidence.snapshot[i] = Tombstone}
    IN /\ DOMAIN payload = DOMAIN receipt.evidence.manifest
       /\ \A i \in Ids \ tombstones :
             LET record == receipt.evidence.snapshot[i]
             IN record.path \in DOMAIN payload /\ payload[record.path] = record.content
       /\ receipt.tombstones = Cardinality(tombstones)
       /\ receipt.live = Cardinality(DOMAIN payload)
       /\ receipt.evidence.cursors.watermark = k.fixture

VerifyPackage(q) ==
    /\ imports[q] = Idle
    /\ dest # 0
    /\ PackageJoins(packages[dest])
    /\ imports' = [imports EXCEPT ![q] = [phase |-> "verified", receipt |-> packages[dest].fixture]]
    /\ UNCHANGED <<packageVars, exportVars, edits, storeVars>>

\* bridge_snapshot_import_handoff opens the package again to read the snapshot.
Reopen(q) ==
    /\ imports[q].phase = "verified"
    /\ dest # 0
    /\ imports' = [imports EXCEPT ![q] = [phase |-> "reopened", receipt |-> @.receipt,
                                          snapshot |-> packages[dest].fixture]]
    /\ UNCHANGED <<packageVars, exportVars, edits, storeVars>>

(***************************************************************************)
(* discover_source: no body is opened.  The metadata of every file is read *)
(* and then read again; any difference refuses the scan.                   *)
(***************************************************************************)
Metadata(n) == [path \in DOMAIN packages[n].files |-> packages[n].files[path].meta]

ScanTree(q) ==
    /\ imports[q].phase = "reopened"
    /\ dest # 0
    /\ imports' = [imports EXCEPT ![q] = [phase |-> "scanned", receipt |-> @.receipt,
                                          snapshot |-> @.snapshot, seen |-> Metadata(dest)]]
    /\ UNCHANGED <<packageVars, exportVars, edits, storeVars>>

\* SnapshotImportRequestV1, with what the importer keeps while it reads.
Request(i, c) ==
    [phase |-> "requested", cohort |-> c, snapshot |-> i.snapshot, discovery |-> i.seen,
     open |-> <<>>, payload |-> <<>>]

\* The request is then built; the handoff compares the two snapshots last.
VerifyUnchanged(q, c) ==
    LET i == imports[q]
        good == dest # 0 /\ Metadata(dest) = i.seen /\ i.receipt = i.snapshot
    IN /\ i.phase = "scanned"
       /\ imports' = [imports EXCEPT ![q] =
            IF good THEN Request(i, c) ELSE Idle]
       /\ UNCHANGED <<packageVars, exportVars, edits, storeVars>>

(***************************************************************************)
(* SourceImportService.  _bind: the discovered paths are the live ones.    *)
(* _admit opens each file and compares its metadata with the discovery;    *)
(* the descriptor stays with the file even if the directory is replaced.   *)
(***************************************************************************)
Bind(i) == DOMAIN i.discovery = Paths(i.snapshot)

Admit(q) ==
    LET i == imports[q]
        path == Cardinality(DOMAIN i.open)
        good == /\ Bind(i)
                /\ dest # 0
                /\ path \in DOMAIN packages[dest].files
                /\ packages[dest].files[path].meta = i.discovery[path]
    IN /\ i.phase = "requested"
       /\ Bind(i) => path \in DOMAIN i.discovery
       /\ imports' = [imports EXCEPT ![q] =
            IF ~good THEN Idle
            ELSE [i EXCEPT !.open = [x \in DOMAIN @ \cup {path} |->
                                       IF x = path THEN dest ELSE @[x]]]]
       /\ UNCHANGED <<packageVars, exportVars, edits, storeVars>>

\* The record of the snapshot that a path belongs to.
RecordContent(i, path) == PayloadOf(i.snapshot)[path]

Mut_Finish(q) ==
    LET i == imports[q]
        path == Cardinality(DOMAIN i.payload)
        file == packages[i.open[path]].files[path]
        good == file.meta = i.discovery[path]
    IN /\ i.phase = "requested"
       /\ DOMAIN i.open = DOMAIN i.discovery
       /\ path \in DOMAIN i.open
       /\ imports' = [imports EXCEPT ![q] =
            IF ~good THEN Idle
            ELSE [i EXCEPT !.payload = [x \in DOMAIN @ \cup {path} |->
                                          IF x = path THEN file.content ELSE @[x]]]]
       /\ UNCHANGED <<packageVars, exportVars, edits, storeVars>>

\* _finish and read_exact: metadata unchanged since the open, content as recorded.
Finish(q) ==
    LET i == imports[q]
        path == Cardinality(DOMAIN i.payload)
        file == packages[i.open[path]].files[path]
        good == file.meta = i.discovery[path] /\ file.content = RecordContent(i, path)
    IN /\ i.phase = "requested"
       /\ DOMAIN i.open = DOMAIN i.discovery
       /\ path \in DOMAIN i.open
       /\ imports' = [imports EXCEPT ![q] =
            IF ~good THEN Idle
            ELSE [i EXCEPT !.payload = [x \in DOMAIN @ \cup {path} |->
                                          IF x = path THEN file.content ELSE @[x]]]]
       /\ UNCHANGED <<packageVars, exportVars, edits, storeVars>>

(***************************************************************************)
(* persist_import.  The sealed records are what the payloads commit to; a  *)
(* cohort that exists must be exactly this import.                         *)
(***************************************************************************)
ReadAll(i) == Bind(i) /\ DOMAIN i.payload = DOMAIN i.discovery

SealRecords(i) ==
    [id \in Ids |-> IF Snapshot(i.snapshot)[id] = Tombstone THEN Tombstone
                    ELSE i.payload[Snapshot(i.snapshot)[id].path]]

CohortRow(i) ==
    [kind |-> "cohort", snapshot |-> i.snapshot, discovery |-> i.discovery,
     records |-> SealRecords(i)]

RequireExact(i) == cohorts[i.cohort] = CohortRow(i)

Receipt(i) == [cohort |-> i.cohort, snapshot |-> i.snapshot, discovery |-> i.discovery]

PersistLookup(q) ==
    LET i == imports[q]
    IN /\ i.phase = "requested"
       /\ ReadAll(i)
       /\ IF cohorts[i.cohort] = None
          THEN /\ imports' = [imports EXCEPT ![q].phase = "sealed"]
               /\ UNCHANGED receipts
          ELSE /\ imports' = [imports EXCEPT ![q] = Idle]
               /\ receipts' = IF RequireExact(i) THEN receipts \cup {Receipt(i)} ELSE receipts
       /\ UNCHANGED <<packageVars, exportVars, edits, cohorts, damaged>>

\* The CAS objects are written first; the loser of a race on the cohort compares again.
InsertImport(q) ==
    LET i == imports[q]
        free == cohorts[i.cohort] = None
    IN /\ i.phase = "sealed"
       /\ cohorts' = IF free THEN [cohorts EXCEPT ![i.cohort] = CohortRow(i)] ELSE cohorts
       /\ receipts' = IF free \/ RequireExact(i) THEN receipts \cup {Receipt(i)} ELSE receipts
       /\ imports' = [imports EXCEPT ![q] = Idle]
       /\ UNCHANGED <<packageVars, exportVars, edits, damaged>>

CrashImport(q) ==
    /\ imports[q].phase # "idle"
    /\ imports' = [imports EXCEPT ![q] = Idle]
    /\ UNCHANGED <<packageVars, exportVars, edits, storeVars>>

\* A CAS object is lost or corrupted on disk.
Damage(c) ==
    /\ cohorts[c] # None
    /\ damaged' = damaged \cup {c}
    /\ UNCHANGED <<packageVars, exportVars, edits, imports, cohorts, receipts>>

\* restore_import: count, history and every object are verified before any is returned.
OpenRecord(c, id) == cohorts[c].records[id]

RestoreImport(c) ==
    IF c \in damaged THEN None
    ELSE [kind |-> "restored", records |-> [id \in Ids |-> OpenRecord(c, id)]]

Next ==
    \/ \E p \in Exporters :
           \/ \E f, plan \in Fixtures : Start(p, f, plan)
           \/ Commit(p)
           \/ \E ok \in BOOLEAN : FsyncParent(p, ok)
           \/ Abort(p) \/ CrashExport(p)
    \/ PowerLoss
    \/ \E path \in 0..(Rows - 1), keep \in BOOLEAN : Edit(path, keep)
    \/ Remove
    \/ \E q \in Importers :
           \/ VerifyPackage(q) \/ Reopen(q) \/ ScanTree(q)
           \/ \E c \in Cohorts : VerifyUnchanged(q, c)
           \/ Admit(q) \/ Finish(q)
           \/ PersistLookup(q) \/ InsertImport(q) \/ CrashImport(q)
    \/ \E c \in Cohorts : Damage(c)

Spec == Init /\ [][Next]_vars

(***************************************************************************)
(* Properties.                                                             *)
(***************************************************************************)

\* What an import stores is one whole exported fixture: every live row with its
\* own body under its own identity, every tombstone without one, and never a mix of
\* two packages or a file edited under the reader, even one whose times were put
\* back.  A cohort's row is the one its receipts were issued for, whoever raced for
\* it, and a restore returns those records or refuses.
ImportIsTheExport ==
    /\ \A c \in Cohorts : cohorts[c] # None =>
          /\ RestoreImport(c) # None =>
                RestoreImport(c).records = FixtureRows(cohorts[c].snapshot)
          /\ \E n \in 1..Len(packages) : packages[n].fixture = cohorts[c].snapshot
    /\ \A r \in receipts :
          /\ cohorts[r.cohort] # None
          /\ cohorts[r.cohort].snapshot = r.snapshot
          /\ cohorts[r.cohort].discovery = r.discovery

(***************************************************************************)
(* The inductive invariant.                                                *)
(***************************************************************************)
TransferAssumption == Rows \in Nat /\ MaxPackages \in Nat

Contents == {Edited} \cup [kind : {"body"}, fixture : Fixtures, row : Ids]

FileTrees == UNION {[P -> [content : Contents, meta : Nat]] : P \in SUBSET Nat}

PackagesTyped ==
    /\ edits \in Nat
    /\ packages \in Seq([fixture : Fixtures, files : FileTrees])
    /\ dest \in 0..Len(packages)
    /\ exports \in [Exporters -> {Idle} \cup [phase : {"staging", "renamed"}, fixture : Fixtures]]

\* One of these packages was exported from the fixture.
Exported(ps, f) == \E n \in 1..Len(ps) : ps[n].fixture = f

IsRequest(i) ==
    i = [phase |-> i.phase, cohort |-> i.cohort, snapshot |-> i.snapshot,
         discovery |-> i.discovery, open |-> i.open, payload |-> i.payload]

\* Whatever the importer holds of a body is what the snapshot records.
ReadsTheExport(ps, i) ==
    /\ i.phase \in {"reopened", "scanned", "requested", "sealed"} => Exported(ps, i.snapshot)
    /\ i.phase \in {"requested", "sealed"} =>
          /\ IsRequest(i) /\ i.cohort \in Cohorts
          /\ \A x \in DOMAIN i.payload : i.payload[x] = RecordContent(i, x)
    /\ i.phase = "sealed" => ReadAll(i)

ImportsRead ==
    DOMAIN imports = Importers /\ \A q \in Importers : ReadsTheExport(packages, imports[q])

\* A stored cohort is a whole export, and it is the one of its receipts.
CohortsWhole ==
    /\ DOMAIN cohorts = Cohorts
    /\ \A c \in Cohorts : cohorts[c] # None =>
          /\ cohorts[c].records = FixtureRows(cohorts[c].snapshot)
          /\ Exported(packages, cohorts[c].snapshot)
    /\ \A r \in receipts :
          /\ r.cohort \in Cohorts /\ cohorts[r.cohort] # None
          /\ cohorts[r.cohort].snapshot = r.snapshot
          /\ cohorts[r.cohort].discovery = r.discovery

TransferInvariant == PackagesTyped /\ ImportsRead /\ CohortsWhole
=============================================================================
