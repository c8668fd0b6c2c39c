--------------------------- MODULE FixtureCapture ---------------------------
(***************************************************************************)
(* Stage-2 capture of source evidence (applications/                       *)
(* fixture_capture_service.py, connectors/, infrastructure/                *)
(* fixture_capture_clients.py, and EncryptedCapturePersistence of          *)
(* infrastructure/lifecycle_db.py).  A connector reads the fixtures of one *)
(* scope and scan epoch and seals each item's content and native mapping,  *)
(* each in a transaction of its own that binds the item to its evidence.   *)
(* The aggregate that names what was sealed is then persisted in one unit  *)
(* of work: receipt, manifest, reconciliation and registration rows, the   *)
(* compare-and-swap of the source's checkpoint, and a cohort over several  *)
(* sources.                                                                *)
(*                                                                         *)
(* A scan has one item; the rows it writes share its key, so one row       *)
(* stands for them.  The encrypted store is write-once and a blob that no  *)
(* row names is invisible, so it is left out.                              *)
(***************************************************************************)
EXTENDS Integers, Sequences, FiniteSets

CONSTANTS Sources,    \* source scopes
          Registered, \* those with a migration capability in the registry
          Workers,    \* processes that capture
          Cohorts,    \* cohort references
          MaxEpoch,   \* bound on the scan epochs
          MaxStarts   \* bound on the captures begun

VARIABLES bindings, rows, checkpoint, cohorts, work, starts, advances

vars == <<bindings, rows, checkpoint, cohorts, work, starts, advances>>

None == [kind |-> "none"]
Idle == [phase |-> "idle"]
Evidence == {1, 2}
Kinds == {"content", "native-mapping"}

\* A scan's references: scope, epoch and the capture they are drawn up for.
Scans == [source : Sources, epoch : 1..MaxEpoch]

Init ==
    /\ bindings = {}
    /\ rows = {}
    /\ checkpoint = [s \in Sources |-> None]
    /\ cohorts = [c \in Cohorts |-> None]
    /\ work = [w \in Workers |-> Idle]
    /\ starts = 0
    /\ advances = [s \in Sources |-> <<>>]

(***************************************************************************)
(* The aggregate is drawn up from what its author has seen: the checkpoint *)
(* current at that time is the one it advances from, and the roster names  *)
(* the checkpoints of the other sources it lists.                          *)
(***************************************************************************)
Ref(s) == IF checkpoint[s] = None THEN None ELSE [kind |-> "checkpoint", scan |-> checkpoint[s].scan]

RosterEntry(scan) == [scan |-> scan, checkpoint |-> scan]

Roster(scan, others) ==
    {RosterEntry(scan)} \cup {RosterEntry(checkpoint[s].scan) : s \in others}

Aggregate(scan, evidence, c, others) ==
    [kind |-> "aggregate", scan |-> scan, evidence |-> evidence,
     previous |-> Ref(scan.source), cohort |-> c, roster |-> Roster(scan, others)]

\* capture: the registry must hold a capability for exactly this scope.
CapabilityVerified(s) == s \in Registered

Start(w, scan, evidence, c, others) ==
    /\ work[w] = Idle
    /\ starts < MaxStarts
    /\ starts' = starts + 1
    /\ CapabilityVerified(scan.source)
    /\ \A s \in others : s # scan.source /\ checkpoint[s] # None
    /\ work' = [work EXCEPT ![w] =
                  [phase |-> "content", aggregate |-> Aggregate(scan, evidence, c, others)]]
    /\ UNCHANGED <<bindings, rows, checkpoint, cohorts, advances>>

(***************************************************************************)
(* _seal: an item already bound to other evidence is refused, to the same  *)
(* evidence answered from the binding.                                     *)
(***************************************************************************)
Bound(scan, kind) == {b \in bindings : b.scan = scan /\ b.kind = kind}

NextPhase(kind) == IF kind = "content" THEN "native-mapping" ELSE "read"

Seal(w, kind) ==
    LET a == work[w].aggregate
        old == Bound(a.scan, kind)
        refused == \E b \in old : b.evidence # a.evidence
    IN /\ work[w].phase = kind
       /\ bindings' = IF old # {} THEN bindings
                      ELSE bindings \cup {[scan |-> a.scan, kind |-> kind, evidence |-> a.evidence]}
       /\ work' = [work EXCEPT ![w] =
                     IF refused THEN Idle ELSE [phase |-> NextPhase(kind), aggregate |-> a]]
       /\ UNCHANGED <<rows, checkpoint, cohorts, starts, advances>>

\* What was read must be exactly what the aggregate's receipts state.
ReceiptsMatch(observed, a) == observed = a.evidence

(***************************************************************************)
(* persist_capture_aggregate.                                              *)
(***************************************************************************)
ReceiptBindingsHold(a) ==
    \A kind \in Kinds : \E b \in Bound(a.scan, kind) : b.evidence = a.evidence

\* An existing cohort of the same digest lends its aggregate's handle.
CohortAgrees(a) == cohorts[a.cohort] # None => cohorts[a.cohort].roster = a.roster

Locator(a) == IF cohorts[a.cohort] # None THEN cohorts[a.cohort].locator ELSE a

Row(a) == [scan |-> a.scan, evidence |-> a.evidence, locator |-> Locator(a)]

\* _insert_or_match
Matches(a) == \A r \in rows : r.scan = a.scan => r = Row(a)

Mut_CompareAndSwap(a) == checkpoint[a.scan.source] = None => a.previous = None

CompareAndSwap(a) ==
    LET current == Ref(a.scan.source)
    IN current = a.previous \/ current = [kind |-> "checkpoint", scan |-> a.scan]

\* _validate_durable_cohort, with the rows of this aggregate written.
DurableCohort(a) ==
    \A entry \in a.roster :
        \/ entry.scan = a.scan
        \/ /\ \E r \in rows : r.scan = entry.scan
           /\ Ref(entry.scan.source) = [kind |-> "checkpoint", scan |-> entry.checkpoint]

Persistable(a) ==
    /\ ReceiptBindingsHold(a)
    /\ CohortAgrees(a)
    /\ Matches(a)
    /\ CompareAndSwap(a)
    /\ DurableCohort(a)

Persist(w, observed) ==
    LET a == work[w].aggregate
        s == a.scan.source
        step == [from |-> a.previous, to |-> [kind |-> "checkpoint", scan |-> a.scan]]
    IN /\ work[w].phase = "read"
       /\ ReceiptsMatch(observed, a)
       /\ Persistable(a)
       /\ rows' = rows \cup {Row(a)}
       /\ checkpoint' = [checkpoint EXCEPT ![s] = [kind |-> "row", scan |-> a.scan, locator |-> Locator(a)]]
       /\ cohorts' = [cohorts EXCEPT ![a.cohort] =
                        [kind |-> "cohort", roster |-> a.roster, locator |-> Locator(a)]]
       /\ advances' = IF Ref(s) = step.to THEN advances ELSE [advances EXCEPT ![s] = Append(@, step)]
       /\ work' = [work EXCEPT ![w] = Idle]
       /\ UNCHANGED <<bindings, starts>>

Refuse(w, observed) ==
    /\ work[w].phase = "read"
    /\ ~(ReceiptsMatch(observed, work[w].aggregate) /\ Persistable(work[w].aggregate))
    /\ work' = [work EXCEPT ![w] = Idle]
    /\ UNCHANGED <<bindings, rows, checkpoint, cohorts, starts, advances>>

\* A process may stop between the sealing transactions and the aggregate's.
Crash(w) ==
    /\ work[w] # Idle
    /\ work' = [work EXCEPT ![w] = Idle]
    /\ UNCHANGED <<bindings, rows, checkpoint, cohorts, starts, advances>>

Next ==
    \E w \in Workers :
        \/ \E scan \in Scans, evidence \in Evidence, c \in Cohorts, others \in SUBSET Sources :
              Start(w, scan, evidence, c, others)
        \/ \E kind \in Kinds : Seal(w, kind)
        \/ \E observed \in Evidence : Persist(w, observed) \/ Refuse(w, observed)
        \/ Crash(w)

Spec == Init /\ [][Next]_vars

(***************************************************************************)
(* Properties.                                                             *)
(***************************************************************************)

\* Both halves of a row's evidence are sealed, and its handle opens its own scan.
RowIsWhole(r) ==
    /\ \A kind \in Kinds :
          [scan |-> r.scan, kind |-> kind, evidence |-> r.evidence] \in bindings
    /\ r.locator.scan = r.scan /\ r.locator.evidence = r.evidence

CohortIsCaptured(c) ==
    cohorts[c] # None => \A entry \in cohorts[c].roster : \E r \in rows : r.scan = entry.scan

AdvancesChain(s) ==
    \A i \in 2..Len(advances[s]) : advances[s][i].from = advances[s][i - 1].to

\* What is durable is whole.  Every captured row has both halves of its evidence
\* sealed and bound, and its handle opens an aggregate that contains that very
\* scan, although a cohort lends its handle to later aggregates.  Every scan a
\* cohort lists was captured.  No advance of a source's checkpoint is lost: each
\* one started from the checkpoint that the one before it left, whatever was
\* committed while its aggregate was being read and sealed.
CaptureIsWhole ==
    /\ \A r \in rows : RowIsWhole(r)
    /\ \A c \in Cohorts : CohortIsCaptured(c)
    /\ \A s \in Sources : AdvancesChain(s)

Refs == {None} \cup [kind : {"checkpoint"}, scan : Scans]
Entries == [scan : Scans, checkpoint : Scans]
Aggregates == [kind : {"aggregate"}, scan : Scans, evidence : Evidence, previous : Refs,
               cohort : Cohorts, roster : SUBSET Entries]
Steps == [from : Refs, to : Refs]

TypeOK ==
    /\ bindings \subseteq [scan : Scans, kind : Kinds, evidence : Evidence]
    /\ rows \subseteq [scan : Scans, evidence : Evidence, locator : Aggregates]
    /\ checkpoint \in [Sources -> {None} \cup [kind : {"row"}, scan : Scans, locator : Aggregates]]
    /\ cohorts \in [Cohorts -> {None} \cup
                       [kind : {"cohort"}, roster : SUBSET Entries, locator : Aggregates]]
    /\ work \in [Workers -> {Idle} \cup
                     [phase : {"content", "native-mapping", "read"}, aggregate : Aggregates]]
    /\ advances \in [Sources -> Seq(Steps)]

\* The checkpoint is what the last advance left.
CheckpointIsLast(s) ==
    IF advances[s] = <<>> THEN checkpoint[s] = None
    ELSE checkpoint[s] # None /\ Ref(s) = advances[s][Len(advances[s])].to

\* An aggregate lists its own scan.
ListsItself(w) ==
    work[w] # Idle => RosterEntry(work[w].aggregate.scan) \in work[w].aggregate.roster

CaptureInvariant ==
    /\ TypeOK
    /\ CaptureIsWhole
    /\ \A s \in Sources : CheckpointIsLast(s)
    /\ \A w \in Workers : ListsItself(w)
=============================================================================
