--------------------------- MODULE LifecycleFloor ---------------------------
(***************************************************************************)
(* The forward-only floor of a workspace, its freshness serve gate, and    *)
(* what the gate guards: review and activation of artifacts                *)
(* (applications/encrypted_lifecycle_pipeline.py, infrastructure/          *)
(* floor_protocol.py, lifecycle_db.py).                                    *)
(*                                                                         *)
(* Every transaction is one step.  The floor row, the veto and the gate    *)
(* are read in one transaction and used in a later one; a caller may die   *)
(* between two of them.                                                    *)
(***************************************************************************)
EXTENDS Naturals

CONSTANTS
  Callers,    \* threads and processes that call the pipeline
  Artifacts,  \* artifact ids
  Floors,     \* candidate floors, and the keychain bytes read back
  Attempts,   \* counter and nonce of an update, which make its attempt id
  Genesis,    \* the checkpoint id bootstrap_workspace derives
  None,
  MaxGen      \* bound: floor generation

\* The genesis checkpoint is not a candidate, and there is room for it.
FloorAssumption ==
  MaxGen \in Nat \ {0} /\ Genesis \notin Floors /\ None \notin Floors

VARIABLES
  floor,    \* floor_state row: stable generation, checkpoint, attempt state
  gate,     \* freshness_serve_gate row
  tried,    \* floor_candidate.attempt_id
  custody,  \* key_state.custody_state, "none" without an artifact row
  deleted,  \* artifacts with a deletion_state row
  log,      \* event_log without its order
  caller    \* the locals of every call

artifacts == <<custody, deleted>>
vars      == <<floor, gate, tried, artifacts, log, caller>>

Stable      == "FLOOR_STABLE"
Prepared    == "FLOOR_UPDATE_PREPARED"
Quarantined == "QUARANTINED_FLOOR_CONFLICT"

\* _VALID_TRANSITIONS of the states that advance_floor drives through.
ValidTransitions ==
  {<<Stable, "CHALLENGE_RESERVED">>, <<"CHALLENGE_RESERVED", Prepared>>,
   <<"CHALLENGE_RESERVED", "COUNTER_UPDATE_PREPARED">>,
   <<"COUNTER_UPDATE_PREPARED", "KEYCHAIN_COMMITTED">>,
   <<Prepared, "KEYCHAIN_COMMITTED">>, <<"KEYCHAIN_COMMITTED", Stable>>}

\* floor_protocol.advance, twice.
Drive(from, via, to) == {<<from, via>>, <<via, to>>} \subseteq ValidTransitions

NoFloor == [gen |-> 0, ck |-> None, st |-> "none"]
Idle    == [pc |-> "idle", a |-> None, row |-> NoFloor, new |-> None,
            back |-> None, t |-> None]

\* The tables of the schema, empty.
Init ==
  /\ floor = NoFloor /\ gate = "none" /\ tried = {}
  /\ custody = [a \in Artifacts |-> "none"] /\ deleted = {}
  /\ log = {}
  /\ caller = [c \in Callers |-> Idle]

At(c, pc) == caller[c].pc = pc

Goto(c, pc) == caller' = [caller EXCEPT ![c].pc = pc]

Return(c) == caller' = [caller EXCEPT ![c] = Idle]

\* UnitOfWork.append_event: the head is read in the same transaction.
AppendEvent(kind, ref) == log' = log \cup {<<kind, ref>>}

\* upsert_floor_state.
WriteFloor(gen, ck, st) == floor' = [gen |-> gen, ck |-> ck, st |-> st]

\* upsert_freshness_serve_gate of a gate that build_freshness_serve_gate made
\* from one of the valid pairs of state and reason.
WriteGate(state) == gate' = state

\* upsert_key_state.
SetCustody(a, state) == custody' = [custody EXCEPT ![a] = state]

\* serve_gate_allows_serving: a missing gate withholds.
AllowsServing == gate = "CLEAR"

-----------------------------------------------------------------------------
(* artifacts and their review                                              *)

\* remember, correct, remember_new_consent, add_evidence_fragment and
\* add_evidence_edge insert an artifact with its key state and one event.
AddArtifact(a) ==
  /\ custody[a] = "none"
  /\ SetCustody(a, "PREPARED")
  /\ AppendEvent("ARTIFACT_ADDED", a)
  /\ UNCHANGED <<floor, gate, tried, deleted, caller>>

\* forget and map_source_deletion_request: the row that vetoes the artifact.
RequestDeletion(a) ==
  /\ custody[a] # "none" /\ a \notin deleted
  /\ deleted' = deleted \cup {a}
  /\ AppendEvent("FORGET_REQUESTED", a)
  /\ UNCHANGED <<floor, gate, tried, custody, caller>>

\* review_candidate: the review id is a digest of all it holds, so the same
\* review again fails on its primary key; an approval sets the key state
\* whatever it was.
ReviewCandidate(a, verdict) ==
  /\ custody[a] # "none"
  /\ <<verdict, a>> \notin log
  /\ IF verdict = "APPROVED" THEN SetCustody(a, "APPROVED")
     ELSE UNCHANGED custody
  /\ AppendEvent(verdict, a)
  /\ UNCHANGED <<floor, gate, tried, deleted, caller>>

-----------------------------------------------------------------------------
(* the floor                                                               *)

GenesisRows == WriteFloor(1, Genesis, Stable) /\ WriteGate("CLEAR")

\* bootstrap_workspace: writes the genesis rows whatever is there.
BootstrapWorkspace ==
  /\ GenesisRows
  /\ UNCHANGED <<tried, artifacts, log, caller>>

\* advance_floor reads the floor row in a transaction of its own, and goes on
\* only from FLOOR_STABLE.
AdvanceFloor(c, t, new, back) ==
  /\ At(c, "idle") /\ floor.st = Stable /\ floor.gen < MaxGen
  /\ caller' = [caller EXCEPT ![c].pc = "prepare", ![c].row = floor,
                              ![c].t = t, ![c].new = new, ![c].back = back]
  /\ UNCHANGED <<floor, gate, tried, artifacts, log>>

\* The candidate and the prepared state are written over the row as it was
\* read; the same attempt id again fails on its primary key.
PrepareFloor(c) ==
  LET row == caller[c].row
  IN
  /\ At(c, "prepare") /\ Drive(row.st, "CHALLENGE_RESERVED", Prepared)
  /\ IF caller[c].t \in tried
     THEN Return(c) /\ UNCHANGED <<floor, tried>>
     ELSE /\ tried' = tried \cup {caller[c].t}
          /\ WriteFloor(row.gen, row.ck, Prepared)
          /\ Goto(c, "readback")
  /\ UNCHANGED <<gate, artifacts, log>>

\* verify_cas_readback: the keychain holds exactly the candidate.
ReadbackMatches(c) == caller[c].back = caller[c].new

CommitFloor(c) ==
  LET row == caller[c].row
  IN
  /\ At(c, "readback") /\ ReadbackMatches(c)
  /\ Drive(Prepared, "KEYCHAIN_COMMITTED", Stable)
  /\ WriteFloor(row.gen + 1, caller[c].new, Stable) /\ WriteGate("CLEAR")
  /\ AppendEvent("FLOOR_STABILIZED", caller[c].new)
  /\ Return(c)
  /\ UNCHANGED <<tried, artifacts>>

\* Mutant: the floor is quarantined and serving goes on.
Mut_QuarantineFloor(c) ==
  LET row == caller[c].row
  IN
  /\ At(c, "readback") /\ ~ReadbackMatches(c)
  /\ WriteFloor(row.gen, row.ck, Quarantined)
  /\ AppendEvent("FLOOR_QUARANTINED", caller[c].t)
  /\ Return(c)
  /\ UNCHANGED <<gate, tried, artifacts>>

QuarantineFloor(c) ==
  LET row == caller[c].row
  IN
  /\ At(c, "readback") /\ ~ReadbackMatches(c)
  /\ WriteFloor(row.gen, row.ck, Quarantined)
  /\ WriteGate("FRESH_CHALLENGE_REQUIRED")
  /\ AppendEvent("FLOOR_QUARANTINED", caller[c].t)
  /\ Return(c)
  /\ UNCHANGED <<tried, artifacts>>

-----------------------------------------------------------------------------
(* activation                                                              *)

\* activate_artifact tests the veto first,
Activate(c, a) ==
  /\ At(c, "idle") /\ a \notin deleted
  /\ caller' = [caller EXCEPT ![c].pc = "gate", ![c].a = a]
  /\ UNCHANGED <<floor, gate, tried, artifacts, log>>

\* then the gate; a workspace without one is bootstrapped on the way,
ReadGate(c) ==
  /\ At(c, "gate")
  /\ CASE gate = "none"  -> Goto(c, "bootstrap")
       [] AllowsServing  -> Goto(c, "activate")
       [] OTHER          -> Return(c)
  /\ UNCHANGED <<floor, gate, tried, artifacts, log>>

LazyBootstrap(c) ==
  /\ At(c, "bootstrap")
  /\ GenesisRows
  /\ Goto(c, "activate")
  /\ UNCHANGED <<tried, artifacts, log>>

\* Mutant: an activation is recorded only when a review approved it.
Mut_ActivateArtifact(c) ==
  LET a == caller[c].a
  IN
  /\ At(c, "activate")
  /\ IF custody[a] \in {"PREPARED", "APPROVED"}
     THEN /\ SetCustody(a, "ACTIVE")
          /\ IF custody[a] = "APPROVED" THEN AppendEvent("ARTIFACT_ACTIVATED", a)
             ELSE UNCHANGED log
     ELSE UNCHANGED <<custody, log>>
  /\ Return(c)
  /\ UNCHANGED <<floor, gate, tried, deleted>>

\* and makes a prepared or approved artifact active whose blob can be read.
ActivateArtifact(c) ==
  LET a == caller[c].a
  IN
  /\ At(c, "activate")
  /\ IF custody[a] \in {"PREPARED", "APPROVED"}
     THEN SetCustody(a, "ACTIVE") /\ AppendEvent("ARTIFACT_ACTIVATED", a)
     ELSE UNCHANGED <<custody, log>>
  /\ Return(c)
  /\ UNCHANGED <<floor, gate, tried, deleted>>

-----------------------------------------------------------------------------

Crash(c) ==
  /\ ~At(c, "idle")
  /\ Return(c)
  /\ UNCHANGED <<floor, gate, tried, artifacts, log>>

Review ==
  \E a \in Artifacts :
    \/ AddArtifact(a) \/ RequestDeletion(a)
    \/ \E v \in {"APPROVED", "REJECTED"} : ReviewCandidate(a, v)

Advance(c) ==
  \/ \E t \in Attempts, new, back \in Floors : AdvanceFloor(c, t, new, back)
  \/ PrepareFloor(c) \/ CommitFloor(c) \/ QuarantineFloor(c)

Activation(c) ==
  \/ \E a \in Artifacts : Activate(c, a)
  \/ ReadGate(c) \/ LazyBootstrap(c) \/ ActivateArtifact(c)

Next ==
  \/ Review \/ BootstrapWorkspace
  \/ \E c \in Callers : Advance(c) \/ Activation(c) \/ Crash(c)

Spec == Init /\ [][Next]_vars

-----------------------------------------------------------------------------

Row == [gen : 0 .. MaxGen, ck : Floors \cup {Genesis, None},
        st : {"none", Stable, Prepared, Quarantined}]

Call == [pc : {"idle", "prepare", "readback", "gate", "bootstrap", "activate"},
         a : Artifacts \cup {None}, row : Row, new : Floors \cup {None},
         back : Floors \cup {None}, t : Attempts \cup {None}]

\* Types of the rows and of the locals of the calls.
TypeOK ==
  /\ floor \in Row
  /\ gate \in {"none", "CLEAR", "FRESH_CHALLENGE_REQUIRED"}
  /\ tried \subseteq Attempts
  /\ custody \in [Artifacts -> {"none", "PREPARED", "APPROVED", "ACTIVE"}]
  /\ deleted \subseteq {a \in Artifacts : custody[a] # "none"}
  /\ caller \in [Callers -> Call]

\* A quarantined floor withholds serving in every state, and serving starts
\* again only with a floor that was committed or bootstrapped: however two
\* updates of the floor, the bootstrap that an activation does on its way, and
\* crashes interleave.
QuarantineWithholds ==
  /\ floor.st = Quarantined => ~AllowsServing
  /\ AllowsServing => floor.st \in {Stable, Prepared}

\* The audit log never lags behind the rows it is about: an artifact that is
\* active, under deletion or approved, and a floor that was advanced, have the
\* event that says so, wherever a caller died.
EventsComplete ==
  /\ \A a \in Artifacts :
       /\ custody[a] = "ACTIVE" => <<"ARTIFACT_ACTIVATED", a>> \in log
       /\ custody[a] = "APPROVED" => <<"APPROVED", a>> \in log
       /\ a \in deleted => <<"FORGET_REQUESTED", a>> \in log
  /\ floor.ck \in Floors => <<"FLOOR_STABILIZED", floor.ck>> \in log
  /\ floor.st = Quarantined =>
       \E t \in Attempts : <<"FLOOR_QUARANTINED", t>> \in log

\* Nothing is served while the floor is quarantined, and no artifact or floor
\* changed without the event that says so, wherever a caller died
\* (advance_floor, quarantine, approve, activate_artifact).
FloorIsHonest == TypeOK /\ QuarantineWithholds /\ EventsComplete

\* bootstrap_workspace promises to be safe to call more than once, and
\* advance_floor calls the floor forward-only: no step lowers its generation.
FloorForwardOnly == [][floor'.gen >= floor.gen]_vars

-----------------------------------------------------------------------------
(* The inductive invariant behind FloorIsHonest.                           *)

\* The row that an update of the floor read may be old, and is still one that
\* was stable, below the bound and recorded in the log.
CallIsRecorded(c) ==
  /\ caller[c].pc \in {"prepare", "readback"} =>
       /\ caller[c].t \in Attempts /\ caller[c].new \in Floors
       /\ caller[c].row.st = Stable /\ caller[c].row.gen < MaxGen
       /\ caller[c].row.ck \in Floors => <<"FLOOR_STABILIZED", caller[c].row.ck>> \in log
  /\ caller[c].pc \in {"gate", "bootstrap", "activate"} => caller[c].a \in Artifacts

FloorInvariant == FloorIsHonest /\ \A c \in Callers : CallIsRecorded(c)
=============================================================================
