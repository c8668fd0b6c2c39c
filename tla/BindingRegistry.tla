-------------------------- MODULE BindingRegistry --------------------------
(***************************************************************************)
(* Accepted change sets, the signed generations made from them, the        *)
(* binding registry they are recorded in, and the recovery proofs about    *)
(* that registry which let an artifact be restored                         *)
(* (infrastructure/binding_registry.py, recovery.py, changeset.py,         *)
(* lifecycle_db.py and applications/encrypted_lifecycle_pipeline.py).      *)
(*                                                                         *)
(* The registry is memory of the process: a restart begins a new one,      *)
(* signed with the same key, so two signed histories may fork.  A hash     *)
(* stands for what it is the hash of: a history root is the history, the   *)
(* sparse map root its newest leaf.  The local floor is moved by           *)
(* LifecycleFloor, whose serve gate may withhold any restore.              *)
(***************************************************************************)
EXTENDS Naturals, Sequences, FiniteSets, SequencesExt

CONSTANTS
  Callers,     \* threads that call the pipeline
  Artifacts,   \* artifact ids, each of a command of its own
  Floors,      \* checkpoint ids of the local floor
  Nonces,      \* request nonces of attestations
  None,
  MaxHistory,  \* bound: leaves of a registry
  MaxEpoch     \* bound: restarts

VARIABLES
  changesets,  \* accepted_changeset
  generations, \* generation rows: change set and checkpoint
  restored,    \* artifacts that restore made ACTIVE
  current,     \* callers that have read the present head of the event chain
  history,     \* BindingRegistry._leaves of the running process
  consumed,    \* BindingRegistry._consumed_nonces
  signed,      \* attestations and checkpoints that were signed
  epoch,       \* how often the process was restarted
  localFloor,  \* floor_state.stable_checkpoint_id
  recovered,   \* ghost: the proofs that a recovery accepted
  caller       \* the locals of every call

rows     == <<changesets, generations, restored>>
registry == <<history, consumed, signed, epoch>>
vars     == <<rows, current, registry, localFloor, recovered, caller>>

Idle == [pc |-> "idle", a |-> None, hist |-> <<>>, next |-> "idle"]

\* The tables, empty, and a registry without leaves.
Init ==
  /\ changesets = {} /\ generations = {} /\ restored = {}
  /\ current = {}
  /\ history = <<>> /\ consumed = {} /\ signed = {} /\ epoch = 0
  /\ localFloor \in Floors
  /\ recovered = {}
  /\ caller = [c \in Callers |-> Idle]

At(c, pc) == caller[c].pc = pc

Goto(c, pc) == caller' = [caller EXCEPT ![c].pc = pc]

Return(c) == caller' = [caller EXCEPT ![c] = Idle]

\* UnitOfWork.append_event: the head is read in the same transaction.
AppendEvent == current' = {}

-----------------------------------------------------------------------------
(* change sets and signed generations                                      *)

StateDelta(a) == [operation |-> "ADD", object |-> a]

\* build_changeset without deltas of its own: an ADD for each artifact of the
\* command.
BuildChangeset(a) == {StateDelta(a)}

\* project_expected_active_revisions: one expectation for each object.
ExpectedActive(cs) == {d.object : d \in cs}

\* The change set id is a digest of what the set holds, so it is its own id.
AcceptedChangeset(a) ==
  [deltas |-> BuildChangeset(a), expected |-> ExpectedActive(BuildChangeset(a))]

\* persist_changeset inserts set, deltas and event together.
PersistChangeset(a) ==
  /\ AcceptedChangeset(a) \notin changesets
  /\ changesets' = changesets \cup {AcceptedChangeset(a)}
  /\ AppendEvent
  /\ UNCHANGED <<generations, restored, registry, localFloor, recovered, caller>>

\* append_leaf takes sequence number and prior hash from the registry's own
\* head, so _validate_chain finds neither gap nor fork.
AppendLeaf(a) ==
  /\ Len(history) < MaxHistory
  /\ history' = Append(history, a)

\* The sparse map holds the newest leaf of the handle.
CurrentLeaf(h) == IF h = <<>> THEN None ELSE Last(h)

\* create_generation reads the change set and appends a leaf for each delta.
CreateGeneration(c, a) ==
  /\ At(c, "idle") /\ AcceptedChangeset(a) \in changesets
  /\ AppendLeaf(a)
  /\ caller' = [caller EXCEPT ![c].pc = "checkpoint", ![c].a = a]
  /\ UNCHANGED <<rows, current, consumed, signed, epoch, localFloor, recovered>>

\* Mutant: the root is one from before the leaf was appended.
Mut_Checkpoint(c) ==
  LET before == Front(history)
  IN
  /\ At(c, "checkpoint")
  /\ signed' = signed \cup {[kind |-> "checkpoint", hist |-> before]}
  /\ caller' = [caller EXCEPT ![c].pc = "sign", ![c].hist = before]
  /\ UNCHANGED <<rows, current, history, consumed, epoch, localFloor, recovered>>

\* checkpoint: signs the size and the root of the history as it is now.
Checkpoint(c) ==
  /\ At(c, "checkpoint")
  /\ signed' = signed \cup {[kind |-> "checkpoint", hist |-> history]}
  /\ caller' = [caller EXCEPT ![c].pc = "sign", ![c].hist = history]
  /\ UNCHANGED <<rows, current, history, consumed, epoch, localFloor, recovered>>

\* insert_generation: the generation id is a digest of the change set, so a
\* second one for it fails on the primary key.
InsertGeneration(c) ==
  LET a == caller[c].a
  IN
  /\ At(c, "sign")
  /\ IF \E g \in generations : g.cs = a THEN UNCHANGED <<generations, current>>
     ELSE /\ generations' = generations \cup
                            {[cs |-> a, ck |-> caller[c].hist]}
          /\ AppendEvent
  /\ Return(c)
  /\ UNCHANGED <<changesets, restored, registry, localFloor, recovered>>

-----------------------------------------------------------------------------
(* recovery proofs                                                         *)

\* attest: a signed answer about the live history, to a request that names a
\* nonce and the floor of the one who asks.
Attest(nonce, ck) ==
  /\ ~\E s \in signed : s.kind = "attestation" /\ s.nonce = nonce
                          /\ s.epoch = epoch
  /\ signed' = signed \cup {[kind |-> "attestation", hist |-> history,
                                 nonce |-> nonce, floor |-> ck,
                                 epoch |-> epoch]}
  /\ UNCHANGED <<rows, current, history, consumed, epoch, localFloor, recovered, caller>>

\* build_proof_set: attestation and checkpoint are handed in, the proofs are
\* built from the history of the registry at that moment.
ProofSet(att, ck, old) ==
  [att |-> att, ck |-> ck.hist, hist |-> history, old |-> old]

Window == 5
Skew   == 1

\* _assert_attestation_fresh, in units of the skew: the validity window is at
\* most the freshness window, and the trusted clock is inside both, up to the
\* skew.
AttestationFresh(issued, expires, now) ==
  /\ expires >= issued /\ expires - issued <= Window
  /\ now + Skew >= issued /\ now <= issued + Window + Skew
  /\ now <= expires + Skew

\* Mutant: a proof whose attestation names another floor is accepted.
Mut_VerifyAttestation(p, asked, fresh) ==
  /\ fresh /\ p.att.nonce \notin consumed
  /\ p.att.hist = p.ck

\* verify_proof_set, its first half: the attestation is in its time window and
\* not consumed, and names the local floor; attestation and checkpoint commit
\* to the same history.
VerifyAttestation(p, asked, fresh) ==
  /\ fresh /\ p.att.nonce \notin consumed
  /\ p.att.floor = asked
  /\ p.att.hist = p.ck

\* The second half: the consistency proof ends in that history, and so do the
\* inclusion proof of the current leaf, when there is one, and the sparse
\* proof.  An audit path is that of the history it was built from.
VerifyHistory(p) ==
  /\ Len(p.hist) = Len(p.ck) /\ p.old <= Len(p.hist)
  /\ (p.old \in 1 .. Len(p.hist) - 1 \/ p.hist # <<>>) => p.hist = p.ck
  /\ CurrentLeaf(p.hist) = CurrentLeaf(p.ck)

\* _recover_delta_continuity: the proof starts at the size of the local
\* history, and the old root it reconstructs is the local one.
DeltaContinuity(p, local) ==
  /\ p.old = Len(local) /\ p.old \in 1 .. Len(p.hist) - 1
  /\ SubSeq(p.hist, 1, p.old) = local

\* _recover_authoritative_snapshot compares the signed checkpoint id with
\* the checkpoint, whose signature verify_proof_set has checked.
AuthoritativeSnapshot(p) == p.att.hist = p.ck

\* recover verifies and decides; an accepted proof consumes its nonce, even
\* when the mode then refuses it.  The head of the event chain is read.
Recover(c, a, p, mode, local, asked, fresh) ==
  LET ok == VerifyAttestation(p, asked, fresh) /\ VerifyHistory(p)
      yes == ok /\ IF mode = "DELTA_CONTINUITY" THEN DeltaContinuity(p, local)
                   ELSE AuthoritativeSnapshot(p)
  IN
  /\ At(c, "idle")
  /\ consumed' = IF ok THEN consumed \cup {p.att.nonce} ELSE consumed
  /\ recovered' = IF yes THEN recovered \cup
                    {[mode |-> mode, local |-> local, proof |-> p,
                      floor |-> asked, by |-> epoch]}
                  ELSE recovered
  /\ caller' = [caller EXCEPT ![c].pc = "record", ![c].a = a,
                              ![c].next = IF yes THEN "serve" ELSE "idle"]
  /\ current' = current \cup {c}
  /\ UNCHANGED <<rows, history, signed, epoch, localFloor>>

\* LifecycleDatabase.append_event refuses a head that has moved since: the
\* decision is lost with the call, and its nonce stays consumed.
RecordDecision(c) ==
  /\ At(c, "record")
  /\ IF c \notin current THEN Return(c) /\ UNCHANGED current
     ELSE /\ AppendEvent
          /\ IF caller[c].next = "idle" THEN Return(c) ELSE Goto(c, "serve")
  /\ UNCHANGED <<rows, registry, localFloor, recovered>>

\* restore asks can_serve after the proof, which may withhold it,
CanServe(c) ==
  /\ At(c, "serve")
  /\ Goto(c, "restore") \/ Return(c)
  /\ UNCHANGED <<rows, current, registry, localFloor, recovered>>

\* and releases the artifact whatever its custody state.
Restore(c) ==
  /\ At(c, "restore")
  /\ restored' = restored \cup {caller[c].a}
  /\ AppendEvent
  /\ Return(c)
  /\ UNCHANGED <<changesets, generations, registry, localFloor, recovered>>

-----------------------------------------------------------------------------

\* The process is restarted: the calls are gone, and the registry with its
\* history and its consumed nonces.
Restart ==
  /\ epoch < MaxEpoch
  /\ epoch' = epoch + 1
  /\ history' = <<>> /\ consumed' = {} /\ current' = {}
  /\ caller' = [c \in Callers |-> Idle]
  /\ UNCHANGED <<rows, signed, localFloor, recovered>>

\* advance_floor commits another floor.
MoveFloor ==
  /\ localFloor' \in Floors
  /\ UNCHANGED <<rows, current, registry, recovered, caller>>

Attestations == {s \in signed : s.kind = "attestation"}
Checkpoints  == {s \in signed : s.kind = "checkpoint"}

\* Histories that a caller may have verified before and trusts.
Locals == {s.hist : s \in signed}

\* What the window says at its edges, of an attestation issued at 2.
Freshness == {AttestationFresh(2, e, n) : e \in {1, 2, 2 + Window, 3 + Window},
                                          n \in {0, 1, 2 + Window + Skew, 3 + Window + Skew}}

\* A snapshot needs no local history.
Anchors == {<<"DELTA_CONTINUITY", h>> : h \in Locals}
             \cup {<<"AUTHORITATIVE_SNAPSHOT", <<>>>>}

StartRecovery(c) ==
  /\ At(c, "idle")
  /\ \E a \in Artifacts, att \in Attestations, ck \in Checkpoints,
        anchor \in Anchors, fresh \in Freshness, old \in 0 .. Len(history) :
       Recover(c, a, ProofSet(att, ck, old), anchor[1], anchor[2], localFloor, fresh)

Next ==
  \/ \E a \in Artifacts : PersistChangeset(a)
  \/ \E n \in Nonces, ck \in Floors : Attest(n, ck)
  \/ \E c \in Callers :
       \/ \E a \in Artifacts : CreateGeneration(c, a)
       \/ Checkpoint(c) \/ InsertGeneration(c)
       \/ StartRecovery(c) \/ RecordDecision(c) \/ CanServe(c) \/ Restore(c)
  \/ Restart \/ MoveFloor

Spec == Init /\ [][Next]_vars

-----------------------------------------------------------------------------

Call == [pc : {"idle", "checkpoint", "sign", "record", "serve", "restore"},
         a : Artifacts \cup {None}, hist : Seq(Artifacts), next : {"idle", "serve"}]

\* Types of the registry and of the locals of the calls.
TypeOK ==
  /\ history \in Seq(Artifacts) /\ epoch \in Nat
  /\ \A s \in signed : s.hist \in Seq(Artifacts)
  /\ caller \in [Callers -> Call]

\* The checkpoint named by a signed generation commits to the leaves of that
\* generation's own change set, and is one the registry signed: whatever other
\* callers appended to the registry between the leaves and the checkpoint.
GenerationIsBound ==
  \A g \in generations :
    /\ AcceptedChangeset(g.cs) \in changesets
    /\ g.cs \in ToSet(g.ck)
    /\ [kind |-> "checkpoint", hist |-> g.ck] \in signed

\* A recovery that was accepted had a proof about one signed history, for the
\* floor that was local then; by continuity, only a history that properly
\* extends the one the caller trusted, never one that a restarted registry
\* forked; and no two recoveries of a process used the same nonce.
RecoveryIsSound ==
  \A r \in recovered :
    /\ r.proof.att.hist = r.proof.ck /\ r.proof.att.floor = r.floor
    /\ r.mode = "DELTA_CONTINUITY" =>
         r.local # r.proof.ck /\ IsPrefix(r.local, r.proof.ck)
    /\ \A q \in recovered :
         q.by = r.by /\ q.proof.att.nonce = r.proof.att.nonce => q = r

\* A signed generation names a checkpoint over its own leaves, and a recovery is
\* accepted only for a history that extends the one the caller trusted, under
\* the local floor, once per nonce (BindingRegistry, RecoveryVerifier).
RegistryIsSound == TypeOK /\ GenerationIsBound /\ RecoveryIsSound

-----------------------------------------------------------------------------
(* The inductive invariant behind RegistryIsSound.                         *)

\* Between its leaf and its row a generation has its change set, its leaf in
\* the history, and then the checkpoint it signed.
CallIsBound(c) ==
  /\ caller[c].pc \in {"checkpoint", "sign"} => AcceptedChangeset(caller[c].a) \in changesets
  /\ caller[c].pc = "checkpoint" => caller[c].a \in ToSet(history)
  /\ caller[c].pc = "sign" =>
       /\ caller[c].a \in ToSet(caller[c].hist)
       /\ [kind |-> "checkpoint", hist |-> caller[c].hist] \in signed

\* The nonce of a recovery of this process is consumed.
NoncesAreConsumed ==
  \A r \in recovered :
    /\ r.by \in Nat /\ r.by <= epoch
    /\ r.by = epoch => r.proof.att.nonce \in consumed

RegistryInvariant ==
  RegistryIsSound /\ NoncesAreConsumed /\ \A c \in Callers : CallIsBound(c)
=============================================================================
