------------------------- MODULE EncryptedLifecycle -------------------------
(***************************************************************************)
(* Capture, recall and deletion of encrypted memories                      *)
(* (applications/encrypted_lifecycle_pipeline.py, infrastructure/mcp.py)   *)
(* over four stores: the lifecycle database, the content store and the     *)
(* platform and recovery key stores.  Several processes call the pipeline  *)
(* and the MCP server; every database transaction and every file operation *)
(* is a step, and a process may die between two of them.                   *)
(*                                                                         *)
(* Review, activation and restore only move the custody state, which no    *)
(* step here reads; the freshness serve gate may withhold any recall.      *)
(***************************************************************************)
EXTENDS Naturals, FiniteSets

CONSTANTS
  Callers,     \* processes that run the pipeline or the MCP server
  Artifacts,   \* artifact ids; the blob of an artifact has the same name
  Reasons,     \* reason_code of forget, part of its command id
  Source,      \* deletions requested by map_source_deletion_request
  None,
  MaxCrashes   \* bound: processes that die in the middle of a call

ASSUME LifecycleAssumption ==
  /\ Source \notin Reasons /\ None \notin Artifacts
  /\ None \notin Reasons \cup {Source}
  /\ MaxCrashes \in Nat

Deletions == Reasons \cup {Source}

VARIABLES
  stored,    \* the artifacts with a canonical_artifact row
  phase,     \* deletion_state.phase_state as its index in _PHASE_ORDER, or 0
  tombs,     \* EncryptedContentStore.tombstones
  platform,  \* platform_keystore: state of every artifact's ARK
  recovery,  \* recovery_keystore
  caller,    \* the locals of every call
  crashes

db   == <<stored, phase>>
keys == <<platform, recovery>>
vars == <<db, tombs, keys, caller, crashes>>

\* DeletionPhase: REQUESTED = 1, API_VETO_ACTIVE = 2, and so on.
Tombstoned    == 3
Checkpointed  == 4
KeysDestroyed == 5
Complete      == 8

Ark == {"absent", "live", "destroyed"}

Call == [op : {"none", "remember", "new_consent", "forget", "resume",
               "recall"},
         pc : {"idle", "ark_platform", "ark_recovery", "accept", "request",
               "tombstone", "advance", "destroy_platform", "destroy_recovery",
               "blob", "dek"},
         a : Artifacts \cup {None}, d : Deletions \cup {None}, phase : 0 .. Complete]

Idle == [op |-> "none", pc |-> "idle", a |-> None, d |-> None, phase |-> 0]

Init ==
  /\ stored = {}
  /\ phase = [a \in Artifacts |-> [d \in Deletions |-> 0]]
  /\ tombs = {}
  /\ platform = [a \in Artifacts |-> "absent"]
  /\ recovery = [a \in Artifacts |-> "absent"]
  /\ caller = [c \in Callers |-> Idle]
  /\ crashes = 0

At(c, pc) == caller[c].pc = pc

Goto(c, pc) == caller' = [caller EXCEPT ![c].pc = pc]

Return(c) == caller' = [caller EXCEPT ![c] = Idle]

Begin(c, op, pc, a, d, n) ==
  caller' = [caller EXCEPT ![c] = [op |-> op, pc |-> pc, a |-> a, d |-> d,
                                   phase |-> n]]

\* is_object_vetoed: a deletion_state row exists, in whatever phase.
Vetoed(a) == \E d \in Deletions : phase[a][d] # 0

-----------------------------------------------------------------------------
(* capture                                                                 *)

\* remember: the envelope is stored, then command, artifact, key state and
\* binding are inserted together; the same content again fails on its
\* primary key.
Remember(c, a) ==
  /\ At(c, "idle") /\ a \notin stored
  /\ stored' = stored \cup {a}
  /\ Begin(c, "remember", "ark_platform", a, None, 0)
  /\ UNCHANGED <<phase, tombs, keys, crashes>>

\* _register_artifact_ark: after the transaction, one store after the other.
RegisterPlatform(c) ==
  LET a == caller[c].a
  IN
  /\ At(c, "ark_platform")
  /\ platform' = [platform EXCEPT ![a] = IF @ = "absent" THEN "live" ELSE @]
  /\ Goto(c, "ark_recovery")
  /\ UNCHANGED <<db, tombs, recovery, crashes>>

RegisterRecovery(c) ==
  LET a == caller[c].a
  IN
  /\ At(c, "ark_recovery")
  /\ recovery' = [recovery EXCEPT ![a] = IF @ = "absent" THEN "live" ELSE @]
  /\ Return(c)
  /\ UNCHANGED <<db, tombs, platform, crashes>>

\* correct: a new revision b of artifact a, sealed under the pipeline's own
\* key; no ARK is registered for it.
Correct(c, a, b) ==
  /\ At(c, "idle") /\ a \in stored /\ b \notin stored
  /\ stored' = stored \cup {b}
  /\ UNCHANGED <<phase, tombs, keys, caller, crashes>>

\* remember_new_consent: the prior deletion must be complete and both absence
\* receipts at hand; these are read before the transaction.
NewConsent(c, a, b) ==
  /\ At(c, "idle") /\ a # b
  /\ \E d \in Deletions : phase[a][d] = Complete
  /\ platform[a] = "destroyed" /\ recovery[a] = "destroyed"
  /\ Begin(c, "new_consent", "accept", b, None, 0)
  /\ UNCHANGED <<db, tombs, keys, crashes>>

\* Its transaction; sealed under the pipeline's own key like a correction.
AcceptConsent(c) ==
  /\ At(c, "accept")
  /\ stored' = stored \cup {caller[c].a}
  /\ Return(c)
  /\ UNCHANGED <<phase, tombs, keys, crashes>>

-----------------------------------------------------------------------------
(* deletion                                                                *)

\* forget: refused when the artifact is already under deletion.
Forget(c, a, d) ==
  /\ At(c, "idle") /\ a \in stored /\ ~Vetoed(a)
  /\ Begin(c, "forget", "request", a, d, 0)
  /\ UNCHANGED <<db, tombs, keys, crashes>>

\* The transaction that inserts command and deletion state: the same command
\* id again fails on the primary key.
Request(c) ==
  LET a == caller[c].a  d == caller[c].d
  IN
  /\ At(c, "request")
  /\ IF phase[a][d] # 0 THEN Return(c) /\ UNCHANGED phase
     ELSE /\ phase' = [phase EXCEPT ![a][d] = 1]
          /\ caller' = [caller EXCEPT ![c].pc = "advance", ![c].phase = 1]
  /\ UNCHANGED <<stored, tombs, keys, crashes>>

\* map_source_deletion_request: requests a deletion unless there is one.
MapSourceDeletion(a) ==
  /\ a \in stored /\ ~Vetoed(a)
  /\ phase' = [phase EXCEPT ![a][Source] = 1]
  /\ UNCHANGED <<stored, tombs, keys, caller, crashes>>

\* Mutant: a complete deletion is driven on.
Mut_Resume(c, a, d) ==
  /\ At(c, "idle")
  /\ phase[a][d] \in 1 .. Complete
  /\ Begin(c, "resume", "tombstone", a, d, phase[a][d])
  /\ UNCHANGED <<db, tombs, keys, crashes>>

\* resume_deletion: reads the committed phase; a complete one is a no-op.
Resume(c, a, d) ==
  /\ At(c, "idle")
  /\ phase[a][d] \in 1 .. Complete - 1
  /\ Begin(c, "resume", "tombstone", a, d, phase[a][d])
  /\ UNCHANGED <<db, tombs, keys, crashes>>

\* Mutant: the phase is written before the keys are destroyed.
Mut_AfterPhase(op, n) ==
  CASE n = Complete -> "idle"
    [] n = Tombstoned - 1 /\ op = "forget" -> "tombstone"
    [] n = KeysDestroyed -> "destroy_platform"
    [] OTHER -> "advance"

\* Where a deletion goes from a phase it has reached: forget writes the
\* tombstone on its way, resume before it starts; both destroy the keys after
\* the checkpoint.
AfterPhase(op, n) ==
  CASE n = Complete -> "idle"
    [] n = Tombstoned - 1 /\ op = "forget" -> "tombstone"
    [] n = Checkpointed -> "destroy_platform"
    [] OTHER -> "advance"

\* Mutant: a deletion resumed after the checkpoint goes on to the next phase.
Mut_Tombstone(c) ==
  /\ At(c, "tombstone")
  /\ tombs' = tombs \cup {caller[c].a}
  /\ Goto(c, "advance")
  /\ UNCHANGED <<db, keys, crashes>>

\* The tombstone in the content store.
Tombstone(c) ==
  /\ At(c, "tombstone")
  /\ tombs' = tombs \cup {caller[c].a}
  /\ Goto(c, IF caller[c].phase = Checkpointed THEN "destroy_platform"
             ELSE "advance")
  /\ UNCHANGED <<db, keys, crashes>>

\* update_deletion_phase: writes the next phase of this call's own count,
\* whatever the row holds.
AdvancePhase(c) ==
  LET a == caller[c].a  d == caller[c].d  n == caller[c].phase + 1
  IN
  /\ At(c, "advance")
  /\ phase' = [phase EXCEPT ![a][d] = n]
  /\ IF n = Complete THEN Return(c)
     ELSE caller' = [caller EXCEPT ![c].phase = n,
                                   ![c].pc = AfterPhase(caller[c].op, n)]
  /\ UNCHANGED <<stored, tombs, keys, crashes>>

\* Mutant: a destroyed key is reported as a missing one.
Mut_DestroyPlatform(c) ==
  LET a == caller[c].a
  IN
  /\ At(c, "destroy_platform")
  /\ IF platform[a] # "live" THEN Return(c) /\ UNCHANGED platform
     ELSE /\ platform' = [platform EXCEPT ![a] = "destroyed"]
          /\ Goto(c, "destroy_recovery")
  /\ UNCHANGED <<db, tombs, recovery, crashes>>

\* CreateOnlyKeyStore.destroy: idempotent on a destroyed key; a key that was
\* never stored fails the deletion, which stays at CHECKPOINT_COMMITTED.
DestroyPlatform(c) ==
  LET a == caller[c].a
  IN
  /\ At(c, "destroy_platform")
  /\ IF platform[a] = "absent" THEN Return(c) /\ UNCHANGED platform
     ELSE /\ platform' = [platform EXCEPT ![a] = "destroyed"]
          /\ Goto(c, "destroy_recovery")
  /\ UNCHANGED <<db, tombs, recovery, crashes>>

DestroyRecovery(c) ==
  LET a == caller[c].a
  IN
  /\ At(c, "destroy_recovery")
  /\ IF recovery[a] = "absent" THEN Return(c) /\ UNCHANGED recovery
     ELSE recovery' = [recovery EXCEPT ![a] = "destroyed"] /\ Goto(c, "advance")
  /\ UNCHANGED <<db, tombs, platform, crashes>>

-----------------------------------------------------------------------------
(* memory_recall and memory_source                                         *)

\* The visibility of an artifact is decided from one database snapshot.
Snapshot(c, a) ==
  /\ At(c, "idle") /\ a \in stored /\ ~Vetoed(a)
  /\ Begin(c, "recall", "blob", a, None, 0)
  /\ UNCHANGED <<db, tombs, keys, crashes>>

\* The serve gate withholds the memory, or its blob is tombstoned, or not.
ReadBlob(c) ==
  /\ At(c, "blob")
  /\ Return(c) \/ (caller[c].a \notin tombs /\ Goto(c, "dek"))
  /\ UNCHANGED <<db, tombs, keys, crashes>>

\* get_ark_dek gives the key, and the plaintext is returned.
Decrypt(c) ==
  /\ At(c, "dek") /\ platform[caller[c].a] = "live"
  /\ Return(c)
  /\ UNCHANGED <<db, tombs, keys, crashes>>

KeyUnavailable(c) ==
  /\ At(c, "dek") /\ platform[caller[c].a] # "live"
  /\ Return(c)
  /\ UNCHANGED <<db, tombs, keys, crashes>>

-----------------------------------------------------------------------------

Crash(c) ==
  /\ ~At(c, "idle") /\ crashes < MaxCrashes
  /\ crashes' = crashes + 1
  /\ Return(c)
  /\ UNCHANGED <<db, tombs, keys>>

Step(c) ==
  \/ RegisterPlatform(c) \/ RegisterRecovery(c) \/ AcceptConsent(c)
  \/ Request(c) \/ Tombstone(c) \/ AdvancePhase(c)
  \/ DestroyPlatform(c) \/ DestroyRecovery(c)
  \/ ReadBlob(c) \/ Decrypt(c) \/ KeyUnavailable(c)

Start(c, a) ==
  \/ Remember(c, a) \/ Snapshot(c, a)
  \/ \E b \in Artifacts : Correct(c, a, b) \/ NewConsent(c, a, b)
  \/ \E d \in Reasons : Forget(c, a, d)
  \/ \E d \in Deletions : Resume(c, a, d)

Next ==
  \/ \E c \in Callers : Step(c) \/ Crash(c)
  \/ \E c \in Callers, a \in Artifacts : Start(c, a)
  \/ \E a \in Artifacts : MapSourceDeletion(a)

Spec == Init /\ [][Next]_vars

\* A call that was started goes on, and interrupted deletions are resumed
\* again and again.
FairSpec ==
  /\ Spec
  /\ \A c \in Callers : WF_vars(Step(c))
  /\ \A c \in Callers, a \in Artifacts, d \in Deletions : SF_vars(Resume(c, a, d))

-----------------------------------------------------------------------------

\* Types of the stores and of the locals of the calls.
TypeOK ==
  /\ stored \subseteq Artifacts
  /\ phase \in [Artifacts -> [Deletions -> 0 .. Complete]]
  /\ tombs \subseteq Artifacts
  /\ platform \in [Artifacts -> Ark] /\ recovery \in [Artifacts -> Ark]
  /\ caller \in [Callers -> Call]
  /\ crashes \in 0 .. MaxCrashes

\* What a committed phase says about the other stores is true in every state,
\* although those stores are written outside the transaction, and although
\* resumed and interrupted calls of several processes write the phase: the
\* blob is tombstoned, and no copy of the key is left or will ever be.
PhaseIsTrue ==
  \A a \in Artifacts, d \in Deletions :
    /\ phase[a][d] >= Tombstoned => a \in tombs
    /\ phase[a][d] >= KeysDestroyed =>
         platform[a] = "destroyed" /\ recovery[a] = "destroyed"

\* No recall obtains the plaintext of an artifact whose deletion claims that
\* its keys are destroyed, however old the recall's snapshot is.
NoPlaintextAfterShred ==
  [][\A c \in Callers : Decrypt(c) =>
       \A d \in Deletions : phase[caller[c].a][d] < KeysDestroyed]_vars

\* A deletion of an artifact whose keys were registered completes when it is
\* resumed, whichever steps were lost in a crash.
RegisteredForgetCompletes ==
  \A a \in Artifacts :
    (Vetoed(a) /\ platform[a] # "absent" /\ recovery[a] # "absent")
      ~> \E d \in Deletions : phase[a][d] = Complete

\* What _register_artifact_ark says of every artifact revision: its key is in
\* both key stores and a FORGET later destroys both copies, so every deletion
\* that is requested completes.
ForgetCompletes ==
  \A a \in Artifacts : Vetoed(a) ~> \E d \in Deletions : phase[a][d] = Complete
=============================================================================
