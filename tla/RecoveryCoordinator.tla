------------------------ MODULE RecoveryCoordinator ------------------------
(***************************************************************************)
(* Clean-room restore of a recovery set (memory_core/recovery.py), with    *)
(* the deletion overlays of a V2 source and their rows in the lifecycle    *)
(* database (infrastructure/lifecycle_db.py, deletion.py).                 *)
(*                                                                         *)
(* Source, overlay provider, write freeze and restore target are ports.    *)
(* Source and provider may answer anything at every call; the freeze is    *)
(* exclusive; every call on a port may raise.  Ids are content digests, so *)
(* a manifest is its own id, and an overlay is known by its place in the   *)
(* chain its signer has issued.                                            *)
(***************************************************************************)
EXTENDS Naturals, Sequences, FiniteSets, Relation

CONSTANTS
  Coordinators,  \* processes that restore the workspace
  Items,         \* recovery items
  Required,      \* the items of the minimum recovery categories
  SignedItems,   \* items of a category that is signed
  None,
  MaxOverlays    \* bound: overlays that are issued

\* A freeze that is free has no holder.
RecoveryAssumption == None \notin Coordinators

VARIABLES
  anchor,     \* RecoveryTrustAnchor.expected_manifest_id
  issued,     \* the overlays signed for that manifest: sets of deleted items
  vetoes,     \* recovery_deletion_overlay and _veto rows: overlay -> items
  freeze,     \* holder of the write freeze
  restores,   \* committed restore sessions
  evidence,   \* RecoveryEvidence that was returned
  leaked,     \* ghost: coordinators that did not release their freeze
  co          \* the locals of every call

vars == <<anchor, issued, vetoes, freeze, restores, evidence, leaked, co>>

-----------------------------------------------------------------------------
(* contracts                                                               *)

\* RecoveryItem: nothing depends on itself.
ItemOK(i, deps) == <<i, i>> \notin deps

\* RecoverySignatureBinding and RecoveryQuerySpec name items and generations
\* of their manifest.
BindingsOK(m) == m.bound \subseteq m.items

\* _assert_acyclic: no item depends on itself along any path.
Acyclic(m) ==
  LET depends == [i, j \in m.items |-> <<i, j>> \in m.deps]
  IN  \A i \in m.items : ~TransitiveClosure(depends, m.items)[i, i]

\* _validate_inventory: the minimum set is there, no dependency is missing or
\* circular, and every signed artifact has a binding of its purpose.
ValidateInventory(m) ==
  /\ Required \subseteq m.items
  /\ \A d \in m.deps : d[1] \in m.items /\ d[2] \in m.items /\ ItemOK(d[1], m.deps)
  /\ m.items \cap SignedItems \subseteq m.bound
  /\ BindingsOK(m)

Inventory ==
  [items : SUBSET Items, deps : SUBSET (Items \X Items), bound : SUBSET Items]

\* RecoveryManifest: what its constructor lets exist.
Manifests == {m \in Inventory : ValidateInventory(m) /\ Acyclic(m)}

\* SignedRecoveryManifest: its signature covers all of it.
SignedManifests == [man : Manifests, signer : {"anchor", "other"}]

\* SignedRecoveryManifest.verify: manifest and signer are the pinned ones.
VerifySigned(s) == s.man = anchor /\ s.signer = "anchor"

\* RecoveryTargetStatus as the target reports it: what agrees with the
\* manifest.
Pointers == {"state_root", "publication", "checkpoint", "projections",
              "queries"}

\* RecoveryEvidence.create.
Evidence(c, status) == [status |-> status, of |-> co[c].of]

-----------------------------------------------------------------------------

Idle == [pc |-> "idle", man |-> None, head |-> 0, deleted |-> {},
         of |-> None, staged |-> {}, agree |-> {}, done |-> FALSE]

Init ==
  /\ anchor \in Manifests
  /\ issued = <<{}>>
  /\ vetoes = <<>>
  /\ freeze = None
  /\ restores = {} /\ evidence = {} /\ leaked = {}
  /\ co = [c \in Coordinators |-> Idle]

At(c, pc) == co[c].pc = pc

Goto(c, pc) == co' = [co EXCEPT ![c].pc = pc]

\* SignedDeletionOverlay.create, by the signer: any set of items.
IssueOverlay ==
  /\ Len(issued) < MaxOverlays
  /\ \E refs \in SUBSET Items : issued' = Append(issued, refs)
  /\ UNCHANGED <<anchor, vetoes, freeze, restores, evidence, leaked, co>>

-----------------------------------------------------------------------------
(* verification                                                            *)

\* _load_key_registry: predecessors form no cycle, and every active key may
\* be used for what it is active for.
LoadKeyRegistry(keys) == keys.sound

\* _verify_registry_snapshot: canonical, of the supported version, and of the
\* digest it names.
VerifyRegistrySnapshot(snapshots) == "bad" \notin snapshots

\* The bundle: every item has length and digest of its entry, the key registry
\* is the pinned one, and the bound artifacts verify with its keys.
VerifyItems(m, payload, keys, snapshots) ==
  /\ \A i \in m.items : payload[i] = "good"
  /\ LoadKeyRegistry(keys) /\ keys.pinned
  /\ VerifyRegistrySnapshot(snapshots)
  /\ m.bound \cap keys.forged = {}

\* _verify_deletion_overlay: the chain of the provider starts at zero, each of
\* its members is signed and names the one before, and it ends in the head
\* that was served.  Zero stands for an overlay of another signer.
VerifyDeletionOverlay(chain, head) ==
  /\ chain # <<>> /\ head \in 1 .. Len(issued)
  /\ chain[Len(chain)] = head
  /\ \A i \in DOMAIN chain : chain[i] = i

Keys == [sound : BOOLEAN, pinned : BOOLEAN,
         forged : SUBSET SignedItems]

\* What the provider may answer: any list of overlays.
Chains == UNION {[1 .. n -> 0 .. Len(issued)] : n \in 0 .. Len(issued)}

\* What source and provider may answer; an item that cannot be read is a bad
\* one.
Answers ==
  [payload : [Items -> {"good", "bad"}], keys : Keys,
   snapshots : SUBSET {"bad"}]

\* _verify_bundle.
VerifyBundle(s, a, chain, head) ==
  /\ VerifySigned(s)
  /\ VerifyItems(s.man, a.payload, a.keys, a.snapshots)
  /\ VerifyDeletionOverlay(chain, head)

\* What has been verified of a bundle.
Verified(s, a) ==
  [man |-> s.man, bad |-> {i \in s.man.items : a.payload[i] # "good"},
   keys |-> a.keys.pinned, forged |-> a.keys.forged \cap s.man.bound]

\* dry_run: only verifies.
DryRun(c, s, a, chain, head) ==
  /\ At(c, "idle")
  /\ VerifyBundle(s, a, chain, head)
  /\ evidence' = evidence \cup {[status |-> "verified", of |-> Verified(s, a)]}
  /\ UNCHANGED <<anchor, issued, vetoes, freeze, restores, leaked, co>>

-----------------------------------------------------------------------------
(* restore                                                                 *)

\* The manifest is read once to name the freeze, and before it is verified.
Preview(c) ==
  /\ At(c, "idle") /\ c \notin leaked
  /\ \E s \in SignedManifests :
       co' = [co EXCEPT ![c].pc = "freeze", ![c].man = s.man]
  /\ UNCHANGED <<anchor, issued, vetoes, freeze, restores, evidence, leaked>>

AcquireFreeze(c) ==
  /\ At(c, "freeze")
  /\ IF freeze = None THEN freeze' = c /\ Goto(c, "verify")
     ELSE UNCHANGED freeze /\ co' = [co EXCEPT ![c] = Idle]
  /\ UNCHANGED <<anchor, issued, vetoes, restores, evidence, leaked>>

\* The manifest is read again under the freeze and must be the same.
VerifyFrozen(c, s, a, chain, head) ==
  /\ At(c, "verify")
  /\ s.man = co[c].man /\ VerifyBundle(s, a, chain, head)
  /\ co' = [co EXCEPT ![c].pc = "apply", ![c].head = head,
                      ![c].of = Verified(s, a)]
  /\ UNCHANGED <<anchor, issued, vetoes, freeze, restores, evidence, leaked>>

\* Mutant: the continuity test is left out.
Mut_PersistOverlay(o) ==
  /\ vetoes' = IF o \in DOMAIN vetoes THEN vetoes
               ELSE [p \in DOMAIN vetoes \cup {o} |->
                       IF p = o THEN issued[o] ELSE vetoes[p]]

\* persist_verified_recovery_deletion_overlay: an overlay that is there
\* already is taken again, whether or not it is the newest; a new one must
\* follow the head.
PersistOverlay(o) ==
  \/ o \in DOMAIN vetoes /\ UNCHANGED vetoes
  \/ o = Len(vetoes) + 1 /\ vetoes' = Append(vetoes, issued[o])

\* apply_verified_overlay and redeem_applied_overlay: rows and token are one
\* transaction, and the token gives back the rows of its own overlay.
ApplyOverlay(c) ==
  LET o == co[c].head
  IN
  /\ At(c, "apply")
  /\ PersistOverlay(o)
  /\ co' = [co EXCEPT ![c].pc = "begin", ![c].deleted = vetoes'[o]]
  /\ UNCHANGED <<anchor, issued, freeze, restores, evidence, leaked>>

\* Mutant: the deleted items are staged as well.
Mut_Stage(c) ==
  /\ At(c, "begin")
  /\ co' = [co EXCEPT ![c].pc = "status", ![c].staged = co[c].man.items]
  /\ UNCHANGED <<anchor, issued, vetoes, freeze, restores, evidence, leaked>>

\* begin_restore and stage_item for every item the overlay leaves.
Stage(c) ==
  /\ At(c, "begin")
  /\ co' = [co EXCEPT ![c].pc = "status",
                      ![c].staged = co[c].man.items \ co[c].deleted]
  /\ UNCHANGED <<anchor, issued, vetoes, freeze, restores, evidence, leaked>>

\* restore_authoritative, rebuild_materializations, status and the sample
\* queries: all that the target reports must agree with the manifest.
VerifyStatus(c, agree) ==
  /\ At(c, "status")
  /\ IF agree = Pointers
     THEN co' = [co EXCEPT ![c].pc = "commit", ![c].agree = agree]
     ELSE Goto(c, "release")
  /\ UNCHANGED <<anchor, issued, vetoes, freeze, restores, evidence, leaked>>

CommitRestore(c) ==
  /\ At(c, "commit")
  /\ restores' = restores \cup {[of |-> co[c].of, staged |-> co[c].staged,
                                 agree |-> co[c].agree, overlay |-> co[c].head]}
  /\ evidence' = evidence \cup {Evidence(c, "restored")}
  /\ co' = [co EXCEPT ![c].pc = "release", ![c].done = TRUE]
  /\ UNCHANGED <<anchor, issued, vetoes, freeze, leaked>>

\* Any step may raise: an open session is aborted, which may fail unnoticed.
Raise(c) ==
  /\ co[c].pc \in {"verify", "apply", "begin", "status", "commit"}
  /\ Goto(c, "release")
  /\ UNCHANGED <<anchor, issued, vetoes, freeze, restores, evidence, leaked>>

\* Mutant: the freeze is released only after a restore that succeeded.
Mut_ReleaseFreeze(c) ==
  /\ At(c, "release")
  /\ IF co[c].done THEN freeze' = None /\ UNCHANGED leaked
     ELSE UNCHANGED <<freeze, leaked>>
  /\ co' = [co EXCEPT ![c] = Idle]
  /\ UNCHANGED <<anchor, issued, vetoes, restores, evidence>>

\* The finally clause.  A release that fails is reported only when the restore
\* was committed.
ReleaseFreeze(c) ==
  /\ At(c, "release")
  /\ \/ freeze' = None /\ UNCHANGED leaked
     \/ UNCHANGED freeze /\ leaked' = leaked \cup {c}
  /\ co' = [co EXCEPT ![c] = Idle]
  /\ UNCHANGED <<anchor, issued, vetoes, restores, evidence>>

\* The process dies; nothing in the code gives its freeze back.
Crash(c) ==
  /\ ~At(c, "idle") /\ c \notin leaked
  /\ leaked' = IF freeze = c THEN leaked \cup {c} ELSE leaked
  /\ co' = [co EXCEPT ![c] = Idle]
  /\ UNCHANGED <<anchor, issued, vetoes, freeze, restores, evidence>>

\* A call that verifies; the answers are drawn in the order they are tested.
Verification(c) ==
  /\ co[c].pc \in {"idle", "verify"}
  /\ \E chain \in Chains, head \in 0 .. Len(issued) :
       /\ VerifyDeletionOverlay(chain, head)
       /\ \E s \in SignedManifests : VerifySigned(s) /\
            \E a \in Answers : \/ DryRun(c, s, a, chain, head)
                              \/ VerifyFrozen(c, s, a, chain, head)

Next ==
  \/ IssueOverlay
  \/ \E c \in Coordinators :
       \/ Verification(c)
       \/ Preview(c) \/ AcquireFreeze(c) \/ ApplyOverlay(c) \/ Stage(c)
       \/ \E agree \in SUBSET Pointers : VerifyStatus(c, agree)
       \/ CommitRestore(c)
       \/ Raise(c) \/ ReleaseFreeze(c) \/ Crash(c)

Spec == Init /\ [][Next]_vars

-----------------------------------------------------------------------------

Bundle == [man : Inventory, bad : SUBSET Items, keys : BOOLEAN, forged : SUBSET Items]

Call ==
  [pc : {"idle", "freeze", "verify", "apply", "begin", "status", "commit", "release"},
   man : Inventory \cup {None}, head : Nat, deleted : SUBSET Items,
   of : Bundle \cup {None}, staged : SUBSET Items, agree : SUBSET Pointers, done : BOOLEAN]

\* Types of the rows, of the ports and of the locals.
TypeOK ==
  /\ anchor \in Inventory
  /\ issued \in Seq(SUBSET Items) /\ vetoes \in Seq(SUBSET Items)
  /\ freeze \in Coordinators \cup {None} /\ leaked \subseteq Coordinators
  /\ co \in [Coordinators -> Call]

\* Evidence speaks only of the pinned manifest with every item intact, its
\* own key registry and no forged artifact; a restore that was committed is
\* one of those, all the target reported agreed with it, and it holds
\* exactly the items that the overlay it applied leaves.  The overlays in the
\* database are the issued ones without a gap, so what they delete stays
\* vetoed.
RestoreIsVerified ==
  /\ \A e \in {x.of : x \in evidence \cup restores} :
       e = [man |-> anchor, bad |-> {}, keys |-> TRUE, forged |-> {}]
  /\ \A r \in restores :
       /\ r.agree = Pointers
       /\ r.overlay \in DOMAIN vetoes
       /\ r.staged = anchor.items \ issued[r.overlay]
  /\ vetoes \in Seq(SUBSET Items)
  /\ \A o \in DOMAIN vetoes : vetoes[o] = issued[o]

\* The freeze is held while anything is staged or applied, and whatever fails
\* it is not left behind by a call that returned, unless its own release
\* failed.
FreezeIsReturned ==
  \A c \in Coordinators :
    /\ co[c].pc \in {"apply", "begin", "status", "commit"} => freeze = c
    /\ freeze = c => ~At(c, "idle") \/ c \in leaked

\* A restore holds what its verified manifest and the issued overlays leave and
\* nothing else, and a coordinator that returned holds no freeze, whichever of
\* its steps failed (RecoveryCoordinator.restore).
RestoreIsSafe == TypeOK /\ RestoreIsVerified /\ FreezeIsReturned

-----------------------------------------------------------------------------
(* The inductive invariant behind RestoreIsSafe.                           *)

\* What a verification that succeeds has found.
Intact == [man |-> anchor, bad |-> {}, keys |-> TRUE, forged |-> {}]

Frozen == {"verify", "apply", "begin", "status", "commit", "release"}

\* The overlays in the database are a prefix of the issued ones.
OverlaysFollow ==
  /\ Len(vetoes) <= Len(issued)
  /\ \A o \in 1 .. Len(vetoes) : vetoes[o] = issued[o]

\* From the freeze on a call has it, and each step has what the ones before it
\* established; a freeze without a call was leaked.
CallIsVerified(c) ==
  /\ co[c].pc \in Frozen => freeze = c
  /\ freeze = c => co[c].pc \in Frozen \/ c \in leaked
  /\ co[c].pc \in {"apply", "begin", "status", "commit"} =>
       co[c].man = anchor /\ co[c].of = Intact
  /\ co[c].pc = "apply" => co[c].head \in 1 .. Len(issued)
  /\ co[c].pc \in {"begin", "status", "commit"} =>
       co[c].head \in 1 .. Len(vetoes) /\ co[c].deleted = issued[co[c].head]
  /\ co[c].pc \in {"status", "commit"} => co[c].staged = anchor.items \ co[c].deleted
  /\ co[c].pc = "commit" => co[c].agree = Pointers

\* Evidence and committed restores, by overlay number.
RestoresHold ==
  /\ \A e \in evidence : e.of = Intact
  /\ \A r \in restores :
       /\ r.of = Intact /\ r.agree = Pointers /\ r.overlay \in 1 .. Len(vetoes)
       /\ r.staged = anchor.items \ issued[r.overlay]

RecoveryInvariant ==
  TypeOK /\ OverlaysFollow /\ RestoresHold /\ \A c \in Coordinators : CallIsVerified(c)
=============================================================================
