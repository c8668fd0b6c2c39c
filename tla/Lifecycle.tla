----------------------------- MODULE Lifecycle ------------------------------
(***************************************************************************)
(* The encrypted lifecycle: deletion and its keys, the freshness floor     *)
(* with the review states, the binding registry with recovery, and the     *)
(* Merkle proofs that recovery trusts. Each keeps rows and locals of its   *)
(* own. A behaviour is one of a single component, the active one, and what *)
(* follows says of each what it promises.                                  *)
(***************************************************************************)
EXTENDS EncryptedLifecycle

CONSTANTS
  FloorArtifacts,              \* the artifacts of LifecycleFloor and BindingRegistry
  Floors,
  Attempts, Genesis, MaxGen,   \* LifecycleFloor
  Nonces, MaxHistory, MaxEpoch, \* BindingRegistry
  MaxLeaves, MaxPath, Depth    \* MerkleProofs

VARIABLES
  active,   \* the component of the behaviour
  floor, gate, tried, custody, deleted, log, floorCaller,
  changesets, generations, restored, current, history, consumed, signed, epoch,
  localFloor, recovered, registryCaller,
  proof

Floor == INSTANCE LifecycleFloor
    WITH Artifacts <- FloorArtifacts, caller <- floorCaller

Registry == INSTANCE BindingRegistry
    WITH Artifacts <- FloorArtifacts, caller <- registryCaller

Merkle == INSTANCE MerkleProofs WITH call <- proof

-----------------------------------------------------------------------------

\* Nothing is served while the floor is quarantined, and no artifact or floor
\* changed without the event that says so, wherever a caller died
\* (advance_floor, quarantine, approve, activate_artifact).
FloorIsHonest == active = "floor" => Floor!FloorIsHonest

\* A signed generation names a checkpoint over its own change set, and an
\* accepted recovery had a fresh proof about one signed history that extends
\* what the caller trusted (BindingRegistry, publish_generation, recover).
RegistryIsSound == active = "registry" => Registry!RegistryIsSound

\* The proofs that crypto.py builds are accepted, and no path that is presented
\* instead proves another prefix, another entry or another value
\* (merkle_consistency_proof, merkle_inclusion_proof, smt_proof).
ProofsAreSound == active = "proofs" => Merkle!ConsistencyIsSound /\ Merkle!MembershipIsSound
=============================================================================
