---------------------------- MODULE MCLifecycle -----------------------------
(***************************************************************************)
(* Lifecycle for model checking.                                           *)
(***************************************************************************)
EXTENDS Lifecycle, TLC

Symmetry == Permutations(Callers) \cup Permutations(Artifacts)

floorVars == <<floor, gate, tried, custody, deleted, log, floorCaller>>
registryVars == <<changesets, generations, restored, current, history, consumed, signed,
                  epoch, localFloor, recovered, registryCaller>>
merkleVars == <<proof>>

\* The variables of a component that is not active are off; those of
\* EncryptedLifecycle keep their initial values.
Off == "off"
FloorOff ==
  /\ floor = Off /\ gate = Off /\ tried = Off /\ custody = Off /\ deleted = Off
  /\ log = Off /\ floorCaller = Off
RegistryOff ==
  /\ changesets = Off /\ generations = Off /\ restored = Off /\ current = Off
  /\ history = Off /\ consumed = Off /\ signed = Off /\ epoch = Off
  /\ localFloor = Off /\ recovered = Off /\ registryCaller = Off
MerkleOff ==
  /\ proof = Off

Components == {"deletion", "floor", "registry", "proofs"}

MCInit ==
  /\ active \in Components
  /\ Init
  /\ IF active = "floor" THEN Floor!Init ELSE FloorOff
  /\ IF active = "registry" THEN Registry!Init ELSE RegistryOff
  /\ IF active = "proofs" THEN Merkle!Init ELSE MerkleOff

\* Only the active component takes steps.
MCNext ==
  \/ /\ active = "deletion" /\ Next
     /\ UNCHANGED <<active, floorVars, registryVars, merkleVars>>
  \/ /\ active = "floor" /\ Floor!Next
     /\ UNCHANGED <<active, vars, registryVars, merkleVars>>
  \/ /\ active = "registry" /\ Registry!Next
     /\ UNCHANGED <<active, vars, floorVars, merkleVars>>
  \/ /\ active = "proofs" /\ Merkle!Next
     /\ UNCHANGED <<active, vars, floorVars, registryVars>>

all == <<active, vars, floorVars, registryVars, merkleVars>>

MCSpec == MCInit /\ [][MCNext]_all

-----------------------------------------------------------------------------

ASSUME Floor!FloorAssumption /\ Merkle!MerkleAssumption
=============================================================================
