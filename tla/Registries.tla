----------------------------- MODULE Registries -----------------------------
(***************************************************************************)
(* The schema, kind and historical key registries                          *)
(* (memory_core/registries.py): read-old/write-new schemas, explicit       *)
(* kinds, and keys that verify what they signed after their rotation.      *)
(* There is one schema family and one purpose and domain of signatures.    *)
(***************************************************************************)
EXTENDS Naturals, FiniteSets

CONSTANTS
  Kinds,        \* kind names
  KeyIds,       \* signing keys
  None,
  MaxVersion,   \* bound: schema versions
  MaxTime       \* bound: the clock

Versions == 1 .. MaxVersion

VARIABLES
  schemas,     \* SchemaRegistry._definitions: version -> writable
  writeVer,    \* SchemaRegistry._write_versions, zero when there is none
  migrations,  \* SchemaRegistry._migrations: version -> version
  kinds,       \* KindRegistry._definitions: kind -> version and creatable
  keys,        \* HistoricalKeyRegistry._records
  active,      \* HistoricalKeyRegistry._active
  clock,
  signatures,  \* ghost: signatures made with the active key while it was valid
  retired      \* ghost: kinds that were retired

schemaVars == <<schemas, writeVer, migrations>>
keyVars    == <<keys, active, signatures>>
vars       == <<schemaVars, kinds, keyVars, clock, retired>>

With(f, x, v) == [y \in DOMAIN f \cup {x} |-> IF y = x THEN v ELSE f[y]]

Init ==
  /\ schemas = [v \in {} |-> None] /\ writeVer = 0
  /\ migrations = [v \in {} |-> None]
  /\ kinds = [k \in {} |-> None]
  /\ keys = [k \in {} |-> None] /\ active = None
  /\ clock = 0 /\ signatures = {} /\ retired = {}

-----------------------------------------------------------------------------
(* schemas                                                                 *)

\* set_write_version: writable, and never backwards.
MayWrite(v, defs) == v \in DOMAIN defs /\ defs[v] /\ v >= writeVer

\* register: fixture and validator agree; the definition is stored first, and
\* stays when the write version cannot be moved to it.
RegisterSchema(v, writable) ==
  /\ v \in DOMAIN schemas => schemas[v] = writable
  /\ schemas' = With(schemas, v, writable)
  /\ writeVer' = IF MayWrite(v, schemas') THEN v ELSE writeVer
  /\ UNCHANGED <<migrations, kinds, keyVars, clock, retired>>

SetWriteVersion(v) ==
  /\ MayWrite(v, schemas)
  /\ writeVer' = v
  /\ UNCHANGED <<schemas, migrations, kinds, keyVars, clock, retired>>

\* Mutant: a migration may go to an older version.
Mut_RegisterMigration(v, w) ==
  /\ v \in DOMAIN schemas /\ w \in DOMAIN schemas /\ w # v
  /\ v \in DOMAIN migrations => migrations[v] = w
  /\ migrations' = With(migrations, v, w)
  /\ UNCHANGED <<schemas, writeVer, kinds, keyVars, clock, retired>>

\* register_migration: to a newer version, one target for each version.
RegisterMigration(v, w) ==
  /\ w > v /\ v \in DOMAIN schemas /\ w \in DOMAIN schemas
  /\ v \in DOMAIN migrations => migrations[v] = w
  /\ migrations' = With(migrations, v, w)
  /\ UNCHANGED <<schemas, writeVer, kinds, keyVars, clock, retired>>

\* The loop of read_latest: where an artifact of version u arrives when at
\* most n migrations are left; zero when it raises.
Walk[n \in 0 .. MaxVersion] ==
  [u \in Versions |->
     IF u = writeVer THEN u
     ELSE IF n = 0 \/ u \notin DOMAIN migrations THEN 0
     ELSE IF migrations[u] > writeVer THEN 0
     ELSE Walk[n - 1][migrations[u]]]

\* read_latest: the version that an artifact of version v is read at.
ReadLatest(v) == IF v \in DOMAIN schemas THEN Walk[MaxVersion][v] ELSE 0

-----------------------------------------------------------------------------
(* kinds                                                                   *)

\* KindRegistry.register: a readable schema, the write schema when it is
\* creatable, and no other definition of that name.
RegisterKind(k, v, creatable) ==
  /\ v \in DOMAIN schemas
  /\ creatable => v = writeVer
  /\ k \in DOMAIN kinds => kinds[k] = [version |-> v, creatable |-> creatable]
  /\ kinds' = With(kinds, k, [version |-> v, creatable |-> creatable])
  /\ UNCHANGED <<schemaVars, keyVars, clock, retired>>

RetireKind(k) ==
  /\ k \in DOMAIN kinds
  /\ kinds' = [kinds EXCEPT ![k].creatable = FALSE]
  /\ retired' = retired \cup {k}
  /\ UNCHANGED <<schemaVars, keyVars, clock>>

-----------------------------------------------------------------------------
(* historical keys                                                         *)

\* HistoricalPublicKey: the end of its validity lies after the start.
KeyRecords == [from : 0 .. MaxTime, until : 1 .. MaxTime + 1,
               usable : BOOLEAN, pred : KeyIds \cup {None}]

\* register: the predecessor is known, and the record never changes.
RegisterKey(k, r) ==
  /\ r.until > r.from
  /\ r.pred # None => r.pred \in DOMAIN keys
  /\ k \in DOMAIN keys => keys[k] = r
  /\ keys' = With(keys, k, r)
  /\ UNCHANGED <<schemaVars, kinds, active, signatures, clock, retired>>

\* _assert_usage: allowed for purpose and domain, and valid at that time.
UsageAllowed(k, at) == keys[k].usable /\ at >= keys[k].from /\ at < keys[k].until

\* activate: checked at the given time only.
ActivateKey(k, at) ==
  /\ k \in DOMAIN keys /\ UsageAllowed(k, at)
  /\ active' = k
  /\ UNCHANGED <<schemaVars, kinds, keys, signatures, clock, retired>>

\* Mutant: the key that is active now must be the one that signed.
Mut_VerifySignature(s) ==
  s.key \in DOMAIN keys /\ s.key = active /\ UsageAllowed(s.key, s.at)

\* verify: the record of the key that signed, at the time it signed.
VerifySignature(s) == s.key \in DOMAIN keys /\ UsageAllowed(s.key, s.at)

\* A writer signs with the active key while it is valid.
Sign ==
  /\ active # None /\ UsageAllowed(active, clock)
  /\ signatures' = signatures \cup {[key |-> active, at |-> clock]}
  /\ UNCHANGED <<schemaVars, kinds, keys, active, clock, retired>>

Tick ==
  /\ clock < MaxTime
  /\ clock' = clock + 1
  /\ UNCHANGED <<schemaVars, kinds, keyVars, retired>>

-----------------------------------------------------------------------------

Next ==
  \/ \E v \in Versions :
       \/ \E writable \in BOOLEAN : RegisterSchema(v, writable)
       \/ SetWriteVersion(v)
       \/ \E w \in Versions : RegisterMigration(v, w)
       \/ \E k \in Kinds, creatable \in BOOLEAN : RegisterKind(k, v, creatable)
  \/ \E k \in Kinds : RetireKind(k)
  \/ \E k \in KeyIds :
       \/ \E r \in KeyRecords : RegisterKey(k, r)
       \/ \E at \in 0 .. MaxTime : ActivateKey(k, at)
  \/ Sign \/ Tick

Spec == Init /\ [][Next]_vars

-----------------------------------------------------------------------------

\* ADR-0007 after any sequence of registrations and rotations: what a key
\* signed while it was valid verifies for ever; an old artifact is read at
\* the write version or not at all, along versions that only grow; and a
\* retired kind is never creatable again.
HistoryStaysReadable ==
  /\ \A s \in signatures : VerifySignature(s)
  /\ \A v \in DOMAIN schemas :
       /\ ReadLatest(v) \in {0, writeVer}
       /\ v \in DOMAIN migrations => migrations[v] > v
  /\ \A k \in retired : ~kinds[k].creatable

-----------------------------------------------------------------------------

RegistryAssumption == MaxVersion \in Nat

\* Schemas: known versions, and migrations that lead to newer ones.
SchemasGrow ==
  /\ DOMAIN schemas \subseteq Versions /\ writeVer \in 0 .. MaxVersion
  /\ \A v \in DOMAIN migrations : migrations[v] \in Versions /\ migrations[v] > v

\* Kinds: a retired one is still defined, and not creatable.
KindsStayRetired ==
  /\ \A k \in DOMAIN kinds : kinds[k] \in [version : Versions, creatable : BOOLEAN]
  /\ \A k \in retired : k \in DOMAIN kinds /\ ~kinds[k].creatable

\* Keys: the active one is on record, and so is every key that signed.
KeysStayOnRecord ==
  /\ active # None => active \in DOMAIN keys
  /\ \A s \in signatures : VerifySignature(s)

RegistryInvariant == SchemasGrow /\ KindsStayRetired /\ KeysStayOnRecord
=============================================================================
