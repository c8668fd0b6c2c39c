----------------------------- MODULE Projections -----------------------------
(***************************************************************************)
(* Projection coordination (memory_core/projections.py).  A rebuild reads  *)
(* the records of one generation, builds an artifact per projection, binds *)
(* the artifacts in a staging manifest, moves the two pointers of the      *)
(* minimum profile with one compare-and-swap and then every optional       *)
(* pointer with its own.  Rebuilds of different generations run at the     *)
(* same time; every call of the pointer store takes its lock.              *)
(*                                                                         *)
(* One workspace.  An artifact is determined by its projection, generation *)
(* and records, a manifest by the artifacts it binds.  Last-known-good     *)
(* pointers are written with the pointers and are not a variable.          *)
(***************************************************************************)
EXTENDS Naturals

CONSTANTS
  Runs,        \* rebuilds that may overlap
  Generations, \* source generations
  Records,     \* record sets a source may hold for a generation
  Optional,    \* names of the optional projections
  Nothing      \* no pointer, no records

\* MINIMUM_PROJECTIONS
Minimum == {"identity", "chronology"}
Names   == Minimum \cup Optional

ProjectionsAssumption ==
  /\ Optional \cap Minimum = {} /\ Nothing \notin Records
  /\ Nothing \notin Generations

\* ProjectionStagingManifest: the generation, its records, the bound artifacts.
Manifest == [gen : Generations, records : Records, built : SUBSET Names]

NoManifest == [gen |-> Nothing, records |-> Nothing, built |-> {}]

\* A pointer names the manifest it was published from.
Pointer == Manifest \cup {NoManifest}

VARIABLES
  source,     \* ProjectionSource: the records of every generation
  staged,     \* store._staged
  pointers,   \* store._pointers
  run,        \* the locals of every rebuild
  published   \* the manifests that the minimum profile has pointed to

vars == <<source, staged, pointers, run, published>>

Statuses == {"none", "source_unavailable", "workspace_mismatch", "required_failed",
             "conflict", "ok"}

\* A rebuild: its generation, manifest, the pointers it expects, the optional
\* projections to come, and whether another rebuild has published the minimum
\* profile since it first read a pointer.
Locals ==
  [pc : {"idle", "build", "stage", "first", "second", "publish", "expect", "optional"},
   gen : Generations \cup {Nothing}, manifest : Pointer,
   expected : [Names -> Pointer], todo : SUBSET Optional, name : Names,
   beaten : BOOLEAN, status : Statuses]

Idle(status) ==
  [pc |-> "idle", gen |-> Nothing, manifest |-> NoManifest,
   expected |-> [n \in Names |-> NoManifest], todo |-> {}, name |-> "identity",
   beaten |-> FALSE, status |-> status]

Init ==
  /\ source = [g \in Generations |-> Nothing]
  /\ staged = {} /\ published = {}
  /\ pointers = [n \in Names |-> NoManifest]
  /\ run = [r \in Runs |-> Idle("none")]

At(r, pc) == run[r].pc = pc

\* A rebuild returns.
Return(r, status) == run' = [run EXCEPT ![r] = [Idle(status) EXCEPT !.beaten = run[r].beaten]]

\* InMemoryProjectionSource.put
Put(g, records) ==
  /\ source' = [source EXCEPT ![g] = records]
  /\ UNCHANGED <<staged, pointers, run, published>>

Rebuild(r, g) ==
  /\ At(r, "idle")
  /\ run' = [run EXCEPT ![r] = [Idle("none") EXCEPT !.pc = "build", !.gen = g]]
  /\ UNCHANGED <<source, staged, pointers, published>>

\* Mutant: a generation that the source does not have is an empty one.
Mut_Build(r) ==
  LET g == run[r].gen
  IN
  /\ At(r, "build")
  /\ \E built \in SUBSET Names :
       IF Minimum \subseteq built
       THEN run' = [run EXCEPT ![r].pc = "stage",
                      ![r].manifest = [gen |-> g, records |-> source[g], built |-> built]]
       ELSE Return(r, "required_failed")
  /\ UNCHANGED <<source, staged, pointers, published>>

\* The records are read; a source may be down or answer for another workspace.
\* Any builder may fail: without the minimum profile nothing is staged.
Build(r) ==
  LET g == run[r].gen
  IN
  /\ At(r, "build")
  /\ \/ Return(r, "source_unavailable")
     \/ source[g] # Nothing /\ Return(r, "workspace_mismatch")
     \/ /\ source[g] # Nothing
        /\ \E built \in SUBSET Names :
             IF Minimum \subseteq built
             THEN run' = [run EXCEPT ![r].pc = "stage",
                            ![r].manifest = [gen |-> g, records |-> source[g],
                                             built |-> built]]
             ELSE Return(r, "required_failed")
  /\ UNCHANGED <<source, staged, pointers, published>>

\* Mutant: the manifest is not stored before the pointers move.
Mut_Stage(r) ==
  /\ At(r, "stage")
  /\ run' = [run EXCEPT ![r].pc = "first"]
  /\ UNCHANGED <<source, staged, pointers, published>>

Stage(r) ==
  /\ At(r, "stage")
  /\ staged' = staged \cup {run[r].manifest}
  /\ run' = [run EXCEPT ![r].pc = "first"]
  /\ UNCHANGED <<source, pointers, published>>

\* expected_required: the two pointers are read by two calls, in any order.
ReadFirst(r) ==
  /\ At(r, "first")
  /\ \E n \in Minimum :
       run' = [run EXCEPT ![r].pc = "second", ![r].name = n,
                          ![r].expected[n] = pointers[n]]
  /\ UNCHANGED <<source, staged, pointers, published>>

ReadSecond(r) ==
  /\ At(r, "second")
  /\ \E n \in Minimum \ {run[r].name} :
       run' = [run EXCEPT ![r].pc = "publish", ![r].expected[n] = pointers[n]]
  /\ UNCHANGED <<source, staged, pointers, published>>

\* _assert_staged
IsStaged(manifest, names) == manifest \in staged /\ names \subseteq manifest.built

\* The compare-and-swap of publish_required compares both pointers.
Expected(r) == \A n \in Minimum : pointers[n] = run[r].expected[n]

\* Mutant: every pointer is compared and moved on its own.
Mut_PublishRequired(r) ==
  LET won == {n \in Minimum : pointers[n] = run[r].expected[n]}
  IN
  /\ At(r, "publish")
  /\ pointers' = [n \in Names |-> IF n \in won THEN run[r].manifest ELSE pointers[n]]
  /\ published' = published \cup {run[r].manifest}
  /\ run' = [run EXCEPT ![r].pc = "expect",
                        ![r].todo = Optional \cap run[r].manifest.built]
  /\ UNCHANGED <<source, staged>>

\* Mutant: the pointers of the optional projections move with the others.
Mut_PublishAll(r) ==
  /\ At(r, "publish")
  /\ IF Expected(r) /\ IsStaged(run[r].manifest, Minimum)
     THEN /\ pointers' = [n \in Names |-> run[r].manifest]
          /\ published' = published \cup {run[r].manifest}
          /\ Return(r, "ok")
     ELSE Return(r, "conflict") /\ UNCHANGED <<pointers, published>>
  /\ UNCHANGED <<source, staged>>

\* Mutant: a lost compare-and-swap does not end the rebuild.
Mut_PublishLost(r) ==
  /\ At(r, "publish")
  /\ IF Expected(r)
     THEN /\ pointers' = [n \in Names |-> IF n \in Minimum THEN run[r].manifest
                                          ELSE pointers[n]]
          /\ published' = published \cup {run[r].manifest}
     ELSE UNCHANGED <<pointers, published>>
  /\ run' = [run EXCEPT ![r].pc = "expect",
                        ![r].todo = Optional \cap run[r].manifest.built]
  /\ UNCHANGED <<source, staged>>

\* publish_required: both pointers move, or none and the rebuild ends.
PublishRequired(r) ==
  /\ At(r, "publish")
  /\ IF Expected(r) /\ IsStaged(run[r].manifest, Minimum)
     THEN /\ pointers' = [n \in Names |-> IF n \in Minimum THEN run[r].manifest
                                          ELSE pointers[n]]
          /\ published' = published \cup {run[r].manifest}
          /\ run' = [q \in Runs |->
                       IF q = r THEN [run[r] EXCEPT !.pc = "expect",
                                        !.todo = Optional \cap run[r].manifest.built]
                       ELSE [run[q] EXCEPT !.beaten = @ \/ run[q].pc \in {"second", "publish"}]]
     ELSE Return(r, "conflict") /\ UNCHANGED <<pointers, published>>
  /\ UNCHANGED <<source, staged>>

\* The loop over the optional projections that were built: the pointer is
\* read,
ExpectOptional(r) ==
  /\ At(r, "expect")
  /\ IF run[r].todo = {} THEN Return(r, "ok")
     ELSE \E n \in run[r].todo :
            run' = [run EXCEPT ![r].pc = "optional", ![r].name = n,
                      ![r].todo = @ \ {n}, ![r].expected[n] = pointers[n]]
  /\ UNCHANGED <<source, staged, pointers, published>>

\* and publish_optional moves it when it has not changed.
PublishOptional(r) ==
  LET n == run[r].name
  IN
  /\ At(r, "optional")
  /\ pointers' = IF pointers[n] = run[r].expected[n] /\ IsStaged(run[r].manifest, {n})
                 THEN [pointers EXCEPT ![n] = run[r].manifest] ELSE pointers
  /\ run' = [run EXCEPT ![r].pc = "expect"]
  /\ UNCHANGED <<source, staged, published>>

\* A rebuild dies between two calls of the store.
Crash(r) ==
  /\ ~At(r, "idle")
  /\ run' = [run EXCEPT ![r] = Idle("none")]
  /\ UNCHANGED <<source, staged, pointers, published>>

Next ==
  \/ \E g \in Generations, records \in Records : Put(g, records)
  \/ \E r \in Runs, g \in Generations : Rebuild(r, g)
  \/ \E r \in Runs :
       \/ Build(r) \/ Stage(r) \/ ReadFirst(r) \/ ReadSecond(r)
       \/ PublishRequired(r) \/ ExpectOptional(r) \/ PublishOptional(r) \/ Crash(r)

Spec == Init /\ [][Next]_vars

-----------------------------------------------------------------------------

\* Types of the stores and of the locals of rebuild.
TypeOK ==
  /\ source \in [Generations -> Records \cup {Nothing}]
  /\ staged \subseteq Manifest /\ published \subseteq Manifest
  /\ pointers \in [Names -> Pointer]
  /\ run \in [Runs -> Locals]

\* No reader sees a half-published minimum profile: identity and chronology
\* come from the same manifest, so from one generation and one record set.
MinimumProfile == pointers["identity"] = pointers["chronology"]

\* A pointer only names a staged manifest that binds an artifact of its own
\* projection, whatever builders failed and whoever died in between.
PointersBound ==
  \A n \in Names : pointers[n] # NoManifest => pointers[n] \in staged /\ n \in pointers[n].built

\* Optional projections follow the minimum profile: an optional pointer never
\* names a manifest that lost the compare-and-swap of the minimum profile or
\* was staged by a rebuild that died before it.
OptionalFollowsMinimum ==
  \A n \in Optional : pointers[n] # NoManifest => pointers[n] \in published

\* A rebuild answers required_projection_pointer_conflict only when another
\* rebuild published the minimum profile after it had read a pointer: the two
\* separate reads never make a rebuild fail that nobody raced.
ConflictHasWinner ==
  \A r \in Runs : run[r].status = "conflict" => run[r].beaten

\* What a reader of the projections relies on (ProjectionCoordinator.rebuild).
PointersAreServable ==
  TypeOK /\ MinimumProfile /\ PointersBound /\ OptionalFollowsMinimum /\ ConflictHasWinner

\* What a rebuild knows at every stage: its manifest binds the minimum profile,
\* was staged before a pointer is read and published before an optional one is;
\* and the pointers it read are current as long as nobody has beaten it.
Knows(m) ==
  /\ m.pc \notin {"idle", "build"} => m.manifest \in Manifest /\ Minimum \subseteq m.manifest.built
  /\ m.pc \notin {"idle", "build", "stage"} => m.manifest \in staged
  /\ m.pc \in {"expect", "optional"} =>
       m.manifest \in published /\ m.todo \subseteq m.manifest.built
  /\ m.pc = "build" => m.gen \in Generations
  /\ m.pc = "second" => m.name \in Minimum
  /\ m.pc = "optional" => m.name \in Optional /\ m.name \in m.manifest.built
  /\ m.pc = "second" /\ ~m.beaten => m.expected[m.name] = pointers[m.name]
  /\ m.pc = "publish" /\ ~m.beaten => \A n \in Minimum : m.expected[n] = pointers[n]
  /\ m.status = "conflict" => m.beaten

\* The inductive invariant behind PointersAreServable.
ProjectionInvariant ==
  /\ TypeOK /\ MinimumProfile /\ PointersBound /\ OptionalFollowsMinimum
  /\ \A r \in Runs : Knows(run[r])
=============================================================================
