---------------------------- MODULE Publication ----------------------------
(***************************************************************************)
(* Optimistic publication of knowledge generations: the SQLite control     *)
(* plane (controlplane.py), the publish orchestrator (publish.py), the     *)
(* content-addressed Git artifacts it prepares (generation.py) and the     *)
(* AcceptedChangeSet adapter that calls it                                 *)
(* (memory_core/changeset_publication.py).                                 *)
(*                                                                         *)
(* Every SQL statement that runs in autocommit mode, every Git ref read    *)
(* and every ref update is a step of its own, so that several publishers   *)
(* interleave between them; ControlPlane.activate is one transaction and   *)
(* one step.  The publisher lease does not appear: it is never checked     *)
(* after it is acquired and may expire during a publication (module        *)
(* PublisherLease), so any number of publishers may be active at once.     *)
(***************************************************************************)
EXTENDS Naturals, Sequences, FiniteSets

CONSTANTS
  Publishers,   \* Workspace instances and changeset clients
  Claims,       \* claim identities (ClaimIdentity.claim_id)
  Sources,      \* ingested sources (source_id = content_hash)
  Changesets,   \* bodies of accepted changesets, their parent left out
  Admin,        \* source_snapshot_hash of admin_revoke
  Asserts,      \* the claims that each source or changeset asserts
  RevokeSets,   \* the claim sets that admin_revoke may be called with
  MaxRetries,   \* max_retries of PublishService.publish (3 in the code)
  MaxJobs,      \* bound: publications started in a behaviour
  MaxObjects    \* bound: distinct generation objects, and release objects

Labels == Sources \cup Changesets \cup {Admin}

ASSUME BoundsAssumption ==
  /\ MaxRetries \in Nat \ {0}
  /\ MaxJobs \in Nat
  /\ MaxObjects \in Nat

ASSUME LabelsAssumption ==
  /\ Sources \cap Changesets = {}
  /\ Admin \notin Sources \cup Changesets
  /\ Asserts \in [Sources \cup Changesets -> SUBSET Claims]
  /\ RevokeSets \subseteq SUBSET Claims

None == 0                       \* a NULL pointer, or an absent ref
Ids  == 1 .. MaxObjects
Opt  == Ids \cup {None}

ReadModels == {"wiki_files", "citation_index"}

Assertion == Claims \X Labels

Descriptor == [parent : Opt, label : Labels, content : SUBSET Assertion]

GenState == {"absent", "validated", "read_models_ready", "published",
             "superseded"}

Activated == {"published", "superseded"}

Outcome == {"none", "ok", "noop", "replayed", "retry_later", "cas_conflict",
            "ref_error", "activation_error"}

PC == {"idle", "replay_check", "prepare", "read_release", "candidate",
       "anchor_candidate", "release", "anchor_release", "read_seq",
       "register", "mark_wiki", "mark_citation", "set_ready", "read_current",
       "read_state", "activate", "members", "resolve", "index",
       "search_pointer"}

VARIABLES
  objects,     \* Git: generation commits; generation_id = index in the sequence
  genRefs,     \* Git: generations with a create-only retention ref
  releases,    \* Git: release commits [gen, prev]; oid = index in the sequence
  releaseRef,  \* Git: refs/wiki/release-objects/<gen>, create-only
  row,         \* table generation: state, release_commit_oid, seq
  readModel,   \* table read_model_status: the models ready, per generation
  pointer,     \* publication.current_generation_id
  release,     \* publication.current_release_commit_oid
  search,      \* publication.current_search_generation_id
  outbox,      \* table outbox: generation of each release_mirror_requested
  store,       \* tables claim_identity and assertion
  members,     \* table generation_assertion
  resolution,  \* table claim_resolution
  index,       \* table search_index
  pub,         \* the memory of every publisher
  jobs         \* publications started so far

git     == <<objects, genRefs, releases, releaseRef>>
control == <<row, readModel, pointer, release, outbox>>
derived == <<search, members, resolution, index>>
vars    == <<git, control, derived, store, pub, jobs>>

-----------------------------------------------------------------------------
(* Publication requests.                                                   *)

\* A request: Workspace.ingest_and_publish, Workspace.admin_revoke or
\* StoragePublicationAdapter.publish.  A changeset names its parent.
Job == [kind : {"ingest"}, label : Sources, revokes : {{}}, expected : {None}]
       \cup [kind : {"revoke"}, label : {Admin}, revokes : SUBSET Claims,
             expected : {None}]
       \cup [kind : {"changeset"}, label : Changesets, revokes : {{}},
             expected : Opt]

NoJob == [kind |-> "revoke", label |-> Admin, revokes |-> {}, expected |-> None]

IngestJob(s)       == [kind |-> "ingest", label |-> s, revokes |-> {},
                       expected |-> None]
RevokeJob(C)       == [kind |-> "revoke", label |-> Admin, revokes |-> C,
                       expected |-> None]
ChangesetJob(k, g) == [kind |-> "changeset", label |-> k, revokes |-> {},
                       expected |-> g]

ActivatedGens == {g \in Ids : row[g].state \in Activated}

\* A changeset's parent is a generation that its author has seen published.
Requests == {IngestJob(s) : s \in Sources}
            \cup {RevokeJob(C) : C \in RevokeSets}
            \cup {ChangesetJob(k, g) : k \in Changesets,
                                       g \in ActivatedGens \cup {None}}

\* The assertions a request adds.
NewAssertions(job) ==
  IF job.kind = "revoke" THEN {} ELSE Asserts[job.label] \X {job.label}

Content(g) == IF g = None THEN {} ELSE objects[g].content

ClaimsOf(A) == {a[1] : a \in A}

\* PublishService.prepare: the parent's assertions with the new ones, less
\* every assertion of a revoked claim.
Surviving(parent, job) ==
  {a \in Content(parent) \cup NewAssertions(job) : a[1] \notin job.revokes}

\* The identity of a content-addressed object: the one it already has, or
\* the next fresh one.
IdOf(seq, obj) ==
  IF \E i \in 1 .. Len(seq) : seq[i] = obj
  THEN CHOOSE i \in 1 .. Len(seq) : seq[i] = obj
  ELSE Len(seq) + 1

Stored(seq, obj) ==
  IF \E i \in 1 .. Len(seq) : seq[i] = obj THEN seq ELSE Append(seq, obj)

-----------------------------------------------------------------------------
(* Publisher memory.                                                       *)

Memory == [pc : PC, job : Job, parent : Opt, prev : Opt, gen : Opt, rel : Opt,
           attempts : 0 .. MaxRetries, seq : Nat,
           todo : SUBSET (Claims \X {"accepted", "retracted"}),
           outcome : Outcome]

Idle(outcome) ==
  [pc |-> "idle", job |-> NoJob, parent |-> None, prev |-> None,
   gen |-> None, rel |-> None, attempts |-> 0, seq |-> 0, todo |-> {},
   outcome |-> outcome]

At(p, pc)   == pub[p].pc = pc
Goto(p, pc) == pub' = [pub EXCEPT ![p].pc = pc]

\* The call returns, or raises.
Return(p, outcome) == pub' = [pub EXCEPT ![p] = Idle(outcome)]

\* The call returns its generation, or raises for its parent: request,
\* parent and generation are known until the next request.
ReturnFor(p, outcome) ==
  pub' = [pub EXCEPT ![p] = [Idle(outcome) EXCEPT !.job = pub[p].job,
                                                  !.gen = pub[p].gen,
                                                  !.parent = pub[p].parent]]

\* A ValueError or GitError of prepare: the adapter reports it as
\* storage_prepare_failed, PublishService.publish lets it through.
RaiseRefError(p) ==
  IF pub[p].job.kind = "changeset" THEN Return(p, "retry_later")
  ELSE ReturnFor(p, "ref_error")

\* Mutant: one attempt too many.
Mut_RaiseCASConflict(p) ==
  IF pub[p].job.kind = "changeset" THEN Return(p, "retry_later")
  ELSE IF pub[p].attempts > MaxRetries THEN Return(p, "cas_conflict")
  ELSE pub' = [pub EXCEPT ![p] = [Idle("none") EXCEPT
                                    !.pc = "prepare", !.job = pub[p].job,
                                    !.attempts = pub[p].attempts]]

\* A CASConflict: the adapter answers retry_later; PublishService.publish
\* prepares again on the new parent until max_retries.
RaiseCASConflict(p) ==
  IF pub[p].job.kind = "changeset" THEN Return(p, "retry_later")
  ELSE IF pub[p].attempts >= MaxRetries THEN Return(p, "cas_conflict")
  ELSE pub' = [pub EXCEPT ![p] = [Idle("none") EXCEPT
                                    !.pc = "prepare", !.job = pub[p].job,
                                    !.attempts = pub[p].attempts]]

\* Mutant: the resolutions of the parent's claims are recorded too.
Mut_BeginPostPublish(p, g, revokes) ==
  pub' = [pub EXCEPT ![p].pc = "members", ![p].gen = g,
            ![p].todo = (ClaimsOf(Content(g) \cup Content(objects[g].parent))
                           \X {"accepted"})
                        \cup (revokes \X {"retracted"})]

\* Enter _post_publish for generation g with the given revokes.
BeginPostPublish(p, g, revokes) ==
  pub' = [pub EXCEPT ![p].pc = "members", ![p].gen = g,
            ![p].todo = (ClaimsOf(Content(g)) \X {"accepted"})
                        \cup (revokes \X {"retracted"})]

Init ==
  /\ objects = << >> /\ genRefs = {} /\ releases = << >>
  /\ releaseRef = [g \in Ids |-> None]
  /\ row = [g \in Ids |-> [state |-> "absent", rel |-> None, seq |-> 0]]
  /\ readModel = [g \in Ids |-> {}]
  /\ pointer = None /\ release = None /\ search = None
  /\ outbox = << >>
  /\ store = {}
  /\ members = [g \in Ids |-> {}]
  /\ resolution = [g \in Ids |-> [c \in Claims |-> "none"]]
  /\ index = [g \in Ids |-> {}]
  /\ pub = [p \in Publishers |-> Idle("none")]
  /\ jobs = 0

-----------------------------------------------------------------------------
(* prepare                                                                 *)

Start(p) ==
  /\ At(p, "idle") /\ jobs < MaxJobs
  /\ \E job \in Requests :
       pub' = [pub EXCEPT ![p] = [Idle("none") EXCEPT
                 !.pc = IF job.kind = "changeset" THEN "replay_check"
                        ELSE "prepare",
                 !.job = job]]
  /\ jobs' = jobs + 1
  /\ UNCHANGED <<git, control, derived, store>>

\* Mutant: a replay is answered without repairing the materialisation.
Mut_ReplayCheck(p) ==
  /\ At(p, "replay_check")
  /\ LET bound == /\ pointer # None
                  /\ objects[pointer].label = pub[p].job.label
                  /\ objects[pointer].parent = pub[p].job.expected
     IN IF bound
        THEN pub' = [pub EXCEPT ![p] = [Idle("replayed") EXCEPT
                                          !.job = pub[p].job, !.gen = pointer]]
        ELSE Goto(p, "prepare")
  /\ UNCHANGED <<git, control, derived, store, jobs>>

\* The current generation is bound to this very changeset (its label and its
\* parent): it was published by an earlier call, whose post-publication work
\* is repeated from the signed snapshot, without its revokes.
ReplayCheck(p) ==
  /\ At(p, "replay_check")
  /\ LET bound == /\ pointer # None
                  /\ objects[pointer].label = pub[p].job.label
                  /\ objects[pointer].parent = pub[p].job.expected
     IN IF bound THEN BeginPostPublish(p, pointer, {}) ELSE Goto(p, "prepare")
  /\ UNCHANGED <<git, control, derived, store, jobs>>

\* The pointer is read, the compiled claims are upserted, the parent's
\* claims are read from its signed snapshot.
Prepare(p) ==
  LET job == pub[p].job
  IN
  /\ At(p, "prepare")
  /\ IF job.kind = "changeset" /\ pointer # job.expected
     THEN /\ Return(p, "retry_later")
          /\ UNCHANGED store
     ELSE /\ store' = store \cup NewAssertions(job)
          /\ IF Surviving(pointer, job) = Content(pointer)
             THEN Return(p, "noop")
             ELSE pub' = [pub EXCEPT ![p].pc = "read_release",
                            ![p].parent = pointer,
                            ![p].attempts = pub[p].attempts + 1]
  /\ UNCHANGED <<git, control, derived, jobs>>

\* The release pointer is read by a second statement, after the parent.
ReadRelease(p) ==
  /\ At(p, "read_release")
  /\ pub' = [pub EXCEPT ![p].pc = "candidate",
               ![p].prev = IF pub[p].parent = None THEN None ELSE release]
  /\ UNCHANGED <<git, control, derived, store, jobs>>

\* GenerationBuilder.build_candidate: generation_id is the hash of the
\* descriptor, and the commit follows from it and from the parent's ref.
BuildCandidate(p) ==
  LET d == [parent  |-> pub[p].parent, label |-> pub[p].job.label,
            content |-> Surviving(pub[p].parent, pub[p].job)]
      g == IdOf(objects, d)
  IN
  /\ At(p, "candidate")
  /\ IF pub[p].parent # None /\ pub[p].parent \notin genRefs
     THEN RaiseRefError(p) /\ UNCHANGED objects
     ELSE /\ g \in Ids
          /\ objects' = Stored(objects, d)
          /\ pub' = [pub EXCEPT ![p].gen = g,
                       ![p].pc = IF g \in genRefs THEN "release"
                                 ELSE "anchor_candidate"]
  /\ UNCHANGED <<genRefs, releases, releaseRef, control, derived, store, jobs>>

\* create_ref_only of the retention anchor: fails when another publisher has
\* created the ref since it was read.
AnchorCandidate(p) ==
  /\ At(p, "anchor_candidate")
  /\ IF pub[p].gen \in genRefs
     THEN RaiseRefError(p) /\ UNCHANGED genRefs
     ELSE genRefs' = genRefs \cup {pub[p].gen} /\ Goto(p, "release")
  /\ UNCHANGED <<objects, releases, releaseRef, control, derived, store, jobs>>

\* _build_release_commit: the signed release names the previous release; the
\* release ref of a generation never moves.
BuildRelease(p) ==
  LET r   == [gen |-> pub[p].gen, prev |-> pub[p].prev]
      oid == IdOf(releases, r)
      ref == releaseRef[pub[p].gen]
  IN
  /\ At(p, "release")
  /\ oid \in Ids
  /\ releases' = Stored(releases, r)
  /\ IF ref \notin {None, oid}
     THEN RaiseRefError(p)
     ELSE pub' = [pub EXCEPT ![p].rel = oid,
                    ![p].pc = IF ref = None THEN "anchor_release"
                              ELSE "read_seq"]
  /\ UNCHANGED <<objects, genRefs, releaseRef, control, derived, store, jobs>>

AnchorRelease(p) ==
  /\ At(p, "anchor_release")
  /\ IF releaseRef[pub[p].gen] # None
     THEN RaiseRefError(p) /\ UNCHANGED releaseRef
     ELSE /\ releaseRef' = [releaseRef EXCEPT ![pub[p].gen] = pub[p].rel]
          /\ Goto(p, "read_seq")
  /\ UNCHANGED <<objects, genRefs, releases, control, derived, store, jobs>>

-----------------------------------------------------------------------------
(* registration                                                            *)

Rows == {g \in Ids : row[g].state # "absent"}

\* The generations with the largest seq.
NewestRows == {g \in Rows : \A h \in Rows : row[h].seq <= row[g].seq}

\* Mutant: the maximum itself.
Mut_NextSeq == IF Rows = {} THEN {1} ELSE {row[g].seq : g \in NewestRows}

\* The one value of SELECT COALESCE(MAX(seq),0)+1, a statement of its own.
NextSeq == IF Rows = {} THEN {1} ELSE {row[g].seq + 1 : g \in NewestRows}

ReadSeq(p) ==
  /\ At(p, "read_seq")
  /\ \E n \in NextSeq :
       pub' = [pub EXCEPT ![p].pc = "register", ![p].seq = n]
  /\ UNCHANGED <<git, control, derived, store, jobs>>

\* INSERT OR IGNORE INTO generation ... 'validated'
RegisterGeneration(p) ==
  /\ At(p, "register")
  /\ row' = IF row[pub[p].gen].state # "absent" THEN row
            ELSE [row EXCEPT ![pub[p].gen] =
                    [state |-> "validated", rel |-> pub[p].rel,
                     seq |-> pub[p].seq]]
  /\ Goto(p, "mark_wiki")
  /\ UNCHANGED <<git, readModel, pointer, release, outbox, derived, store, jobs>>

\* The artifact digest is a function of the generation, so a ready model of
\* a generation always carries the digest of its manifest.
MarkReadModel(p, model, from, to) ==
  /\ At(p, from)
  /\ readModel' = [readModel EXCEPT ![pub[p].gen] = @ \cup {model}]
  /\ Goto(p, to)
  /\ UNCHANGED <<git, row, pointer, release, outbox, derived, store, jobs>>

\* Mutant: without the condition on the state.
Mut_SetReadModelsReady(p) ==
  /\ At(p, "set_ready")
  /\ row' = [row EXCEPT ![pub[p].gen].state = "read_models_ready"]
  /\ Goto(p, "read_current")
  /\ UNCHANGED <<git, readModel, pointer, release, outbox, derived, store, jobs>>

\* UPDATE ... SET state='read_models_ready' ... AND state='validated'
SetReadModelsReady(p) ==
  /\ At(p, "set_ready")
  /\ row' = IF row[pub[p].gen].state = "validated"
            THEN [row EXCEPT ![pub[p].gen].state = "read_models_ready"]
            ELSE row
  /\ Goto(p, "read_current")
  /\ UNCHANGED <<git, readModel, pointer, release, outbox, derived, store, jobs>>

-----------------------------------------------------------------------------
(* activation                                                              *)

\* activate_prepared first looks whether this generation is already current
\* and published; the two columns are read by two statements.
ReadCurrent(p) ==
  /\ At(p, "read_current")
  /\ Goto(p, IF pointer = pub[p].gen THEN "read_state" ELSE "activate")
  /\ UNCHANGED <<git, control, derived, store, jobs>>

ReadState(p) ==
  /\ At(p, "read_state")
  /\ IF row[pub[p].gen].state = "published"
     THEN BeginPostPublish(p, pub[p].gen, pub[p].job.revokes)
     ELSE Goto(p, "activate")
  /\ UNCHANGED <<git, control, derived, store, jobs>>

\* Mutant: no compare-and-swap.
Mut_ParentIsCurrent(p) == TRUE

\* The compare-and-swap of the activation transaction.
ParentIsCurrent(p) == pointer = pub[p].parent

\* Its checks on the generation: state, release commit, read models.
Activatable(p) ==
  /\ row[pub[p].gen].state = "read_models_ready"
  /\ row[pub[p].gen].rel # None
  /\ row[pub[p].gen].rel = pub[p].rel
  /\ ReadModels \subseteq readModel[pub[p].gen]

\* ControlPlane.activate, one BEGIN IMMEDIATE transaction.
Activate(p) ==
  LET g == pub[p].gen
  IN
  /\ At(p, "activate")
  /\ CASE ~ParentIsCurrent(p) ->
            RaiseCASConflict(p) /\ UNCHANGED control
       [] ParentIsCurrent(p) /\ ~Activatable(p) ->
            Return(p, "activation_error") /\ UNCHANGED control
       [] OTHER ->
            /\ row' = [h \in Ids |->
                         CASE h = pointer -> [row[h] EXCEPT !.state = "superseded"]
                           [] h = g /\ h # pointer ->
                                [row[h] EXCEPT !.state = "published"]
                           [] OTHER -> row[h]]
            /\ pointer' = g
            /\ release' = pub[p].rel
            /\ outbox' = Append(outbox, g)
            /\ BeginPostPublish(p, g, pub[p].job.revokes)
            /\ UNCHANGED readModel
  /\ UNCHANGED <<git, derived, store, jobs>>

-----------------------------------------------------------------------------
(* _post_publish, outside the activation transaction                       *)

AddGenerationAssertions(p) ==
  /\ At(p, "members")
  /\ members' = [members EXCEPT ![pub[p].gen] = @ \cup Content(pub[p].gen)]
  /\ Goto(p, "resolve")
  /\ UNCHANGED <<git, control, search, resolution, index, store, jobs>>

\* record_resolution, one claim at a time.
RecordResolution(p) ==
  /\ At(p, "resolve")
  /\ IF pub[p].todo = {} THEN Goto(p, "index") /\ UNCHANGED resolution
     ELSE \E t \in pub[p].todo :
            /\ resolution' = [resolution EXCEPT ![pub[p].gen][t[1]] = t[2]]
            /\ pub' = [pub EXCEPT ![p].todo = @ \ {t}]
  /\ UNCHANGED <<git, control, search, members, index, store, jobs>>

BuildSearchIndex(p) ==
  /\ At(p, "index")
  /\ index' = [index EXCEPT ![pub[p].gen] = @ \cup ClaimsOf(Content(pub[p].gen))]
  /\ Goto(p, "search_pointer")
  /\ UNCHANGED <<git, control, search, members, resolution, store, jobs>>

SetSearchPointer(p) ==
  /\ At(p, "search_pointer")
  /\ search' = pub[p].gen
  /\ ReturnFor(p, IF pub[p].rel = None THEN "replayed" ELSE "ok")
  /\ UNCHANGED <<git, control, members, resolution, index, store, jobs>>

\* The process of a publisher dies; its memory is lost, the stores are not.
Crash(p) ==
  /\ ~At(p, "idle")
  /\ pub' = [pub EXCEPT ![p] = Idle("none")]
  /\ UNCHANGED <<git, control, derived, store, jobs>>

-----------------------------------------------------------------------------

Step(p) ==
  \/ ReplayCheck(p)
  \/ Prepare(p)
  \/ ReadRelease(p)
  \/ BuildCandidate(p)
  \/ AnchorCandidate(p)
  \/ BuildRelease(p)
  \/ AnchorRelease(p)
  \/ ReadSeq(p)
  \/ RegisterGeneration(p)
  \/ MarkReadModel(p, "wiki_files", "mark_wiki", "mark_citation")
  \/ MarkReadModel(p, "citation_index", "mark_citation", "set_ready")
  \/ SetReadModelsReady(p)
  \/ ReadCurrent(p)
  \/ ReadState(p)
  \/ Activate(p)
  \/ AddGenerationAssertions(p)
  \/ RecordResolution(p)
  \/ BuildSearchIndex(p)
  \/ SetSearchPointer(p)

\* All requests of the bounded behaviour have ended.
Terminating ==
  /\ jobs = MaxJobs /\ \A p \in Publishers : At(p, "idle")
  /\ UNCHANGED vars

Next ==
  \/ \E p \in Publishers : Start(p) \/ Step(p) \/ Crash(p)
  \/ Terminating

Spec == Init /\ [][Next]_vars

-----------------------------------------------------------------------------
(* Properties                                                              *)

\* Every variable keeps its type: tables are keyed by generation, publisher
\* memory holds what the locals of publish, prepare and activate hold.
TypeOK ==
  /\ objects \in Seq(Descriptor) /\ Len(objects) <= MaxObjects
  /\ genRefs \subseteq Ids
  /\ releases \in Seq([gen : Opt, prev : Opt]) /\ Len(releases) <= MaxObjects
  /\ releaseRef \in [Ids -> Opt]
  /\ row \in [Ids -> [state : GenState, rel : Opt, seq : Nat]]
  /\ readModel \in [Ids -> SUBSET ReadModels]
  /\ pointer \in Opt /\ release \in Opt /\ search \in Opt
  /\ outbox \in Seq(Ids)
  /\ store \subseteq Assertion
  /\ members \in [Ids -> SUBSET Assertion]
  /\ resolution \in [Ids -> [Claims -> {"none", "accepted", "retracted"}]]
  /\ index \in [Ids -> SUBSET Claims]
  /\ pub \in [Publishers -> Memory]
  /\ jobs \in 0 .. MaxJobs

\* The published generation is the one the pointer names and no other, and
\* the release pointer names the release registered with it: activate flips
\* state, pointer and release together, whoever publishes concurrently.
SinglePublished ==
  /\ \A g \in Ids : row[g].state = "published" <=> g = pointer
  /\ release = IF pointer = None THEN None ELSE row[pointer].rel

\* The release a generation must name as the previous one.
ReleaseOf(g) == IF g = None THEN None ELSE row[g].rel

\* The signed releases of the activated generations form a chain: each names
\* the release of its generation's parent, although prepare reads the
\* pointer and the release pointer by two separate statements.
ReleaseChain ==
  \A g \in ActivatedGens :
    /\ row[g].rel # None
    /\ releases[row[g].rel] = [gen  |-> g,
                               prev |-> ReleaseOf(objects[g].parent)]

\* History never forks: two activated generations have different parents,
\* and the parent of an activated generation is superseded.
LinearHistory ==
  \A g \in ActivatedGens :
    LET parent == objects[g].parent
    IN /\ parent # None => row[parent].state = "superseded"
       /\ \A h \in ActivatedGens : objects[h].parent = parent => h = g

\* The stages at which a publisher knows its parent, the previous release,
\* its generation and its release commit.
HasParent  == {"read_release", "candidate", "anchor_candidate", "release",
               "anchor_release", "read_seq", "register", "mark_wiki",
               "mark_citation", "set_ready", "read_current", "read_state",
               "activate"}
HasPrev    == HasParent \ {"read_release"}
HasGen     == HasPrev \ {"candidate"}
HasRelease == HasGen \ {"anchor_candidate", "release"}
HasSeq     == HasRelease \ {"anchor_release", "read_seq"}

PostPublish == {"members", "resolve", "index", "search_pointer"}

\* Only activated generations are parents, and what a publisher read is
\* still true for as long as its parent is current.
Knows(m) ==
  /\ m.pc \in {"replay_check", "prepare"} => m.attempts < MaxRetries
  /\ m.pc \in HasParent => m.parent \in ActivatedGens \cup {None}
  /\ m.pc \in HasPrev /\ m.parent = pointer => m.prev = release
  /\ m.pc \in HasGen => /\ m.gen \in 1 .. Len(objects)
                        /\ objects[m.gen].parent = m.parent
  /\ m.pc \in HasRelease => /\ m.rel \in 1 .. Len(releases)
                            /\ releases[m.rel] = [gen |-> m.gen, prev |-> m.prev]
  /\ m.pc \in PostPublish => m.gen \in ActivatedGens

PublisherKnows == \A p \in Publishers : Knows(pub[p])

\* Every generation object has an activated parent; an activated generation
\* has an object and a release, and there is none before the first pointer.
ArtifactsKnown ==
  /\ \A g \in 1 .. Len(objects) : objects[g].parent \in ActivatedGens \cup {None}
  /\ \A g \in ActivatedGens : /\ g \in 1 .. Len(objects)
                              /\ row[g].rel \in 1 .. Len(releases)
                              /\ pointer # None

\* The inductive invariant behind ReleaseChain and LinearHistory.
HistoryInvariant ==
  /\ TypeOK
  /\ PublisherKnows
  /\ ArtifactsKnown
  /\ SinglePublished
  /\ ReleaseChain
  /\ LinearHistory

\* The mirror is told of every activation: the outbox holds exactly the
\* activated generations, and its newest event is for the current one.
OutboxComplete ==
  /\ pointer = IF outbox = << >> THEN None ELSE outbox[Len(outbox)]
  /\ {outbox[i] : i \in 1 .. Len(outbox)} = ActivatedGens

\* seq grows along the lineage, although two publishers may read the same
\* maximum and insert the same seq: the lag of the search index, a
\* difference of seq, never understates how many activations it missed.
SeqGrowsAlongLineage ==
  \A g \in ActivatedGens :
    objects[g].parent # None => row[objects[g].parent].seq < row[g].seq

\* A publisher whose compare-and-swap holds never fails the other activation
\* checks, whatever the others did to the same generation in the meantime.
ActivationChecksHold == \A p \in Publishers : pub[p].outcome # "activation_error"

\* Search data is never ahead of the signed artifact: a claim is recorded as
\* accepted or indexed only for an activated generation whose snapshot holds
\* it, and only the activated are searched.  A late or repeated _post_publish
\* of an old generation keeps this.
MaterialisationFaithful ==
  /\ search # None => row[search].state \in Activated
  /\ \A g \in Ids :
       /\ members[g] # {} => row[g].state \in Activated
       /\ members[g] \subseteq store
       /\ \A c \in Claims :
            (resolution[g][c] = "accepted" \/ c \in index[g]) =>
              row[g].state \in Activated /\ c \in ClaimsOf(objects[g].content)

\* A call that returned ok or replayed left its generation activated and
\* completely materialised: members, resolutions and index of all its claims.
OkMeansMaterialised ==
  \A p \in Publishers : pub[p].outcome \in {"ok", "replayed"} =>
    LET g == pub[p].gen
    IN /\ row[g].state \in Activated
       /\ members[g] = objects[g].content
       /\ index[g] = ClaimsOf(objects[g].content)
       /\ \A c \in ClaimsOf(objects[g].content) : resolution[g][c] = "accepted"
       /\ NewAssertions(pub[p].job) \subseteq objects[g].content
       /\ \A c \in pub[p].job.revokes :
            resolution[g][c] = "retracted" /\ c \notin index[g]

\* The generations of the outbox with what their signed artifacts say.
LineageEntry(g) ==
  [gen     |-> g,
   parent  |-> objects[g].parent,
   release |-> row[g].rel,
   prev    |-> releases[row[g].rel].prev,
   content |-> objects[g].content,
   label   |-> objects[g].label]

PublishedEntries == [i \in 1 .. Len(outbox) |-> LineageEntry(outbox[i])]

Lineage == INSTANCE PublishedLineage WITH lineage <- PublishedEntries

\* Concurrent publishers implement the append-only lineage: no generation is
\* activated twice, no fork, no broken release chain, and no published
\* assertion is lost to a publisher that started from an older parent.
ImplementsLineage == Lineage!Spec

Rank(state) == CASE state = "absent" -> 0 [] state = "validated" -> 1
                 [] state = "read_models_ready" -> 2
                 [] state = "published" -> 3 [] state = "superseded" -> 4

\* A generation's state only moves forward, one stage at a time: preparing a
\* generation again never makes a published or superseded one activatable.
StateOnlyAdvances ==
  [][\A g \in Ids : row'[g].state = row[g].state
                    \/ Rank(row'[g].state) = Rank(row[g].state) + 1]_vars

\* What activate records about the lineage agrees with it: the outbox holds every
\* activation in order, seq grows from parent to child although two publishers may
\* read the same maximum, and no activation check but the compare-and-swap fails.
LineageIsRecorded == OutboxComplete /\ SeqGrowsAlongLineage /\ ActivationChecksHold

\* Search data is never ahead of the signed artifact, and complete for every call
\* that returned ok or replayed, however late or often _post_publish runs.
MaterialisedIsTrue == MaterialisationFaithful /\ OkMeansMaterialised

\* Concurrent publishers implement the append-only lineage, and a generation that
\* is prepared again never becomes activatable a second time (activate, prepare).
LineageOnlyGrows == ImplementsLineage /\ StateOnlyAdvances

-----------------------------------------------------------------------------
(* The inductive invariants behind LineageIsRecorded and                   *)
(* MaterialisedIsTrue, on top of HistoryInvariant.                         *)

\* Every registered generation has an object and its anchored release, and a
\* larger seq than its parent.
RowsRecorded ==
  \A g \in Rows :
    /\ g \in 1 .. Len(objects)
    /\ row[g].rel = releaseRef[g] /\ row[g].rel # None
    /\ objects[g].parent # None => row[objects[g].parent].seq < row[g].seq

\* What a publisher has recorded stays recorded, whoever prepares the same
\* generation at the same time.
Recorded(m) ==
  /\ m.pc \in HasRelease \ {"anchor_release"} => releaseRef[m.gen] = m.rel
  /\ m.pc \in HasSeq /\ m.parent # None => row[m.parent].seq < m.seq
  /\ m.pc \in HasSeq \ {"register"} => m.gen \in Rows
  /\ m.pc \in HasSeq \ {"register", "mark_wiki"} => "wiki_files" \in readModel[m.gen]
  /\ m.pc \in HasSeq \ {"register", "mark_wiki", "mark_citation"} =>
       "citation_index" \in readModel[m.gen]
  /\ m.pc \in {"read_current", "read_state", "activate"} =>
       row[m.gen].state # "validated"
  /\ m.outcome # "activation_error"

RecordInvariant ==
  RowsRecorded /\ OutboxComplete /\ \A p \in Publishers : Recorded(pub[p])

\* Every snapshot is stored, holds what its source or changeset asserts, and
\* what its parent holds unless it is an administrative revocation.
SnapshotsComplete ==
  \A g \in 1 .. Len(objects) :
    /\ objects[g].content \subseteq store
    /\ objects[g].label # Admin =>
         /\ Content(objects[g].parent) \subseteq objects[g].content
         /\ Asserts[objects[g].label] \X {objects[g].label} \subseteq objects[g].content

\* Search data of a generation comes from its snapshot, once it is activated.
DerivedFromSnapshot ==
  /\ search # None => search \in ActivatedGens
  /\ \A g \in Ids :
       /\ members[g] # {} => g \in ActivatedGens /\ members[g] \subseteq objects[g].content
       /\ index[g] # {} =>
            g \in ActivatedGens /\ index[g] \subseteq ClaimsOf(objects[g].content)
       /\ \A c \in Claims : resolution[g][c] = "accepted" =>
            g \in ActivatedGens /\ c \in ClaimsOf(objects[g].content)

\* The generation of a call is the answer to its request.
Answers(m) ==
  /\ objects[m.gen].label = m.job.label
  /\ m.job.revokes \cap ClaimsOf(objects[m.gen].content) = {}

\* The resolutions of a generation are recorded or still to be.
Resolving(m) ==
  /\ \A c \in ClaimsOf(objects[m.gen].content) :
       <<c, "accepted">> \in m.todo \/ resolution[m.gen][c] = "accepted"
  /\ \A c \in m.job.revokes :
       <<c, "retracted">> \in m.todo \/ resolution[m.gen][c] = "retracted"
  /\ \A t \in m.todo :
       IF t[2] = "accepted" THEN t[1] \in ClaimsOf(objects[m.gen].content)
       ELSE t[1] \in m.job.revokes

\* The work of _post_publish that a call has done is not undone by the others.
Materialising(m) ==
  /\ m.pc = "replay_check" => m.job.kind = "changeset"
  /\ m.pc \in HasParent => NewAssertions(m.job) \subseteq store
  /\ m.pc \in HasGen \cup PostPublish => Answers(m)
  /\ m.pc \in PostPublish => Resolving(m)
  /\ m.pc \in {"resolve", "index", "search_pointer"} =>
       objects[m.gen].content \subseteq members[m.gen]
  /\ m.pc \in {"index", "search_pointer"} => m.todo = {}
  /\ m.pc = "search_pointer" => ClaimsOf(objects[m.gen].content) \subseteq index[m.gen]
  /\ m.pc # "idle" => m.outcome = "none"
  /\ m.outcome \in {"ok", "replayed"} =>
       /\ m.gen \in ActivatedGens /\ Answers(m) /\ Resolving(m) /\ m.todo = {}
       /\ objects[m.gen].content \subseteq members[m.gen]
       /\ ClaimsOf(objects[m.gen].content) \subseteq index[m.gen]

MaterialInvariant ==
  /\ SnapshotsComplete /\ DerivedFromSnapshot
  /\ \A p \in Publishers : Materialising(pub[p])
=============================================================================
