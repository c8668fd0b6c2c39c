------------------------- MODULE PublicationProofs -------------------------
(***************************************************************************)
(* Proofs about Publication, for any publishers, claims, sources,          *)
(* changesets and bounds, in five layers: the history of activated         *)
(* generations never forks and its signed releases form an unbroken chain; *)
(* the control plane's records agree with it; search data is               *)
(* materialised from its snapshots; it implements the append-only lineage  *)
(* of PublishedLineage; and a query beside the publishers answers with     *)
(* what was current (SearchStaleness).                                     *)
(***************************************************************************)
EXTENDS SearchStaleness, TLAPS

USE BoundsAssumption, LabelsAssumption

\* Storing a content-addressed object keeps the objects there are, and its
\* identity leads back to it.
LEMMA StoredKeeps ==
  ASSUME NEW S, NEW seq \in Seq(S), NEW obj \in S
  PROVE  /\ Stored(seq, obj) \in Seq(S)
         /\ Len(seq) <= Len(Stored(seq, obj))
         /\ Len(Stored(seq, obj)) <= Len(seq) + 1
         /\ \A i \in 1 .. Len(seq) : Stored(seq, obj)[i] = seq[i]
         /\ IdOf(seq, obj) \in 1 .. Len(Stored(seq, obj))
         /\ Stored(seq, obj)[IdOf(seq, obj)] = obj
         /\ \A i \in 1 .. Len(Stored(seq, obj)) :
              i \notin 1 .. Len(seq) => i = IdOf(seq, obj)
         /\ Len(Stored(seq, obj)) = Len(seq) \/ Len(Stored(seq, obj)) = IdOf(seq, obj)
<1>1. CASE \E i \in 1 .. Len(seq) : seq[i] = obj
  <2>1. Stored(seq, obj) = seq
    BY <1>1 DEF Stored
  <2>2. IdOf(seq, obj) \in 1 .. Len(seq) /\ seq[IdOf(seq, obj)] = obj
    BY <1>1 DEF IdOf
  <2> QED BY <2>1, <2>2
<1>2. CASE ~ \E i \in 1 .. Len(seq) : seq[i] = obj
  <2>1. Stored(seq, obj) = Append(seq, obj) /\ IdOf(seq, obj) = Len(seq) + 1
    BY <1>2 DEF Stored, IdOf
  <2>2. /\ Append(seq, obj) \in Seq(S)
        /\ Len(Append(seq, obj)) = Len(seq) + 1
        /\ Len(seq) \in Nat
        /\ \A i \in 1 .. Len(seq) : Append(seq, obj)[i] = seq[i]
        /\ Append(seq, obj)[Len(seq) + 1] = obj
    OBVIOUS
  <2> QED BY <2>1, <2>2
<1> QED BY <1>1, <1>2

\* The same in parts: the lengths, the objects there were, and the one stored.
LEMMA StoredLength ==
  ASSUME NEW S, NEW seq \in Seq(S), NEW obj \in S
  PROVE  /\ Stored(seq, obj) \in Seq(S)
         /\ Len(seq) <= Len(Stored(seq, obj))
         /\ Len(Stored(seq, obj)) = Len(seq) \/ Len(Stored(seq, obj)) = IdOf(seq, obj)
BY StoredKeeps

\* Storing an object keeps every object there was at its place.
LEMMA StoredOld ==
  ASSUME NEW S, NEW seq \in Seq(S), NEW obj \in S
  PROVE  \A i \in 1 .. Len(seq) : Stored(seq, obj)[i] = seq[i]
BY StoredKeeps

\* The identity that a store returns leads to the object stored.
LEMMA StoredNew ==
  ASSUME NEW S, NEW seq \in Seq(S), NEW obj \in S
  PROVE  /\ IdOf(seq, obj) \in 1 .. Len(Stored(seq, obj))
         /\ Stored(seq, obj)[IdOf(seq, obj)] = obj
BY StoredKeeps

\* A store adds nothing but the object stored.
LEMMA StoredOnly ==
  ASSUME NEW S, NEW seq \in Seq(S), NEW obj \in S
  PROVE  \A i \in 1 .. Len(Stored(seq, obj)) :
           i \notin 1 .. Len(seq) => i = IdOf(seq, obj)
BY StoredKeeps

-----------------------------------------------------------------------------
(* What every step but an activation does to the shared stores.            *)

Grows ==
  /\ Len(objects) <= Len(objects')
  /\ \A g \in 1 .. Len(objects) : objects'[g] = objects[g]
  /\ \A g \in 1 .. Len(objects') : g \notin 1 .. Len(objects) =>
       objects'[g].parent \in ActivatedGens \cup {None}
  /\ Len(releases) <= Len(releases')
  /\ \A r \in 1 .. Len(releases) : releases'[r] = releases[r]
  /\ \A g \in Ids : row[g].state \in Activated \/ row'[g].state \in Activated =>
       row'[g] = row[g]
  /\ pointer' = pointer
  /\ release' = release

Tables == ArtifactsKnown /\ SinglePublished /\ ReleaseChain /\ LinearHistory

\* The activated generations stay what they are when the stores only grow.
LEMMA GrowsActivated ==
  ASSUME TypeOK, TypeOK', Grows
  PROVE  ActivatedGens' = ActivatedGens
BY DEF Grows, ActivatedGens, TypeOK

\* The lengths of the object stores are natural numbers.
LEMMA TypedLengths ==
  ASSUME TypeOK
  PROVE  Len(objects) \in Nat /\ Len(releases) \in Nat
BY DEF TypeOK

\* A growing store keeps the invariants about the activated generations.
LEMMA GrowsTables ==
  ASSUME TypeOK, TypeOK', Grows, Tables
  PROVE  Tables'
<1>0. ActivatedGens' = ActivatedGens
  BY GrowsActivated
<1>a. \A g \in ActivatedGens : g \in Ids /\ row'[g] = row[g]
  BY DEF Grows, ActivatedGens
<1>b. Len(objects) \in Nat /\ Len(releases) \in Nat /\ Len(objects') \in Nat
      /\ Len(releases') \in Nat
  BY TypedLengths DEF TypeOK
<1>c. \A g \in ActivatedGens :
        /\ g \in 1 .. Len(objects) /\ objects'[g] = objects[g]
        /\ row[g].rel \in 1 .. Len(releases)
        /\ releases'[row[g].rel] = releases[row[g].rel]
  BY <1>b DEF Grows, Tables, ArtifactsKnown
<1>1. ArtifactsKnown'
  BY <1>0, <1>a, <1>b, <1>c DEF Grows, Tables, ArtifactsKnown
<1>2. SinglePublished'
  <2>1. \A g \in Ids : row'[g].state = "published" <=> row[g].state = "published"
    BY DEF Grows, Activated
  <2>2. pointer # None => pointer \in Ids /\ row'[pointer] = row[pointer]
    BY DEF Grows, Activated, Tables, SinglePublished, TypeOK, Opt
  <2> QED BY <2>1, <2>2 DEF Grows, Tables, SinglePublished
<1>3. ReleaseChain'
  <2>1. \A g \in ActivatedGens : ReleaseOf(objects[g].parent)' = ReleaseOf(objects[g].parent)
    BY <1>a, <1>b, <1>c DEF ReleaseOf, Tables, ArtifactsKnown
  <2> QED BY <1>0, <1>a, <1>c, <2>1 DEF Tables, ReleaseChain
<1>4. LinearHistory'
  <2>1. \A g \in ActivatedGens : objects[g].parent # None =>
          row'[objects[g].parent] = row[objects[g].parent]
    BY <1>a, <1>b, <1>c DEF Tables, ArtifactsKnown
  <2> QED BY <1>0, <1>a, <1>c, <2>1 DEF Tables, LinearHistory
<1> QED BY <1>1, <1>2, <1>3, <1>4 DEF Tables

\* What a publisher knows stays true while another one lets the stores grow.
LEMMA GrowsKnows ==
  ASSUME TypeOK, TypeOK', Grows, NEW q \in Publishers, Knows(pub[q]), pub'[q] = pub[q]
  PROVE  Knows(pub[q])'
<1>0. ActivatedGens' = ActivatedGens
  BY GrowsActivated
<1>b. Len(objects) \in Nat /\ Len(releases) \in Nat /\ Len(objects') \in Nat
      /\ Len(releases') \in Nat
  BY TypedLengths DEF TypeOK
<1> QED BY <1>0, <1>b DEF Grows, Knows

-----------------------------------------------------------------------------
(* The steps of a publisher.                                               *)

\* The types of everything but the publishers' memory.
StoresTyped ==
  /\ objects \in Seq(Descriptor) /\ Len(objects) <= MaxObjects
  /\ genRefs \subseteq Ids
  /\ releases \in Seq([gen : Opt, prev : Opt]) /\ Len(releases) <= MaxObjects
  /\ releaseRef \in [Ids -> Opt]
  /\ row \in [Ids -> [state : GenState, rel : Opt, seq : Nat]]
  /\ readModel \in [Ids -> SUBSET ReadModels]
  /\ pointer \in Opt /\ release \in Opt /\ search \in Opt
  /\ outbox \in Seq(Ids)
  /\ store \subseteq Assertion
  /\ members \in [Ids -> SUBSET Assertion]
  /\ resolution \in [Ids -> [Claims -> {"none", "accepted", "retracted"}]]
  /\ index \in [Ids -> SUBSET Claims]

\* TypeOK in parts: the shared stores, the publishers, the job counter.
LEMMA TypeSplit == TypeOK <=> StoresTyped /\ pub \in [Publishers -> Memory] /\ jobs \in 0 .. MaxJobs
BY DEF TypeOK, StoresTyped

\* An unchanged shared store keeps its types and grows trivially.
LEMMA StoresUnchanged ==
  ASSUME TypeOK, UNCHANGED <<git, control, derived, store>>
  PROVE  StoresTyped' /\ Grows
BY DEF TypeOK, StoresTyped, Grows, git, control, derived, ActivatedGens

\* A step of p that lets the stores grow and after which p knows what it
\* needs; the other publishers' memory is not touched.
GoodStep(p) ==
  /\ StoresTyped' /\ Grows
  /\ jobs' \in 0 .. MaxJobs
  /\ pub' = [pub EXCEPT ![p] = pub'[p]]
  /\ pub'[p] \in Memory
  /\ Knows(pub[p])'

\* A good step of one publisher, typed and growing, keeps the invariant.
LEMMA GoodStepKeeps ==
  ASSUME TypeOK, PublisherKnows, Tables, NEW p \in Publishers, GoodStep(p)
  PROVE  (TypeOK /\ PublisherKnows /\ Tables)'
<1>1. pub' \in [Publishers -> Memory]
  BY DEF GoodStep, TypeOK
<1>2. TypeOK'
  BY <1>1 DEF GoodStep, TypeOK, StoresTyped
<1>3. Tables'
  BY <1>2, GrowsTables DEF GoodStep
<1>4. ASSUME NEW q \in Publishers PROVE Knows(pub[q])'
  <2>1. CASE q = p
    BY <2>1 DEF GoodStep
  <2>2. CASE q # p
    <3>1. pub'[q] = pub[q] /\ Knows(pub[q])
      BY <2>2 DEF GoodStep, TypeOK, PublisherKnows
    <3> QED BY <3>1, <1>2, GrowsKnows DEF GoodStep
  <2> QED BY <2>1, <2>2
<1> QED BY <1>2, <1>3, <1>4 DEF PublisherKnows

\* The memory of an idle publisher has the right type.
LEMMA IdleTyped ==
  ASSUME NEW o \in Outcome
  PROVE  Idle(o) \in Memory /\ Idle(o).pc = "idle" /\ Idle(o).job = NoJob
<1>1. NoJob \in Job /\ None \in Opt
  BY DEF NoJob, Job, Labels, Opt
<1> QED BY <1>1 DEF Idle, Memory, PC

\* An idle publisher claims to know nothing.
LEMMA IdleKnows ==
  ASSUME NEW p \in Publishers, pub'[p].pc = "idle"
  PROVE  Knows(pub[p])'
BY DEF Knows, HasParent, HasPrev, HasGen, HasRelease, PostPublish

\* A call that ends leaves a memory of the right type that claims nothing.
LEMMA ReturnTyped ==
  ASSUME TypeOK, NEW p \in Publishers, NEW o \in Outcome,
         Return(p, o) \/ ReturnFor(p, o)
  PROVE  /\ pub' = [pub EXCEPT ![p] = pub'[p]]
         /\ pub'[p] \in Memory
         /\ Knows(pub[p])'
<1>1. pub[p] \in Memory
  BY DEF TypeOK
<1>2. pub' = [pub EXCEPT ![p] = pub'[p]] /\ pub'[p] \in Memory /\ pub'[p].pc = "idle"
  <2>1. CASE Return(p, o)
    BY <2>1, IdleTyped DEF Return, TypeOK
  <2>2. CASE ReturnFor(p, o)
    <3>1. pub' = [pub EXCEPT ![p] = pub'[p]]
      BY <2>2 DEF ReturnFor, TypeOK
    <3>2. pub'[p] = [Idle(o) EXCEPT !.job = pub[p].job, !.gen = pub[p].gen,
                                    !.parent = pub[p].parent]
      BY <2>2 DEF ReturnFor, TypeOK
    <3>3. Idle(o) \in Memory /\ Idle(o).pc = "idle"
      BY IdleTyped
    <3> QED BY <1>1, <3>1, <3>2, <3>3 DEF Memory
  <2> QED BY <2>1, <2>2
<1> QED BY <1>2, IdleKnows

\* A call that loses a create-only ref race leaves typed memory.
LEMMA RefErrorTyped ==
  ASSUME TypeOK, NEW p \in Publishers, RaiseRefError(p)
  PROVE  /\ pub' = [pub EXCEPT ![p] = pub'[p]]
         /\ pub'[p] \in Memory
         /\ Knows(pub[p])'
BY ReturnTyped DEF RaiseRefError, Outcome

\* Snapshots hold assertions about the claims.
LEMMA ContentTyped ==
  ASSUME TypeOK, NEW g, g \in 1 .. Len(objects) \/ g = None
  PROVE  Content(g) \subseteq Assertion /\ ClaimsOf(Content(g)) \subseteq Claims
<1>1. CASE g = None
  BY <1>1 DEF Content, ClaimsOf
<1>2. CASE g # None
  <2>1. objects[g] \in Descriptor
    BY <1>2 DEF TypeOK
  <2>2. Content(g) \subseteq Assertion
    BY <1>2, <2>1 DEF Content, Descriptor
  <2> QED BY <2>2 DEF ClaimsOf, Assertion
<1> QED BY <1>1, <1>2

\* Entering _post_publish leaves typed memory that claims nothing.
LEMMA PostPublishTyped ==
  ASSUME TypeOK, NEW p \in Publishers, NEW g \in Ids, g \in 1 .. Len(objects),
         NEW R \in SUBSET Claims, BeginPostPublish(p, g, R), (g \in ActivatedGens)'
  PROVE  /\ pub' = [pub EXCEPT ![p] = pub'[p]]
         /\ pub'[p] \in Memory
         /\ Knows(pub[p])'
<1> DEFINE todo == (ClaimsOf(Content(g)) \X {"accepted"}) \cup (R \X {"retracted"})
<1>1. todo \in SUBSET (Claims \X {"accepted", "retracted"})
  BY ContentTyped
<1>2. /\ pub' = [pub EXCEPT ![p] = pub'[p]]
      /\ pub'[p] = [pub[p] EXCEPT !.pc = "members", !.gen = g, !.todo = todo]
  BY DEF BeginPostPublish, TypeOK
<1>3. pub[p] \in Memory /\ g \in Opt
  BY DEF TypeOK, Opt
<1> HIDE DEF todo
<1>4. pub'[p] \in Memory /\ pub'[p].pc = "members" /\ pub'[p].gen = g
  BY <1>1, <1>2, <1>3 DEF Memory, PC
<1>5. Knows(pub[p])'
  BY <1>4 DEF Knows, HasParent, HasPrev, HasGen, HasRelease, PostPublish
<1> QED BY <1>2, <1>4, <1>5

\* Requests are well formed.
LEMMA RequestsTyped == ASSUME TypeOK PROVE Requests \subseteq Job
<1>1. ASSUME NEW x \in Sources PROVE IngestJob(x) \in Job
  BY DEF IngestJob, Job, Labels, Opt
<1>2. ASSUME NEW C \in RevokeSets PROVE RevokeJob(C) \in Job
  BY DEF RevokeJob, Job, Labels, Opt
<1>3. ASSUME NEW k \in Changesets, NEW g \in ActivatedGens \cup {None}
      PROVE  ChangesetJob(k, g) \in Job
  BY DEF ChangesetJob, Job, Labels, Opt, ActivatedGens
<1> QED BY <1>1, <1>2, <1>3 DEF Requests

\* Starting a call is a good step.
LEMMA StartStep ==
  ASSUME TypeOK, PublisherKnows, Tables, NEW p \in Publishers, Start(p)
  PROVE  GoodStep(p)
<1>1. StoresTyped' /\ Grows /\ jobs' \in 0 .. MaxJobs
  BY StoresUnchanged DEF Start, TypeOK
<1>2. PICK job \in Requests :
        pub' = [pub EXCEPT ![p] = [Idle("none") EXCEPT
                 !.pc = IF job.kind = "changeset" THEN "replay_check"
                        ELSE "prepare",
                 !.job = job]]
  BY DEF Start
<1>3. job \in Job
  BY RequestsTyped
<1>4. Idle("none") \in Memory /\ Idle("none").attempts = 0
  BY IdleTyped DEF Idle, Outcome
<1> DEFINE pc == IF job.kind = "changeset" THEN "replay_check" ELSE "prepare"
<1>5. /\ pub' = [pub EXCEPT ![p] = pub'[p]]
      /\ pub'[p] = [Idle("none") EXCEPT !.pc = pc, !.job = job]
  BY <1>2 DEF TypeOK
<1>6. /\ pub'[p] \in Memory /\ pub'[p].pc \in {"replay_check", "prepare"}
      /\ pub'[p].attempts < MaxRetries
  <2>1. pc \in {"replay_check", "prepare"} /\ pc \in PC
    BY DEF PC
  <2> HIDE DEF pc
  <2>2. pub'[p] \in Memory /\ pub'[p].pc = pc /\ pub'[p].attempts = 0
    BY <1>3, <1>4, <1>5, <2>1 DEF Memory
  <2> QED BY <2>1, <2>2
<1>7. Knows(pub[p])'
  BY <1>6 DEF Knows, HasParent, HasPrev, HasGen, HasRelease, PostPublish
<1> QED BY <1>1, <1>5, <1>6, <1>7 DEF GoodStep

\* The current generation, when there is one, is activated and has an object.
LEMMA PointerKnown ==
  ASSUME TypeOK, Tables, pointer # None
  PROVE  /\ pointer \in Ids /\ pointer \in ActivatedGens
         /\ pointer \in 1 .. Len(objects)
BY DEF TypeOK, Opt, Tables, SinglePublished, ArtifactsKnown, ActivatedGens, Activated

\* A step that only changes the stage of p within memory of the same kind.
LEMMA GotoTyped ==
  ASSUME TypeOK, NEW p \in Publishers, NEW pc \in PC, Goto(p, pc)
  PROVE  /\ pub' = [pub EXCEPT ![p] = pub'[p]]
         /\ pub'[p] = [pub[p] EXCEPT !.pc = pc]
         /\ pub'[p] \in Memory
<1>1. pub[p] \in Memory
  BY DEF TypeOK
<1>2. pub' = [pub EXCEPT ![p] = pub'[p]] /\ pub'[p] = [pub[p] EXCEPT !.pc = pc]
  BY DEF Goto, TypeOK
<1> QED BY <1>1, <1>2 DEF Memory

\* The replay check of a changeset is a good step.
LEMMA ReplayCheckStep ==
  ASSUME TypeOK, PublisherKnows, Tables, NEW p \in Publishers, ReplayCheck(p)
  PROVE  GoodStep(p)
<1>1. StoresTyped' /\ Grows /\ jobs' \in 0 .. MaxJobs /\ ActivatedGens' = ActivatedGens
  BY StoresUnchanged DEF ReplayCheck, TypeOK, control, ActivatedGens
<1>2. CASE pointer # None /\ BeginPostPublish(p, pointer, {})
  BY <1>1, <1>2, PointerKnown, PostPublishTyped DEF GoodStep
<1>3. CASE Goto(p, "prepare")
  <2>1. pub[p].pc = "replay_check" /\ pub[p].attempts < MaxRetries /\ pub[p] \in Memory
    BY DEF ReplayCheck, At, PublisherKnows, Knows, TypeOK
  <2>2. /\ pub' = [pub EXCEPT ![p] = pub'[p]]
        /\ pub'[p] = [pub[p] EXCEPT !.pc = "prepare"]
        /\ pub'[p] \in Memory
    BY <1>3, GotoTyped DEF PC
  <2>3. pub'[p].pc = "prepare" /\ pub'[p].attempts < MaxRetries
    BY <2>1, <2>2 DEF Memory
  <2>4. Knows(pub[p])'
    BY <2>3 DEF Knows, HasParent, HasPrev, HasGen, HasRelease, PostPublish
  <2> QED BY <1>1, <2>2, <2>4 DEF GoodStep
<1> QED BY <1>2, <1>3 DEF ReplayCheck

\* A request adds assertions of its own label about known claims.
LEMMA NewAssertionsTyped ==
  ASSUME NEW job \in Job
  PROVE  /\ NewAssertions(job) \subseteq Assertion
         /\ job.label \in Labels /\ job.revokes \in SUBSET Claims
<1>1. job.label \in Labels /\ job.revokes \in SUBSET Claims
  BY DEF Job, Labels
<1>2. job.kind # "revoke" => job.label \in Sources \cup Changesets
  BY DEF Job
<1>3. job.kind # "revoke" => Asserts[job.label] \subseteq Claims
  BY <1>2
<1>4. NewAssertions(job) \subseteq Assertion
  BY <1>1, <1>3 DEF NewAssertions, Assertion
<1> QED BY <1>1, <1>4

\* Writing claims and assertions only touches the dedup store.
LEMMA StoreGrows ==
  ASSUME TypeOK, UNCHANGED <<git, control, derived>>, store' \subseteq Assertion
  PROVE  StoresTyped' /\ Grows
BY DEF TypeOK, StoresTyped, Grows, git, control, derived, ActivatedGens

\* Reading the parent and its content in prepare is a good step.
LEMMA PrepareStep ==
  ASSUME TypeOK, PublisherKnows, Tables, NEW p \in Publishers, Prepare(p)
  PROVE  GoodStep(p)
<1>0. /\ pub[p] \in Memory /\ pub[p].pc = "prepare" /\ pub[p].attempts < MaxRetries
      /\ pub[p].job \in Job
  BY DEF Prepare, At, PublisherKnows, Knows, TypeOK, Memory
<1>1. store' \subseteq Assertion
  BY <1>0, NewAssertionsTyped DEF Prepare, TypeOK
<1>2. StoresTyped' /\ Grows /\ jobs' \in 0 .. MaxJobs /\ ActivatedGens' = ActivatedGens
  BY <1>1, StoreGrows DEF Prepare, TypeOK, control, ActivatedGens
<1>3. CASE Return(p, "retry_later") \/ Return(p, "noop")
  BY <1>2, <1>3, ReturnTyped DEF GoodStep, Outcome
<1>4. CASE pub' = [pub EXCEPT ![p].pc = "read_release", ![p].parent = pointer,
                     ![p].attempts = pub[p].attempts + 1]
  <2>1. /\ pub' = [pub EXCEPT ![p] = pub'[p]]
        /\ pub'[p] = [pub[p] EXCEPT !.pc = "read_release", !.parent = pointer,
                        !.attempts = pub[p].attempts + 1]
    BY <1>4 DEF TypeOK
  <2>2. pub[p].attempts + 1 \in 0 .. MaxRetries /\ pointer \in Opt
    BY <1>0 DEF Memory, TypeOK
  <2>3. pub'[p] \in Memory /\ pub'[p].pc = "read_release" /\ pub'[p].parent = pointer
    BY <1>0, <2>1, <2>2 DEF Memory, PC
  <2>4. pointer \in ActivatedGens \cup {None}
    BY PointerKnown
  <2>5. Knows(pub[p])'
    BY <1>2, <2>3, <2>4 DEF Knows, HasParent, HasPrev, HasGen, HasRelease, PostPublish
  <2> QED BY <1>2, <2>1, <2>3, <2>5 DEF GoodStep
<1> QED BY <1>3, <1>4 DEF Prepare

\* Reading the previous release in prepare is a good step: what it
\* read is the parent's release for as long as the parent is current.
LEMMA ReadReleaseStep ==
  ASSUME TypeOK, PublisherKnows, Tables, NEW p \in Publishers, ReadRelease(p)
  PROVE  GoodStep(p)
<1>0. pub[p] \in Memory /\ pub[p].pc = "read_release" /\ Knows(pub[p])
  BY DEF ReadRelease, At, PublisherKnows, TypeOK
<1>1. /\ StoresTyped' /\ Grows /\ jobs' \in 0 .. MaxJobs /\ ActivatedGens' = ActivatedGens
      /\ pointer' = pointer /\ release' = release
  BY StoresUnchanged DEF ReadRelease, TypeOK, control, ActivatedGens
<1> DEFINE prev == IF pub[p].parent = None THEN None ELSE release
<1>2. /\ pub' = [pub EXCEPT ![p] = pub'[p]]
      /\ pub'[p] = [pub[p] EXCEPT !.pc = "candidate", !.prev = prev]
  BY DEF ReadRelease, TypeOK
<1>3. prev \in Opt /\ (pub[p].parent = pointer => prev = release)
  BY DEF TypeOK, Opt, Tables, SinglePublished
<1> HIDE DEF prev
<1>4. /\ pub'[p] \in Memory /\ pub'[p].pc = "candidate"
      /\ pub'[p].parent = pub[p].parent /\ pub'[p].prev = prev
  BY <1>0, <1>2, <1>3 DEF Memory, PC
<1>5. Knows(pub[p])'
  BY <1>0, <1>1, <1>3, <1>4 DEF Knows, HasParent, HasPrev, HasGen, HasRelease, PostPublish
<1> QED BY <1>1, <1>2, <1>4, <1>5 DEF GoodStep

\* The descriptor of the candidate that p builds.
Candidate(p) ==
  [parent  |-> pub[p].parent, label |-> pub[p].job.label,
   content |-> Surviving(pub[p].parent, pub[p].job)]

\* The descriptor of a candidate is one.
LEMMA CandidateTyped ==
  ASSUME TypeOK, PublisherKnows, Tables, NEW p \in Publishers, pub[p].pc = "candidate"
  PROVE  Candidate(p) \in Descriptor /\ Candidate(p).parent = pub[p].parent
<1>0. pub[p] \in Memory /\ Knows(pub[p])
  BY DEF PublisherKnows, TypeOK
<1>1. pub[p].parent \in Opt /\ pub[p].job \in Job
  BY <1>0 DEF Memory
<1>2. pub[p].parent \in 1 .. Len(objects) \/ pub[p].parent = None
  BY <1>0 DEF Knows, HasParent, Tables, ArtifactsKnown
<1>3. Surviving(pub[p].parent, pub[p].job) \subseteq Assertion
  BY <1>1, <1>2, ContentTyped, NewAssertionsTyped DEF Surviving
<1> QED BY <1>1, <1>3, NewAssertionsTyped DEF Candidate, Descriptor

\* Storing a candidate adds at most its own object.
LEMMA CandidateStored ==
  ASSUME objects \in Seq(Descriptor), NEW d \in Descriptor, objects' = Stored(objects, d)
  PROVE  /\ objects' \in Seq(Descriptor)
         /\ Len(objects) <= Len(objects')
         /\ \A i \in 1 .. Len(objects) : objects'[i] = objects[i]
         /\ IdOf(objects, d) \in 1 .. Len(objects') /\ objects'[IdOf(objects, d)] = d
         /\ \A i \in 1 .. Len(objects') : i \notin 1 .. Len(objects) => i = IdOf(objects, d)
         /\ Len(objects') = Len(objects) \/ Len(objects') = IdOf(objects, d)
<1> DEFINE g == IdOf(objects, d)
<1>1. /\ Stored(objects, d) \in Seq(Descriptor)
      /\ Len(objects) <= Len(Stored(objects, d))
      /\ Len(Stored(objects, d)) = Len(objects) \/ Len(Stored(objects, d)) = g
  BY StoredLength
<1>2. \A i \in 1 .. Len(objects) : Stored(objects, d)[i] = objects[i]
  BY StoredOld
<1>3. g \in 1 .. Len(Stored(objects, d)) /\ Stored(objects, d)[g] = d
  BY StoredNew
<1>4. \A i \in 1 .. Len(Stored(objects, d)) : i \notin 1 .. Len(objects) => i = g
  BY StoredOnly
<1> HIDE DEF g
<1>5. objects' = Stored(objects, d)
  OBVIOUS
<1>6. /\ objects' \in Seq(Descriptor)
      /\ Len(objects) <= Len(objects')
      /\ \A i \in 1 .. Len(objects) : objects'[i] = objects[i]
      /\ g \in 1 .. Len(objects') /\ objects'[g] = d
      /\ \A i \in 1 .. Len(objects') : i \notin 1 .. Len(objects) => i = g
      /\ Len(objects') = Len(objects) \/ Len(objects') = g
  BY <1>1, <1>2, <1>3, <1>4, <1>5
<1> QED BY <1>6 DEF g

\* Writing the candidate commit is a good step.
LEMMA BuildCandidateStep ==
  ASSUME TypeOK, PublisherKnows, Tables, NEW p \in Publishers, BuildCandidate(p)
  PROVE  GoodStep(p)
<1>0. pub[p] \in Memory /\ pub[p].pc = "candidate" /\ Knows(pub[p])
  BY DEF BuildCandidate, At, PublisherKnows, TypeOK
<1>1. CASE RaiseRefError(p) /\ objects' = objects
  <2>1. UNCHANGED <<git, control, derived, store>> /\ jobs' \in 0 .. MaxJobs
    BY <1>1 DEF BuildCandidate, git, TypeOK
  <2> QED BY <1>1, <2>1, StoresUnchanged, RefErrorTyped DEF GoodStep
<1>2. CASE ~(pub[p].parent # None /\ pub[p].parent \notin genRefs)
  <2> DEFINE d  == Candidate(p)
             g  == IdOf(objects, d)
             pc == IF g \in genRefs THEN "release" ELSE "anchor_candidate"
  <2>1. /\ g \in Ids
        /\ objects' = Stored(objects, d)
        /\ pub' = [pub EXCEPT ![p].gen = g, ![p].pc = pc]
        /\ UNCHANGED <<genRefs, releases, releaseRef, control, derived, store, jobs>>
    BY <1>2 DEF BuildCandidate, Candidate
  <2>2. d \in Descriptor /\ d.parent = pub[p].parent
    BY <1>0, CandidateTyped
  <2>3. objects \in Seq(Descriptor) /\ Len(objects) \in Nat
    BY DEF TypeOK
  <2> HIDE DEF d
  <2>4. /\ objects' \in Seq(Descriptor)
        /\ Len(objects) <= Len(objects')
        /\ \A i \in 1 .. Len(objects) : objects'[i] = objects[i]
        /\ g \in 1 .. Len(objects') /\ objects'[g] = d
        /\ \A i \in 1 .. Len(objects') : i \notin 1 .. Len(objects) => i = g
        /\ Len(objects') = Len(objects) \/ Len(objects') = g
    BY <2>1, <2>2, <2>3, CandidateStored
  <2> HIDE DEF g
  <2>5. StoresTyped'
    BY <2>1, <2>4 DEF TypeOK, StoresTyped, control, derived, Ids
  <2>6. pub[p].parent \in ActivatedGens \cup {None}
    BY <1>0 DEF Knows, HasParent
  <2>7. Grows /\ ActivatedGens' = ActivatedGens /\ jobs' \in 0 .. MaxJobs
    <3>1. /\ row' = row /\ pointer' = pointer /\ release' = release
          /\ releases' = releases /\ jobs' = jobs
      BY <2>1 DEF control
    <3>2. \A i \in 1 .. Len(objects') : i \notin 1 .. Len(objects) =>
            objects'[i].parent \in ActivatedGens \cup {None}
      BY <2>2, <2>4, <2>6
    <3> QED BY <2>3, <2>4, <3>1, <3>2 DEF Grows, ActivatedGens, TypeOK
  <2>8. pc \in PC /\ pc \in {"release", "anchor_candidate"}
    BY DEF PC
  <2>9. /\ pub' = [pub EXCEPT ![p] = pub'[p]]
        /\ pub'[p] = [pub[p] EXCEPT !.gen = g, !.pc = pc]
    BY <2>1 DEF TypeOK
  <2> HIDE DEF pc
  <2>a. g \in Opt
    BY <2>1 DEF Opt
  <2>b. pub[p] \in Memory
    BY <1>0
  <2>10. /\ pub'[p] \in Memory /\ pub'[p].pc = pc /\ pub'[p].gen = g
         /\ pub'[p].parent = pub[p].parent /\ pub'[p].prev = pub[p].prev
    BY <2>8, <2>9, <2>a, <2>b DEF Memory
  <2>11. Knows(pub[p])'
    <3>1. pointer' = pointer /\ release' = release
      BY <2>1 DEF control
    <3>2. objects'[g].parent = pub[p].parent
      BY <2>2, <2>4
    <3>3. pub[p].parent = pointer => pub[p].prev = release
      BY <1>0 DEF Knows, HasPrev, HasParent
    <3> QED BY <2>4, <2>6, <2>7, <2>8, <2>10, <3>1, <3>2, <3>3
         DEF Knows, HasParent, HasPrev, HasGen, HasRelease, PostPublish
  <2> QED BY <2>5, <2>7, <2>9, <2>10, <2>11 DEF GoodStep
<1> QED BY <1>1, <1>2 DEF BuildCandidate

\* A publisher that moves on to a stage that needs no more than it knows.
StageKept(from, to) ==
  \/ from \in HasRelease /\ to \in HasRelease
  \/ from \in HasGen /\ to \in HasGen \ HasRelease
  \/ from \in PostPublish /\ to \in PostPublish

\* What a publisher knows does not depend on stages beyond the same point.
LEMMA StageKnows ==
  ASSUME TypeOK, StoresTyped', Grows, NEW p \in Publishers, Knows(pub[p]),
         pub[p] \in Memory, NEW pc \in PC, StageKept(pub[p].pc, pc),
         pub'[p].pc = pc, pub'[p].parent = pub[p].parent,
         pub'[p].prev = pub[p].prev, pub'[p].gen = pub[p].gen,
         pub'[p].rel = pub[p].rel
  PROVE  Knows(pub[p])'
<1>1. /\ ActivatedGens' = ActivatedGens
      /\ pointer' = pointer /\ release' = release
  BY DEF Grows, ActivatedGens
<1>2. /\ Len(objects) \in Nat /\ Len(releases) \in Nat
      /\ Len(objects') \in Nat /\ Len(releases') \in Nat
  BY DEF TypeOK, StoresTyped
<1>3. CASE pub[p].pc \in HasRelease /\ pc \in HasRelease
  <2>1. /\ pub[p].pc \in HasParent /\ pub[p].pc \in HasPrev /\ pub[p].pc \in HasGen
        /\ pc \in HasParent /\ pc \in HasPrev /\ pc \in HasGen
        /\ pc \notin {"replay_check", "prepare"} /\ pc \notin PostPublish
    BY <1>3 DEF HasRelease, HasGen, HasPrev, HasParent, PostPublish
  <2> QED BY <1>1, <1>2, <1>3, <2>1 DEF Knows, Grows
<1>4. CASE pub[p].pc \in HasGen /\ pc \in HasGen \ HasRelease
  <2>1. /\ pub[p].pc \in HasParent /\ pub[p].pc \in HasPrev
        /\ pc \in HasParent /\ pc \in HasPrev
        /\ pc \notin {"replay_check", "prepare"} /\ pc \notin PostPublish
    BY <1>4 DEF HasGen, HasPrev, HasParent, PostPublish
  <2> QED BY <1>1, <1>2, <1>4, <2>1 DEF Knows, Grows
<1>5. CASE pub[p].pc \in PostPublish /\ pc \in PostPublish
  <2>1. /\ pc \notin HasParent /\ pc \notin HasPrev /\ pc \notin HasGen
        /\ pc \notin HasRelease /\ pc \notin {"replay_check", "prepare"}
    BY <1>5 DEF HasRelease, HasGen, HasPrev, HasParent, PostPublish
  <2> QED BY <1>1, <1>5, <2>1 DEF Knows
<1> QED BY <1>3, <1>4, <1>5 DEF StageKept

\* Moving on without touching shared state is a good step.
LEMMA GotoStep ==
  ASSUME TypeOK, PublisherKnows, NEW p \in Publishers, StoresTyped', Grows,
         jobs' = jobs, NEW pc \in PC, Goto(p, pc), StageKept(pub[p].pc, pc)
  PROVE  GoodStep(p)
<1>1. pub[p] \in Memory /\ Knows(pub[p]) /\ jobs' \in 0 .. MaxJobs
  BY DEF TypeOK, PublisherKnows
<1>2. /\ pub' = [pub EXCEPT ![p] = pub'[p]]
      /\ pub'[p] = [pub[p] EXCEPT !.pc = pc]
      /\ pub'[p] \in Memory
  BY GotoTyped
<1>3. /\ pub'[p].pc = pc /\ pub'[p].parent = pub[p].parent
      /\ pub'[p].prev = pub[p].prev /\ pub'[p].gen = pub[p].gen
      /\ pub'[p].rel = pub[p].rel
  BY <1>1, <1>2 DEF Memory
<1>4. Knows(pub[p])'
  BY <1>1, <1>3, StageKnows
<1> QED BY <1>1, <1>2, <1>4 DEF GoodStep

\* Anchoring the candidate is a good step.
LEMMA AnchorCandidateStep ==
  ASSUME TypeOK, PublisherKnows, Tables, NEW p \in Publishers, AnchorCandidate(p)
  PROVE  GoodStep(p)
<1>0. pub[p] \in Memory /\ pub[p].pc = "anchor_candidate" /\ Knows(pub[p])
  BY DEF AnchorCandidate, At, PublisherKnows, TypeOK
<1>1. pub[p].gen \in Ids
  <2>1. pub[p].gen \in 1 .. Len(objects)
    BY <1>0 DEF Knows, HasGen, HasPrev, HasParent
  <2> QED BY <2>1 DEF TypeOK, Ids
<1>2. StoresTyped' /\ Grows /\ jobs' = jobs
  BY <1>1 DEF AnchorCandidate, RaiseRefError, TypeOK, StoresTyped, Grows, control, derived,
              ActivatedGens
<1>3. CASE RaiseRefError(p)
  BY <1>2, <1>3, RefErrorTyped DEF GoodStep, TypeOK
<1>4. CASE Goto(p, "release")
  <2>1. "release" \in PC /\ StageKept(pub[p].pc, "release")
    BY <1>0 DEF PC, StageKept, HasRelease, HasGen, HasPrev, HasParent
  <2> QED BY <1>2, <1>4, <2>1, GotoStep
<1> QED BY <1>3, <1>4 DEF AnchorCandidate

\* Writing the release commit is a good step.
LEMMA BuildReleaseStep ==
  ASSUME TypeOK, PublisherKnows, Tables, NEW p \in Publishers, BuildRelease(p)
  PROVE  GoodStep(p)
<1>0. pub[p] \in Memory /\ pub[p].pc = "release" /\ Knows(pub[p])
  BY DEF BuildRelease, At, PublisherKnows, TypeOK
<1> DEFINE R   == [gen : Opt, prev : Opt]
           r   == [gen |-> pub[p].gen, prev |-> pub[p].prev]
           oid == IdOf(releases, r)
           ref == releaseRef[pub[p].gen]
           pc  == IF ref = None THEN "anchor_release" ELSE "read_seq"
<1>1. /\ oid \in Ids
      /\ releases' = Stored(releases, r)
      /\ RaiseRefError(p) \/ pub' = [pub EXCEPT ![p].rel = oid, ![p].pc = pc]
      /\ UNCHANGED <<objects, genRefs, releaseRef, control, derived, store, jobs>>
  BY DEF BuildRelease
<1>2. r \in R /\ releases \in Seq(R) /\ Len(releases) \in Nat
  BY <1>0 DEF Memory, TypeOK
<1> HIDE DEF R
<1>3. /\ releases' \in Seq(R)
      /\ Len(releases) <= Len(releases')
      /\ \A i \in 1 .. Len(releases) : releases'[i] = releases[i]
      /\ oid \in 1 .. Len(releases') /\ releases'[oid] = r
      /\ Len(releases') = Len(releases) \/ Len(releases') = oid
  <2> HIDE DEF r
  <2>2. /\ Stored(releases, r) \in Seq(R)
        /\ Len(releases) <= Len(Stored(releases, r))
        /\ Len(Stored(releases, r)) = Len(releases) \/ Len(Stored(releases, r)) = oid
    BY <1>2, StoredLength
  <2>3. \A i \in 1 .. Len(releases) : Stored(releases, r)[i] = releases[i]
    BY <1>2, StoredOld
  <2>4. oid \in 1 .. Len(Stored(releases, r)) /\ Stored(releases, r)[oid] = r
    BY <1>2, StoredNew
  <2> HIDE DEF oid
  <2> QED BY <1>1, <2>2, <2>3, <2>4
<1> HIDE DEF oid
<1>4. StoresTyped'
  BY <1>1, <1>3 DEF TypeOK, StoresTyped, control, derived, Ids, R
<1>5. /\ Grows /\ ActivatedGens' = ActivatedGens /\ jobs' \in 0 .. MaxJobs
      /\ pointer' = pointer /\ release' = release /\ objects' = objects
  <2>1. /\ row' = row /\ pointer' = pointer /\ release' = release
        /\ objects' = objects /\ jobs' = jobs
    BY <1>1 DEF control
  <2> QED BY <1>2, <1>3, <2>1 DEF Grows, ActivatedGens, TypeOK
<1>6. CASE RaiseRefError(p)
  BY <1>4, <1>5, <1>6, RefErrorTyped DEF GoodStep
<1>7. CASE pub' = [pub EXCEPT ![p].rel = oid, ![p].pc = pc]
  <2>1. pc \in PC /\ pc \in {"anchor_release", "read_seq"} /\ oid \in Opt
    BY <1>1 DEF PC, Opt
  <2>2. /\ pub' = [pub EXCEPT ![p] = pub'[p]]
        /\ pub'[p] = [pub[p] EXCEPT !.rel = oid, !.pc = pc]
    BY <1>7 DEF TypeOK
  <2> HIDE DEF pc
  <2>3. pub[p] \in Memory
    BY <1>0
  <2>4. /\ pub'[p] \in Memory /\ pub'[p].pc = pc /\ pub'[p].gen = pub[p].gen
        /\ pub'[p].parent = pub[p].parent /\ pub'[p].prev = pub[p].prev
        /\ pub'[p].rel = oid
    BY <2>1, <2>2, <2>3 DEF Memory
  <2>5. /\ pub[p].parent \in ActivatedGens \cup {None}
        /\ pub[p].parent = pointer => pub[p].prev = release
        /\ pub[p].gen \in 1 .. Len(objects)
        /\ objects[pub[p].gen].parent = pub[p].parent
    BY <1>0 DEF Knows, HasGen, HasPrev, HasParent
  <2>6. Knows(pub[p])'
    BY <1>3, <1>5, <2>1, <2>4, <2>5
       DEF Knows, HasParent, HasPrev, HasGen, HasRelease, PostPublish
  <2> QED BY <1>4, <1>5, <2>2, <2>4, <2>6 DEF GoodStep
<1> QED BY <1>1, <1>6, <1>7

\* A publisher that has its generation and release names objects there are.
LEMMA ReleaseKnown ==
  ASSUME TypeOK, PublisherKnows, NEW p \in Publishers, pub[p].pc \in HasRelease
  PROVE  /\ pub[p].gen \in Ids /\ pub[p].gen \in 1 .. Len(objects)
         /\ pub[p].rel \in Ids /\ pub[p].rel \in 1 .. Len(releases)
         /\ pub[p].gen \in Opt /\ pub[p].rel \in Opt
<1>1. pub[p].gen \in 1 .. Len(objects) /\ pub[p].rel \in 1 .. Len(releases)
  BY DEF PublisherKnows, Knows, HasRelease
<1> QED BY <1>1 DEF TypeOK, Ids, Opt

\* Anchoring the release is a good step.
LEMMA AnchorReleaseStep ==
  ASSUME TypeOK, PublisherKnows, Tables, NEW p \in Publishers, AnchorRelease(p)
  PROVE  GoodStep(p)
<1>0. pub[p].pc = "anchor_release" /\ pub[p].pc \in HasRelease
  BY DEF AnchorRelease, At, HasRelease, HasGen, HasPrev, HasParent
<1>1. pub[p].gen \in Ids /\ pub[p].rel \in Opt
  BY <1>0, ReleaseKnown
<1>a. releaseRef' \in [Ids -> Opt]
  BY <1>1 DEF AnchorRelease, TypeOK
<1>2. StoresTyped' /\ Grows /\ jobs' = jobs
  BY <1>a DEF AnchorRelease, TypeOK, StoresTyped, Grows, control, derived, ActivatedGens
<1>3. CASE RaiseRefError(p)
  BY <1>2, <1>3, RefErrorTyped DEF GoodStep, TypeOK
<1>4. CASE Goto(p, "read_seq")
  <2>1. "read_seq" \in PC /\ StageKept(pub[p].pc, "read_seq")
    BY <1>0 DEF PC, StageKept, HasRelease, HasGen, HasPrev, HasParent
  <2> QED BY <1>2, <1>4, <2>1, GotoStep
<1> QED BY <1>3, <1>4 DEF AnchorRelease

\* Reading the highest sequence number is a good step.
LEMMA ReadSeqStep ==
  ASSUME TypeOK, PublisherKnows, Tables, NEW p \in Publishers, ReadSeq(p)
  PROVE  GoodStep(p)
<1>0. pub[p] \in Memory /\ pub[p].pc = "read_seq" /\ Knows(pub[p])
  BY DEF ReadSeq, At, PublisherKnows, TypeOK
<1>1. StoresTyped' /\ Grows /\ jobs' \in 0 .. MaxJobs
  BY StoresUnchanged DEF ReadSeq, TypeOK
<1>2. PICK n \in NextSeq : pub' = [pub EXCEPT ![p].pc = "register", ![p].seq = n]
  BY DEF ReadSeq
<1>3. n \in Nat
  <2>1. \A g \in Rows : row[g].seq + 1 \in Nat
    BY DEF Rows, TypeOK
  <2> QED BY <2>1 DEF NextSeq, NewestRows
<1>4. /\ pub' = [pub EXCEPT ![p] = pub'[p]]
      /\ pub'[p] = [pub[p] EXCEPT !.pc = "register", !.seq = n]
  BY <1>2 DEF TypeOK
<1>5. /\ pub'[p] \in Memory /\ pub'[p].pc = "register" /\ pub'[p].gen = pub[p].gen
      /\ pub'[p].parent = pub[p].parent /\ pub'[p].prev = pub[p].prev
      /\ pub'[p].rel = pub[p].rel
  BY <1>0, <1>3, <1>4 DEF Memory, PC
<1>6. "register" \in PC /\ StageKept(pub[p].pc, "register")
  BY <1>0 DEF PC, StageKept, HasRelease, HasGen, HasPrev, HasParent
<1>7. Knows(pub[p])'
  BY <1>0, <1>1, <1>5, <1>6, StageKnows
<1> QED BY <1>1, <1>4, <1>5, <1>7 DEF GoodStep

\* Registering the generation row is a good step.
LEMMA RegisterStep ==
  ASSUME TypeOK, PublisherKnows, Tables, NEW p \in Publishers, RegisterGeneration(p)
  PROVE  GoodStep(p)
<1>0. pub[p] \in Memory /\ pub[p].pc = "register" /\ pub[p].pc \in HasRelease
  BY DEF RegisterGeneration, At, HasRelease, HasGen, HasPrev, HasParent, TypeOK
<1>1. pub[p].gen \in Ids /\ pub[p].rel \in Opt /\ pub[p].seq \in Nat
  BY <1>0, ReleaseKnown DEF Memory
<1> DEFINE new == [state |-> "validated", rel |-> pub[p].rel, seq |-> pub[p].seq]
<1>2. \/ row' = row
      \/ row[pub[p].gen].state = "absent" /\ row' = [row EXCEPT ![pub[p].gen] = new]
  BY DEF RegisterGeneration
<1>3. /\ new \in [state : GenState, rel : Opt, seq : Nat]
      /\ new.state \notin Activated /\ "absent" \notin Activated
  BY <1>1 DEF GenState, Activated
<1>4. row' \in [Ids -> [state : GenState, rel : Opt, seq : Nat]]
  <2> HIDE DEF new
  <2> QED BY <1>2, <1>3 DEF TypeOK
<1>5. \A g \in Ids : row[g].state \in Activated \/ row'[g].state \in Activated =>
        row'[g] = row[g]
  <2> HIDE DEF new
  <2> QED BY <1>1, <1>2, <1>3 DEF TypeOK
<1>6. StoresTyped' /\ Grows /\ jobs' = jobs
  BY <1>4, <1>5 DEF RegisterGeneration, TypeOK, StoresTyped, Grows, git, derived
<1>7. "mark_wiki" \in PC /\ StageKept(pub[p].pc, "mark_wiki") /\ Goto(p, "mark_wiki")
  BY <1>0 DEF RegisterGeneration, PC, StageKept, HasRelease, HasGen, HasPrev, HasParent
<1> QED BY <1>6, <1>7, GotoStep

\* Marking a read model is a good step.
LEMMA MarkReadModelStep ==
  ASSUME TypeOK, PublisherKnows, Tables, NEW p \in Publishers,
         \/ MarkReadModel(p, "wiki_files", "mark_wiki", "mark_citation")
         \/ MarkReadModel(p, "citation_index", "mark_citation", "set_ready")
  PROVE  GoodStep(p)
<1>0. pub[p].pc \in {"mark_wiki", "mark_citation"} /\ pub[p].pc \in HasRelease
  BY DEF MarkReadModel, At, HasRelease, HasGen, HasPrev, HasParent
<1>1. pub[p].gen \in Ids
  BY <1>0, ReleaseKnown
<1>2. readModel' \in [Ids -> SUBSET ReadModels]
  <2>1. readModel \in [Ids -> SUBSET ReadModels]
    BY DEF TypeOK
  <2>2. PICK model \in ReadModels :
          readModel' = [readModel EXCEPT ![pub[p].gen] = @ \cup {model}]
    BY DEF MarkReadModel, ReadModels
  <2> QED BY <1>1, <2>1, <2>2
<1>3. StoresTyped' /\ Grows /\ jobs' = jobs
  BY <1>2 DEF MarkReadModel, TypeOK, StoresTyped, Grows, git, derived
<1>4. /\ Goto(p, "mark_citation") \/ Goto(p, "set_ready")
      /\ "mark_citation" \in PC /\ StageKept(pub[p].pc, "mark_citation")
      /\ "set_ready" \in PC /\ StageKept(pub[p].pc, "set_ready")
  BY <1>0 DEF MarkReadModel, PC, StageKept, HasRelease, HasGen, HasPrev, HasParent
<1> QED BY <1>3, <1>4, GotoStep

\* Setting the row to read_models_ready is a good step: a published
\* row is not touched.
LEMMA SetReadModelsReadyStep ==
  ASSUME TypeOK, PublisherKnows, Tables, NEW p \in Publishers, SetReadModelsReady(p)
  PROVE  GoodStep(p)
<1>0. pub[p].pc = "set_ready" /\ pub[p].pc \in HasRelease
  BY DEF SetReadModelsReady, At, HasRelease, HasGen, HasPrev, HasParent
<1>1. pub[p].gen \in Ids
  BY <1>0, ReleaseKnown
<1>2. \/ row' = row
      \/ /\ row[pub[p].gen].state = "validated"
         /\ row' = [row EXCEPT ![pub[p].gen].state = "read_models_ready"]
  BY DEF SetReadModelsReady
<1> DEFINE new == [row[pub[p].gen] EXCEPT !.state = "read_models_ready"]
<1>a. row[pub[p].gen] \in [state : GenState, rel : Opt, seq : Nat]
  BY <1>1 DEF TypeOK
<1>b. new \in [state : GenState, rel : Opt, seq : Nat] /\ new.state \notin Activated
  BY <1>a DEF GenState, Activated
<1>c. \/ row' = row
      \/ row[pub[p].gen].state = "validated" /\ row' = [row EXCEPT ![pub[p].gen] = new]
  BY <1>1, <1>2 DEF TypeOK
<1> HIDE DEF new
<1>3. /\ row' \in [Ids -> [state : GenState, rel : Opt, seq : Nat]]
      /\ \A g \in Ids : row[g].state \in Activated \/ row'[g].state \in Activated =>
           row'[g] = row[g]
  <2>1. row' \in [Ids -> [state : GenState, rel : Opt, seq : Nat]]
    BY <1>1, <1>b, <1>c DEF TypeOK
  <2>2. "validated" \notin Activated
    BY DEF Activated
  <2>3. \A g \in Ids : row'[g] = row[g] \/ (g = pub[p].gen /\ row'[g] = new
                                             /\ row[g].state = "validated")
    BY <1>1, <1>c DEF TypeOK
  <2> QED BY <1>b, <2>1, <2>2, <2>3
<1>4. StoresTyped' /\ Grows /\ jobs' = jobs
  BY <1>3 DEF SetReadModelsReady, TypeOK, StoresTyped, Grows, git, derived
<1>5. /\ "read_current" \in PC /\ StageKept(pub[p].pc, "read_current")
      /\ Goto(p, "read_current")
  BY <1>0 DEF SetReadModelsReady, PC, StageKept, HasRelease, HasGen, HasPrev, HasParent
<1> QED BY <1>4, <1>5, GotoStep

\* Reading the pointer before the activation is a good step.
LEMMA ReadCurrentStep ==
  ASSUME TypeOK, PublisherKnows, Tables, NEW p \in Publishers, ReadCurrent(p)
  PROVE  GoodStep(p)
<1>1. pub[p].pc = "read_current"
  BY DEF ReadCurrent, At
<1>2. StoresTyped' /\ Grows /\ jobs' = jobs
  BY StoresUnchanged DEF ReadCurrent
<1>3. /\ Goto(p, "read_state") \/ Goto(p, "activate")
      /\ "read_state" \in PC /\ StageKept(pub[p].pc, "read_state")
      /\ "activate" \in PC /\ StageKept(pub[p].pc, "activate")
  BY <1>1 DEF ReadCurrent, PC, StageKept, HasRelease, HasGen, HasPrev, HasParent
<1> QED BY <1>2, <1>3, GotoStep

\* Reading the state before the activation is a good step.
LEMMA ReadStateStep ==
  ASSUME TypeOK, PublisherKnows, Tables, NEW p \in Publishers, ReadState(p)
  PROVE  GoodStep(p)
<1>0. pub[p].pc = "read_state" /\ pub[p].pc \in HasRelease
  BY DEF ReadState, At, HasRelease, HasGen, HasPrev, HasParent
<1>1. /\ StoresTyped' /\ Grows /\ jobs' = jobs /\ jobs' \in 0 .. MaxJobs
      /\ ActivatedGens' = ActivatedGens
  BY StoresUnchanged DEF ReadState, TypeOK, ActivatedGens, control
<1>2. pub[p].gen \in Ids /\ pub[p].gen \in 1 .. Len(objects)
  BY <1>0, ReleaseKnown
<1>3. CASE /\ row[pub[p].gen].state = "published"
           /\ BeginPostPublish(p, pub[p].gen, pub[p].job.revokes)
  <2>1. pub[p].gen \in ActivatedGens'
    BY <1>1, <1>2, <1>3 DEF ActivatedGens, Activated
  <2>2. pub[p].job.revokes \in SUBSET Claims
    BY NewAssertionsTyped DEF TypeOK, Memory
  <2>3. /\ pub' = [pub EXCEPT ![p] = pub'[p]]
        /\ pub'[p] \in Memory
        /\ Knows(pub[p])'
    <3> DEFINE g == pub[p].gen
               R == pub[p].job.revokes
    <3>1. g \in Ids /\ g \in 1 .. Len(objects) /\ R \in SUBSET Claims
          /\ BeginPostPublish(p, g, R) /\ g \in ActivatedGens'
      BY <1>2, <1>3, <2>1, <2>2
    <3> HIDE DEF g, R
    <3> QED BY <3>1, PostPublishTyped
  <2> QED BY <1>1, <2>3 DEF GoodStep
<1>4. CASE Goto(p, "activate")
  <2>1. "activate" \in PC /\ StageKept(pub[p].pc, "activate")
    BY <1>0 DEF PC, StageKept, HasRelease, HasGen, HasPrev, HasParent
  <2> QED BY <1>1, <1>4, <2>1, GotoStep
<1> QED BY <1>3, <1>4 DEF ReadState

\* The steps of _post_publish write derived tables of an activated generation.
LEMMA PostPublishGen ==
  ASSUME TypeOK, PublisherKnows, Tables, NEW p \in Publishers, pub[p].pc \in PostPublish
  PROVE  /\ pub[p].gen \in Ids /\ pub[p].gen \in 1 .. Len(objects)
         /\ Content(pub[p].gen) \subseteq Assertion
         /\ ClaimsOf(Content(pub[p].gen)) \subseteq Claims
<1>1. pub[p].gen \in ActivatedGens
  BY DEF PublisherKnows, Knows
<1>2. pub[p].gen \in Ids /\ pub[p].gen \in 1 .. Len(objects)
  BY <1>1 DEF ActivatedGens, Tables, ArtifactsKnown
<1> QED BY <1>2, ContentTyped

\* Writing derived tables lets the stores grow trivially.
LEMMA DerivedGrows ==
  ASSUME TypeOK, UNCHANGED <<git, control, store>>,
         search' \in Opt,
         members' \in [Ids -> SUBSET Assertion],
         resolution' \in [Ids -> [Claims -> {"none", "accepted", "retracted"}]],
         index' \in [Ids -> SUBSET Claims]
  PROVE  StoresTyped' /\ Grows
BY DEF TypeOK, StoresTyped, Grows, git, control

\* Writing the assertions of a generation is a good step.
LEMMA AddGenerationAssertionsStep ==
  ASSUME TypeOK, PublisherKnows, Tables, NEW p \in Publishers, AddGenerationAssertions(p)
  PROVE  GoodStep(p)
<1>0. pub[p].pc = "members" /\ pub[p].pc \in PostPublish
  BY DEF AddGenerationAssertions, At, PostPublish
<1>1. pub[p].gen \in Ids /\ Content(pub[p].gen) \subseteq Assertion
  BY <1>0, PostPublishGen
<1>2. members' \in [Ids -> SUBSET Assertion]
  BY <1>1 DEF AddGenerationAssertions, TypeOK
<1>3. StoresTyped' /\ Grows /\ jobs' = jobs
  BY <1>2, DerivedGrows DEF AddGenerationAssertions, TypeOK
<1>4. "resolve" \in PC /\ StageKept(pub[p].pc, "resolve") /\ Goto(p, "resolve")
  BY <1>0 DEF AddGenerationAssertions, PC, StageKept, PostPublish
<1> QED BY <1>3, <1>4, GotoStep

\* Recording a resolution is a good step.
LEMMA RecordResolutionStep ==
  ASSUME TypeOK, PublisherKnows, Tables, NEW p \in Publishers, RecordResolution(p)
  PROVE  GoodStep(p)
<1>0. /\ pub[p].pc = "resolve" /\ pub[p].pc \in PostPublish /\ pub[p] \in Memory
      /\ Knows(pub[p])
  BY DEF RecordResolution, At, PostPublish, TypeOK, PublisherKnows
<1>1. pub[p].gen \in Ids
  BY <1>0, PostPublishGen
<1>2. CASE Goto(p, "index") /\ UNCHANGED resolution
  <2>1. StoresTyped' /\ Grows /\ jobs' = jobs
    BY <1>2, DerivedGrows DEF RecordResolution, TypeOK
  <2>2. "index" \in PC /\ StageKept(pub[p].pc, "index")
    BY <1>0 DEF PC, StageKept, PostPublish
  <2> QED BY <1>2, <2>1, <2>2, GotoStep
<1>3. ASSUME NEW t \in pub[p].todo,
             resolution' = [resolution EXCEPT ![pub[p].gen][t[1]] = t[2]],
             pub' = [pub EXCEPT ![p].todo = @ \ {t}]
      PROVE  GoodStep(p)
  <2>1. t[1] \in Claims /\ t[2] \in {"none", "accepted", "retracted"}
    BY <1>0 DEF Memory
  <2>2. resolution' \in [Ids -> [Claims -> {"none", "accepted", "retracted"}]]
    BY <1>1, <1>3, <2>1 DEF TypeOK
  <2>3. StoresTyped' /\ Grows /\ jobs' = jobs /\ jobs' \in 0 .. MaxJobs
    BY <2>2, DerivedGrows DEF RecordResolution, TypeOK
  <2>4. /\ pub' = [pub EXCEPT ![p] = pub'[p]]
        /\ pub'[p] = [pub[p] EXCEPT !.todo = pub[p].todo \ {t}]
    BY <1>3 DEF TypeOK
  <2>5. pub[p].todo \ {t} \in SUBSET (Claims \X {"accepted", "retracted"})
    BY <1>0 DEF Memory
  <2>6. /\ pub'[p] \in Memory /\ pub'[p].pc = pub[p].pc /\ pub'[p].gen = pub[p].gen
        /\ pub'[p].parent = pub[p].parent /\ pub'[p].prev = pub[p].prev
        /\ pub'[p].rel = pub[p].rel
    BY <1>0, <2>4, <2>5 DEF Memory
  <2>7. "resolve" \in PC /\ StageKept(pub[p].pc, "resolve")
    BY <1>0 DEF PC, StageKept, PostPublish
  <2>8. Knows(pub[p])'
    BY <1>0, <2>3, <2>6, <2>7, StageKnows
  <2> QED BY <2>3, <2>4, <2>6, <2>8 DEF GoodStep
<1> QED BY <1>2, <1>3 DEF RecordResolution

\* Building the search index is a good step.
LEMMA BuildSearchIndexStep ==
  ASSUME TypeOK, PublisherKnows, Tables, NEW p \in Publishers, BuildSearchIndex(p)
  PROVE  GoodStep(p)
<1>0. pub[p].pc = "index" /\ pub[p].pc \in PostPublish
  BY DEF BuildSearchIndex, At, PostPublish
<1>1. pub[p].gen \in Ids /\ ClaimsOf(Content(pub[p].gen)) \subseteq Claims
  BY <1>0, PostPublishGen
<1>2. index' \in [Ids -> SUBSET Claims]
  BY <1>1 DEF BuildSearchIndex, TypeOK
<1>3. StoresTyped' /\ Grows /\ jobs' = jobs
  BY <1>2, DerivedGrows DEF BuildSearchIndex, TypeOK
<1>4. /\ "search_pointer" \in PC /\ StageKept(pub[p].pc, "search_pointer")
      /\ Goto(p, "search_pointer")
  BY <1>0 DEF BuildSearchIndex, PC, StageKept, PostPublish
<1> QED BY <1>3, <1>4, GotoStep

\* Setting the search pointer is a good step.
LEMMA SetSearchPointerStep ==
  ASSUME TypeOK, PublisherKnows, Tables, NEW p \in Publishers, SetSearchPointer(p)
  PROVE  GoodStep(p)
<1>1. search' \in Opt
  BY DEF SetSearchPointer, TypeOK, Memory
<1>2. StoresTyped' /\ Grows /\ jobs' \in 0 .. MaxJobs
  BY <1>1, DerivedGrows DEF SetSearchPointer, TypeOK
<1>3. ReturnFor(p, "replayed") \/ ReturnFor(p, "ok")
  BY DEF SetSearchPointer
<1> QED BY <1>2, <1>3, ReturnTyped DEF GoodStep, Outcome

\* The crash of a publisher is a good step.
LEMMA CrashStep ==
  ASSUME TypeOK, PublisherKnows, Tables, NEW p \in Publishers, Crash(p)
  PROVE  GoodStep(p)
<1>1. StoresTyped' /\ Grows /\ jobs' \in 0 .. MaxJobs
  BY StoresUnchanged DEF Crash, TypeOK
<1>2. Return(p, "none")
  BY DEF Crash, Return
<1> QED BY <1>1, <1>2, ReturnTyped DEF GoodStep, Outcome

-----------------------------------------------------------------------------
(* Activation.                                                             *)

\* A lost compare-and-swap leaves typed memory.
LEMMA RetryTyped ==
  ASSUME TypeOK, NEW p \in Publishers, RaiseCASConflict(p)
  PROVE  /\ pub' = [pub EXCEPT ![p] = pub'[p]]
         /\ pub'[p] \in Memory
         /\ Knows(pub[p])'
<1>1. CASE Return(p, "retry_later") \/ Return(p, "cas_conflict")
  BY <1>1, ReturnTyped DEF Outcome
<1>2. CASE /\ ~(pub[p].attempts >= MaxRetries)
           /\ pub' = [pub EXCEPT ![p] = [Idle("none") EXCEPT
                        !.pc = "prepare", !.job = pub[p].job,
                        !.attempts = pub[p].attempts]]
  <2>1. pub[p] \in Memory
    BY DEF TypeOK
  <2>2. /\ pub[p].job \in Job /\ pub[p].attempts \in 0 .. MaxRetries
        /\ pub[p].attempts < MaxRetries
    BY <1>2, <2>1 DEF Memory
  <2>3. Idle("none") \in Memory
    BY IdleTyped DEF Outcome
  <2>4. /\ pub' = [pub EXCEPT ![p] = pub'[p]]
        /\ pub'[p] = [Idle("none") EXCEPT !.pc = "prepare", !.job = pub[p].job,
                                          !.attempts = pub[p].attempts]
    BY <1>2 DEF TypeOK
  <2>5. /\ pub'[p] \in Memory /\ pub'[p].pc = "prepare"
        /\ pub'[p].attempts = pub[p].attempts
    BY <2>2, <2>3, <2>4 DEF Memory, PC
  <2>6. Knows(pub[p])'
    BY <2>2, <2>5 DEF Knows, HasParent, HasPrev, HasGen, HasRelease, PostPublish
  <2> QED BY <2>4, <2>5, <2>6
<1> QED BY <1>1, <1>2 DEF RaiseCASConflict

\* The successful branch of ControlPlane.activate.
Activates(p) ==
  LET g == pub[p].gen
  IN /\ At(p, "activate") /\ ParentIsCurrent(p) /\ Activatable(p)
     /\ row' = [h \in Ids |->
                  CASE h = pointer -> [row[h] EXCEPT !.state = "superseded"]
                    [] h = g /\ h # pointer -> [row[h] EXCEPT !.state = "published"]
                    [] OTHER -> row[h]]
     /\ pointer' = g
     /\ release' = pub[p].rel
     /\ outbox' = Append(outbox, g)
     /\ BeginPostPublish(p, g, pub[p].job.revokes)
     /\ UNCHANGED <<readModel, git, derived, store, jobs>>

\* An activation either loses its compare-and-swap or moves the pointer.
LEMMA ActivateCases ==
  ASSUME TypeOK, PublisherKnows, Tables, NEW p \in Publishers, Activate(p)
  PROVE  GoodStep(p) \/ Activates(p)
<1>1. CASE ~ParentIsCurrent(p)
  <2>1. RaiseCASConflict(p) /\ UNCHANGED <<git, control, derived, store, jobs>>
    BY <1>1 DEF Activate
  <2>2. StoresTyped' /\ Grows /\ jobs' \in 0 .. MaxJobs
    BY <2>1, StoresUnchanged DEF TypeOK
  <2> QED BY <2>1, <2>2, RetryTyped DEF GoodStep
<1>2. CASE ParentIsCurrent(p) /\ ~Activatable(p)
  <2>1. Return(p, "activation_error") /\ UNCHANGED <<git, control, derived, store, jobs>>
    BY <1>2 DEF Activate
  <2>2. StoresTyped' /\ Grows /\ jobs' \in 0 .. MaxJobs
    BY <2>1, StoresUnchanged DEF TypeOK
  <2> QED BY <2>1, <2>2, ReturnTyped DEF GoodStep, Outcome
<1>3. CASE ParentIsCurrent(p) /\ Activatable(p)
  BY <1>3 DEF Activate, Activates
<1> QED BY <1>1, <1>2, <1>3

\* What the publisher knows when its compare-and-swap succeeds: its
\* generation is a new child of the current one and its release names the
\* current release.
LEMMA ActivatesKnows ==
  ASSUME TypeOK, PublisherKnows, Tables, NEW p \in Publishers, Activates(p)
  PROVE  /\ pub[p].gen \in Ids /\ pub[p].gen \in 1 .. Len(objects)
         /\ pub[p].rel \in 1 .. Len(releases)
         /\ objects[pub[p].gen].parent = pointer
         /\ releases[pub[p].rel] = [gen |-> pub[p].gen, prev |-> release]
         /\ row[pub[p].gen].state = "read_models_ready"
         /\ row[pub[p].gen].rel = pub[p].rel
         /\ pub[p].gen \notin ActivatedGens
         /\ pub[p].gen # pointer
<1>1. pub[p].pc = "activate" /\ Knows(pub[p])
  BY DEF Activates, At, PublisherKnows
<1>2. pub[p].pc \in HasRelease /\ pub[p].pc \in HasGen /\ pub[p].pc \in HasPrev
  BY <1>1 DEF HasRelease, HasGen, HasPrev, HasParent
<1>3. pub[p].gen \in Ids /\ pub[p].rel \in Ids
  BY <1>2, ReleaseKnown
<1>4. /\ pub[p].gen \in 1 .. Len(objects) /\ pub[p].rel \in 1 .. Len(releases)
      /\ objects[pub[p].gen].parent = pointer
      /\ releases[pub[p].rel] = [gen |-> pub[p].gen, prev |-> release]
  BY <1>1, <1>2 DEF Knows, Activates, ParentIsCurrent
<1>5. row[pub[p].gen].state = "read_models_ready" /\ row[pub[p].gen].rel = pub[p].rel
  BY DEF Activates, Activatable
<1>6. pub[p].gen \notin ActivatedGens /\ pub[p].gen # pointer
  BY <1>3, <1>5 DEF ActivatedGens, Activated, Tables, SinglePublished
<1> QED BY <1>3, <1>4, <1>5, <1>6

\* The rows after an activation.
LEMMA ActivatesRows ==
  ASSUME TypeOK, PublisherKnows, Tables, NEW p \in Publishers, Activates(p)
  PROVE  /\ row' \in [Ids -> [state : GenState, rel : Opt, seq : Nat]]
         /\ \A h \in Ids : row'[h].rel = row[h].rel /\ row'[h].seq = row[h].seq
         /\ row'[pub[p].gen].state = "published"
         /\ \A h \in Ids : h = pointer => row'[h].state = "superseded"
         /\ \A h \in Ids : h \notin {pointer, pub[p].gen} => row'[h] = row[h]
         /\ ActivatedGens' = ActivatedGens \cup {pub[p].gen}
<1> DEFINE g == pub[p].gen
<1>1. g \in Ids /\ g # pointer
  BY ActivatesKnows
<1>2. row' = [h \in Ids |->
                CASE h = pointer -> [row[h] EXCEPT !.state = "superseded"]
                  [] h = g /\ h # pointer -> [row[h] EXCEPT !.state = "published"]
                  [] OTHER -> row[h]]
  BY DEF Activates
<1>3. \A h \in Ids : row[h] \in [state : GenState, rel : Opt, seq : Nat]
  BY DEF TypeOK
<1> HIDE DEF g
<1>4. ASSUME NEW h \in Ids
      PROVE  /\ row'[h] \in [state : GenState, rel : Opt, seq : Nat]
             /\ row'[h].rel = row[h].rel /\ row'[h].seq = row[h].seq
             /\ h = g => row'[h].state = "published"
             /\ h = pointer => row'[h].state = "superseded"
             /\ h \notin {pointer, g} => row'[h] = row[h]
  <2>0. row[h] \in [state : GenState, rel : Opt, seq : Nat]
    BY <1>3
  <2>1. CASE h = pointer
    <3>1. row'[h] = [row[h] EXCEPT !.state = "superseded"]
      BY <1>2, <2>1
    <3> QED BY <1>1, <2>0, <2>1, <3>1 DEF GenState
  <2>2. CASE h # pointer /\ h = g
    <3>1. row'[h] = [row[h] EXCEPT !.state = "published"]
      BY <1>2, <2>2
    <3> QED BY <2>0, <2>2, <3>1 DEF GenState
  <2>3. CASE h # pointer /\ h # g
    <3>1. row'[h] = row[h]
      BY <1>2, <2>3
    <3> QED BY <2>0, <2>3, <3>1
  <2> QED BY <2>1, <2>2, <2>3
<1>5. row' \in [Ids -> [state : GenState, rel : Opt, seq : Nat]]
  <2>1. /\ row' = [h \in Ids |-> row'[h]]
        /\ \A h \in Ids : row'[h] \in [state : GenState, rel : Opt, seq : Nat]
    BY <1>2, <1>4
  <2> QED BY <2>1
<1>6. ActivatedGens' = ActivatedGens \cup {g}
  <2>1. pointer \in Ids => row[pointer].state \in Activated
    BY DEF Tables, SinglePublished, Activated
  <2> QED BY <1>1, <1>4, <2>1 DEF ActivatedGens, Activated
<1> QED BY <1>1, <1>4, <1>5, <1>6 DEF g

\* An activation keeps the invariants about the activated generations.
LEMMA ActivatesTables ==
  ASSUME TypeOK, PublisherKnows, Tables, NEW p \in Publishers, Activates(p)
  PROVE  Tables'
<1>0. PICK g, r : g = pub[p].gen /\ r = pub[p].rel
  OBVIOUS
<1>1. /\ g \in Ids /\ g \in 1 .. Len(objects) /\ r \in 1 .. Len(releases)
      /\ objects[g].parent = pointer
      /\ releases[r] = [gen |-> g, prev |-> release]
      /\ row[g].rel = r /\ g \notin ActivatedGens /\ g # pointer
  BY <1>0, ActivatesKnows
<1>2. /\ \A h \in Ids : row'[h].rel = row[h].rel
      /\ row'[g].state = "published"
      /\ \A h \in Ids : h = pointer => row'[h].state = "superseded"
      /\ \A h \in Ids : h \notin {pointer, g} => row'[h] = row[h]
      /\ ActivatedGens' = ActivatedGens \cup {g}
  BY <1>0, ActivatesRows
<1>3. /\ pointer' = g /\ release' = r /\ objects' = objects /\ releases' = releases
  BY <1>0 DEF Activates, git
<1>4. /\ pointer \in Ids \cup {None} /\ None \notin Ids
      /\ \A h \in ActivatedGens : h \in Ids
      /\ pointer # None => pointer \in ActivatedGens
  BY PointerKnown DEF TypeOK, Opt, None, Ids, ActivatedGens
<1>5. ArtifactsKnown'
  BY <1>1, <1>2, <1>3, <1>4 DEF Tables, ArtifactsKnown
<1>6. SinglePublished'
  <2>1. \A h \in Ids : row'[h].state = "published" <=> h = g
    BY <1>1, <1>2 DEF Tables, SinglePublished
  <2> QED BY <1>1, <1>2, <1>3, <1>4, <2>1 DEF SinglePublished
<1>7. ReleaseChain'
  <2>2. ASSUME NEW h \in ActivatedGens
        PROVE  /\ row'[h].rel # None
               /\ releases[row'[h].rel] =
                    [gen |-> h, prev |-> ReleaseOf(objects[h].parent)']
    <3>1. objects[h].parent \in Ids \/ objects[h].parent = None
      BY <1>4 DEF Tables, ArtifactsKnown
    <3>2. ReleaseOf(objects[h].parent)' = ReleaseOf(objects[h].parent)
      BY <1>2, <1>3, <3>1 DEF ReleaseOf
    <3> QED BY <1>2, <1>4, <3>2 DEF Tables, ReleaseChain
  <2>3. /\ row'[g].rel # None
        /\ releases[row'[g].rel] = [gen |-> g, prev |-> ReleaseOf(objects[g].parent)']
    <3>1. ReleaseOf(objects[g].parent)' = release
      BY <1>1, <1>2, <1>3, <1>4 DEF ReleaseOf, Tables, SinglePublished
    <3>2. r # None
      BY <1>1 DEF None, TypeOK
    <3> QED BY <1>1, <1>2, <3>1, <3>2
  <2> QED BY <1>2, <1>3, <2>2, <2>3 DEF ReleaseChain
<1>8. LinearHistory'
  <2>1. \A h \in ActivatedGens : objects[h].parent # pointer
    BY <1>4 DEF Tables, ArtifactsKnown, LinearHistory, SinglePublished
  <2>2. \A h \in ActivatedGens :
          objects[h].parent # None => row'[objects[h].parent].state = "superseded"
    <3>1. \A h \in ActivatedGens : objects[h].parent # None =>
            /\ objects[h].parent \in Ids /\ objects[h].parent # g
            /\ row[objects[h].parent].state = "superseded"
      BY <1>1, <1>4 DEF Tables, ArtifactsKnown, LinearHistory
    <3> QED BY <1>2, <2>1, <3>1
  <2>3. \A h \in ActivatedGens, k \in ActivatedGens :
          objects[k].parent = objects[h].parent => k = h
    BY DEF Tables, LinearHistory
  <2> QED BY <1>1, <1>2, <1>3, <1>4, <2>1, <2>2, <2>3 DEF LinearHistory
<1> QED BY <1>5, <1>6, <1>7, <1>8 DEF Tables

\* An activation keeps the whole invariant.
LEMMA ActivatesKeeps ==
  ASSUME TypeOK, PublisherKnows, Tables, NEW p \in Publishers, Activates(p)
  PROVE  (TypeOK /\ PublisherKnows /\ Tables)'
<1> DEFINE g == pub[p].gen
<1>1. /\ g \in Ids /\ g \in 1 .. Len(objects) /\ pub[p].rel \in 1 .. Len(releases)
      /\ g \notin ActivatedGens
  BY ActivatesKnows
<1>2. /\ row' \in [Ids -> [state : GenState, rel : Opt, seq : Nat]]
      /\ ActivatedGens' = ActivatedGens \cup {g}
  BY ActivatesRows
<1>3. /\ pointer' = g /\ objects' = objects /\ releases' = releases
      /\ release' = pub[p].rel
  BY DEF Activates, git
<1>4. pub[p].job.revokes \in SUBSET Claims
  BY NewAssertionsTyped DEF TypeOK, Memory
<1>5. /\ pub' = [pub EXCEPT ![p] = pub'[p]]
      /\ pub'[p] \in Memory
      /\ Knows(pub[p])'
  <2> DEFINE R == pub[p].job.revokes
  <2>1. /\ BeginPostPublish(p, g, R) /\ R \in SUBSET Claims
        /\ g \in ActivatedGens' /\ g \in Ids /\ g \in 1 .. Len(objects)
    BY <1>1, <1>2, <1>4 DEF Activates
  <2> HIDE DEF g, R
  <2> QED BY <2>1, PostPublishTyped
<1>6. StoresTyped'
  <2>1. outbox' \in Seq(Ids) /\ pointer' \in Opt /\ release' \in Opt
    BY <1>1, <1>3 DEF Activates, TypeOK, Opt, Memory
  <2> QED BY <1>2, <2>1 DEF Activates, TypeOK, StoresTyped, git, derived
<1>7. TypeOK'
  <2>1. pub' \in [Publishers -> Memory]
    BY <1>5 DEF TypeOK
  <2>2. jobs' \in 0 .. MaxJobs
    BY DEF Activates, TypeOK
  <2> QED BY <1>6, <2>1, <2>2 DEF TypeOK, StoresTyped
<1>8. ASSUME NEW q \in Publishers PROVE Knows(pub[q])'
  <2>1. CASE q = p
    BY <1>5, <2>1
  <2>2. CASE q # p
    <3>1. pub'[q] = pub[q] /\ Knows(pub[q])
      BY <1>5, <2>2 DEF PublisherKnows, TypeOK
    <3>2. g # None /\ None \notin Ids
      BY <1>1 DEF None, Ids
    <3>3. pub[q].pc \in HasPrev => pub[q].parent # g
      BY <1>1, <3>1, <3>2 DEF Knows, HasPrev
    <3> HIDE DEF g
    <3> QED BY <1>2, <1>3, <3>1, <3>3 DEF Knows
  <2> QED BY <2>1, <2>2
<1>9. Tables'
  BY ActivatesTables
<1> QED BY <1>7, <1>8, <1>9 DEF PublisherKnows

-----------------------------------------------------------------------------
(* The inductive invariant.                                                *)

\* The invariant holds initially.
LEMMA HistoryInit == Init => HistoryInvariant
<1> SUFFICES ASSUME Init PROVE HistoryInvariant
  OBVIOUS
<1>1. TypeOK
  <2>1. Idle("none") \in Memory
    BY IdleTyped DEF Outcome
  <2>2. None \in Opt /\ "absent" \in GenState
    BY DEF Opt, GenState
  <2> QED BY <2>1, <2>2 DEF Init, TypeOK
<1>2. PublisherKnows
  <2>1. \A p \in Publishers : pub[p].pc = "idle"
    BY DEF Init, Idle
  <2> QED BY <2>1 DEF PublisherKnows, Knows, HasParent, HasPrev, HasGen, HasRelease,
                      PostPublish
<1>3. ActivatedGens = {}
  BY DEF Init, ActivatedGens, Activated
<1>4. ArtifactsKnown /\ ReleaseChain /\ LinearHistory
  BY <1>3 DEF Init, ArtifactsKnown, ReleaseChain, LinearHistory
<1>5. SinglePublished
  <2>1. None \notin Ids
    BY DEF None, Ids
  <2> QED BY <2>1 DEF Init, SinglePublished
<1> QED BY <1>1, <1>2, <1>4, <1>5 DEF HistoryInvariant

\* Every step of a publisher lets the stores grow, or is an activation.
LEMMA PublisherSteps ==
  ASSUME TypeOK, PublisherKnows, Tables, NEW p \in Publishers,
         Start(p) \/ Step(p) \/ Crash(p)
  PROVE  GoodStep(p) \/ Activates(p)
<1>1. CASE Start(p) BY <1>1, StartStep
<1>2. CASE ReplayCheck(p) BY <1>2, ReplayCheckStep
<1>3. CASE Prepare(p) BY <1>3, PrepareStep
<1>4. CASE ReadRelease(p) BY <1>4, ReadReleaseStep
<1>5. CASE BuildCandidate(p) BY <1>5, BuildCandidateStep
<1>6. CASE AnchorCandidate(p) BY <1>6, AnchorCandidateStep
<1>7. CASE BuildRelease(p) BY <1>7, BuildReleaseStep
<1>8. CASE AnchorRelease(p) BY <1>8, AnchorReleaseStep
<1>9. CASE ReadSeq(p) BY <1>9, ReadSeqStep
<1>10. CASE RegisterGeneration(p) BY <1>10, RegisterStep
<1>11. CASE \/ MarkReadModel(p, "wiki_files", "mark_wiki", "mark_citation")
            \/ MarkReadModel(p, "citation_index", "mark_citation", "set_ready")
  BY <1>11, MarkReadModelStep
<1>12. CASE SetReadModelsReady(p) BY <1>12, SetReadModelsReadyStep
<1>13. CASE ReadCurrent(p) BY <1>13, ReadCurrentStep
<1>14. CASE ReadState(p) BY <1>14, ReadStateStep
<1>15. CASE Activate(p) BY <1>15, ActivateCases
<1>16. CASE AddGenerationAssertions(p) BY <1>16, AddGenerationAssertionsStep
<1>17. CASE RecordResolution(p) BY <1>17, RecordResolutionStep
<1>18. CASE BuildSearchIndex(p) BY <1>18, BuildSearchIndexStep
<1>19. CASE SetSearchPointer(p) BY <1>19, SetSearchPointerStep
<1>20. CASE Crash(p) BY <1>20, CrashStep
<1> QED BY <1>1, <1>2, <1>3, <1>4, <1>5, <1>6, <1>7, <1>8, <1>9, <1>10, <1>11, <1>12,
           <1>13, <1>14, <1>15, <1>16, <1>17, <1>18, <1>19, <1>20
        DEF Step

\* Every step keeps the invariant.
LEMMA HistoryNext == HistoryInvariant /\ [Next]_vars => HistoryInvariant'
<1> SUFFICES ASSUME HistoryInvariant, [Next]_vars PROVE HistoryInvariant'
  OBVIOUS
<1>1. TypeOK /\ PublisherKnows /\ Tables
  BY DEF HistoryInvariant, Tables
<1>2. ASSUME (TypeOK /\ PublisherKnows /\ Tables)' PROVE HistoryInvariant'
  BY <1>2 DEF HistoryInvariant, Tables
<1>3. CASE \E p \in Publishers : Start(p) \/ Step(p) \/ Crash(p)
  BY <1>1, <1>2, <1>3, PublisherSteps, GoodStepKeeps, ActivatesKeeps
<1>4. CASE UNCHANGED vars
  <2>1. StoresTyped' /\ Grows
    BY <1>1, <1>4, StoresUnchanged DEF vars
  <2>2. pub' = pub /\ jobs' = jobs
    BY <1>4 DEF vars
  <2>3. TypeOK'
    BY <1>1, <2>1, <2>2 DEF TypeOK, StoresTyped
  <2>4. Tables'
    BY <1>1, <2>1, <2>3, GrowsTables
  <2>5. PublisherKnows'
    BY <1>1, <2>1, <2>2, <2>3, GrowsKnows DEF PublisherKnows
  <2> QED BY <1>2, <2>3, <2>4, <2>5
<1> QED BY <1>3, <1>4 DEF Next, Terminating

\* HistoryInvariant holds in every reachable state: what a publisher read
\* stays true for as long as its parent is current.
THEOREM HistoryInvariantHolds == Spec => []HistoryInvariant
BY HistoryInit, HistoryNext, PTL DEF Spec

\* Publisher memory, Git stores and tables keep their types.
THEOREM PublicationTypeCorrect == Spec => []TypeOK
<1>1. HistoryInvariant => TypeOK
  BY DEF HistoryInvariant
<1> QED BY <1>1, HistoryInvariantHolds, PTL

\* ControlPlane.activate keeps exactly the pointer's generation published and
\* the release pointer with it, for any number of concurrent publishers.
THEOREM OnePublishedGeneration == Spec => []SinglePublished
<1>1. HistoryInvariant => SinglePublished
  BY DEF HistoryInvariant
<1> QED BY <1>1, HistoryInvariantHolds, PTL

\* The signed releases of the activated generations form a chain, although
\* prepare reads the parent and the previous release separately.
THEOREM ReleasesFormChain == Spec => []ReleaseChain
<1>1. HistoryInvariant => ReleaseChain
  BY DEF HistoryInvariant
<1> QED BY <1>1, HistoryInvariantHolds, PTL

\* The history of activated generations never forks.
THEOREM HistoryIsLinear == Spec => []LinearHistory
<1>1. HistoryInvariant => LinearHistory
  BY DEF HistoryInvariant
<1> QED BY <1>1, HistoryInvariantHolds, PTL

-----------------------------------------------------------------------------
(* What the steps do to the memory of a publisher.                         *)

\* A publisher that moves on changes nothing but its stage.
LEMMA GotoFields ==
  ASSUME TypeOK, NEW p \in Publishers, NEW pc \in PC, Goto(p, pc)
  PROVE  /\ pub'[p].pc = pc /\ pub'[p].job = pub[p].job /\ pub'[p].parent = pub[p].parent
         /\ pub'[p].prev = pub[p].prev /\ pub'[p].gen = pub[p].gen
         /\ pub'[p].rel = pub[p].rel /\ pub'[p].seq = pub[p].seq
         /\ pub'[p].todo = pub[p].todo /\ pub'[p].outcome = pub[p].outcome
<1>1. pub[p] \in Memory
  BY DEF TypeOK
<1>2. pub'[p] = [pub[p] EXCEPT !.pc = pc]
  BY GotoTyped
<1> QED BY <1>1, <1>2 DEF Memory

\* A call that ends is idle with its outcome, and may keep its request,
\* generation and parent.
LEMMA ReturnFields ==
  ASSUME TypeOK, NEW p \in Publishers, NEW o \in Outcome
  PROVE  /\ Return(p, o) => pub'[p].pc = "idle" /\ pub'[p].outcome = o
         /\ ReturnFor(p, o) =>
              /\ pub'[p].pc = "idle" /\ pub'[p].outcome = o /\ pub'[p].todo = {}
              /\ pub'[p].job = pub[p].job /\ pub'[p].gen = pub[p].gen
<1>1. /\ Idle(o) \in Memory /\ Idle(o).pc = "idle" /\ Idle(o).outcome = o
      /\ Idle(o).todo = {}
  BY IdleTyped DEF Idle
<1>2. ASSUME Return(p, o) PROVE pub'[p] = Idle(o)
  BY <1>2 DEF Return, TypeOK
<1>3. ASSUME ReturnFor(p, o)
      PROVE  pub'[p] = [Idle(o) EXCEPT !.job = pub[p].job, !.gen = pub[p].gen,
                                       !.parent = pub[p].parent]
  BY <1>3 DEF ReturnFor, TypeOK
<1> QED BY <1>1, <1>2, <1>3 DEF Memory

\* Entering _post_publish sets the stage, the generation and the resolutions.
LEMMA PostPublishFields ==
  ASSUME TypeOK, NEW p \in Publishers, NEW g, NEW R, BeginPostPublish(p, g, R)
  PROVE  /\ pub'[p].pc = "members" /\ pub'[p].gen = g
         /\ pub'[p].todo = (ClaimsOf(Content(g)) \X {"accepted"}) \cup (R \X {"retracted"})
         /\ pub'[p].job = pub[p].job /\ pub'[p].outcome = pub[p].outcome
<1> DEFINE todo == (ClaimsOf(Content(g)) \X {"accepted"}) \cup (R \X {"retracted"})
<1>1. pub'[p] = [pub[p] EXCEPT !.pc = "members", !.gen = g, !.todo = todo]
  BY DEF BeginPostPublish, TypeOK
<1>2. pub[p] \in Memory
  BY DEF TypeOK
<1> HIDE DEF todo
<1>3. /\ pub'[p].pc = "members" /\ pub'[p].gen = g /\ pub'[p].todo = todo
      /\ pub'[p].job = pub[p].job /\ pub'[p].outcome = pub[p].outcome
  BY <1>1, <1>2 DEF Memory
<1> QED BY <1>3 DEF todo

\* A lost race for a ref or for the pointer ends the call, or starts it again.
LEMMA RaiseFields ==
  ASSUME TypeOK, NEW p \in Publishers, RaiseRefError(p) \/ RaiseCASConflict(p)
  PROVE  /\ pub'[p].pc \in {"idle", "prepare"}
         /\ pub'[p].outcome \in {"retry_later", "ref_error", "cas_conflict", "none"}
         /\ pub'[p].pc = "prepare" => pub'[p].outcome = "none"
<1>1. CASE \/ Return(p, "retry_later") \/ ReturnFor(p, "ref_error")
           \/ Return(p, "cas_conflict")
  BY <1>1, ReturnFields DEF Outcome
<1>2. CASE pub' = [pub EXCEPT ![p] = [Idle("none") EXCEPT
                     !.pc = "prepare", !.job = pub[p].job, !.attempts = pub[p].attempts]]
  <2>1. pub'[p] = [Idle("none") EXCEPT !.pc = "prepare", !.job = pub[p].job,
                                       !.attempts = pub[p].attempts]
    BY <1>2 DEF TypeOK
  <2>2. Idle("none") \in Memory /\ Idle("none").outcome = "none"
    BY IdleTyped DEF Outcome, Idle
  <2> QED BY <2>1, <2>2 DEF Memory
<1> QED BY <1>1, <1>2 DEF RaiseRefError, RaiseCASConflict

-----------------------------------------------------------------------------
(* The records of the control plane only grow.                             *)

Unready == {"absent", "validated"}

RecordsGrow ==
  /\ Len(objects) <= Len(objects')
  /\ \A g \in 1 .. Len(objects) : objects'[g] = objects[g]
  /\ \A g \in Ids : releaseRef[g] # None => releaseRef'[g] = releaseRef[g]
  /\ \A g \in Ids : row[g].state # "absent" =>
       row'[g].state # "absent" /\ row'[g].rel = row[g].rel /\ row'[g].seq = row[g].seq
  /\ \A g \in Ids : row[g].state \notin Unready => row'[g].state \notin Unready
  /\ \A g \in Ids : readModel[g] \subseteq readModel'[g]

\* What one publisher's step adds to the records, with its own part of the
\* invariant.
RecordStep(p) ==
  /\ RecordsGrow
  /\ \A q \in Publishers \ {p} : pub'[q] = pub[q]
  /\ Recorded(pub[p])'
  /\ \A g \in Ids : row[g].state = "absent" /\ row'[g].state # "absent" =>
       /\ g \in 1 .. Len(objects)
       /\ row'[g].rel = releaseRef'[g] /\ row'[g].rel # None
       /\ objects[g].parent # None => row[objects[g].parent].seq < row'[g].seq

\* The parent of a generation is activated, so it has a row.
LEMMA ParentsRegistered ==
  ASSUME TypeOK, NEW g \in ActivatedGens \cup {None}, g # None
  PROVE  g \in Ids /\ row[g].state # "absent" /\ g \in Rows
BY DEF ActivatedGens, Activated, Rows

\* What another publisher has recorded survives a step that lets records grow.
LEMMA GrowsRecorded ==
  ASSUME TypeOK, TypeOK', RecordsGrow, NEW q \in Publishers, Knows(pub[q]),
         Recorded(pub[q]), pub'[q] = pub[q]
  PROVE  Recorded(pub[q])'
<1> DEFINE m == pub[q]
<1>1. m.pc \in HasRelease => /\ m.gen \in Ids /\ m.rel # None
                             /\ m.parent \in ActivatedGens \cup {None}
  <2>1. HasRelease \subseteq HasParent /\ HasRelease \subseteq HasGen
    BY DEF HasRelease, HasGen, HasPrev
  <2>2. m.pc \in HasRelease => /\ m.gen \in 1 .. Len(objects) /\ m.rel \in 1 .. Len(releases)
                               /\ m.parent \in ActivatedGens \cup {None}
    BY <2>1 DEF Knows
  <2>3. Len(objects) \in Nat /\ Len(objects) <= MaxObjects /\ Len(releases) \in Nat
    BY TypedLengths DEF TypeOK
  <2> QED BY <2>2, <2>3 DEF Ids, None
<1>2. m.pc \in HasRelease /\ m.parent # None =>
        row'[m.parent].seq = row[m.parent].seq
  BY <1>1, ParentsRegistered DEF RecordsGrow
<1>3. HasSeq \subseteq HasRelease /\ {"read_current", "read_state", "activate"} \subseteq HasSeq
  BY DEF HasSeq, HasRelease, HasGen, HasPrev, HasParent
<1>4. m.pc \in HasRelease \ {"anchor_release"} => releaseRef'[m.gen] = m.rel
  BY <1>1 DEF RecordsGrow, Recorded
<1>5. m.pc \in HasSeq \ {"register"} => m.gen \in Rows'
  BY <1>1, <1>3 DEF RecordsGrow, Recorded, Rows
<1>6. m.pc \in {"read_current", "read_state", "activate"} => row'[m.gen].state # "validated"
  <2>1. m.pc \in {"read_current", "read_state", "activate"} =>
          m.gen \in Ids /\ row[m.gen].state \notin Unready
    BY <1>1, <1>3 DEF Recorded, Rows, Unready, HasSeq
  <2> QED BY <2>1 DEF RecordsGrow, Unready
<1>7. \A model : m.pc \in HasRelease /\ model \in readModel[m.gen] => model \in readModel'[m.gen]
  BY <1>1 DEF RecordsGrow
<1> HIDE DEF m
<1>8. Recorded(m) /\ pub'[q] = m
  BY DEF m
<1> QED BY <1>2, <1>3, <1>4, <1>5, <1>6, <1>7, <1>8 DEF Recorded

\* A step that adds to the records keeps the part of the invariant about them.
LEMMA RecordStepKeeps ==
  ASSUME HistoryInvariant, HistoryInvariant', RowsRecorded,
         \A q \in Publishers : Recorded(pub[q]),
         NEW p \in Publishers, RecordStep(p)
  PROVE  RowsRecorded' /\ (\A q \in Publishers : Recorded(pub[q]))'
<1>0. TypeOK /\ TypeOK' /\ ArtifactsKnown /\ PublisherKnows
  BY DEF HistoryInvariant
<1>1. ASSUME NEW g \in Ids, row'[g].state # "absent"
      PROVE  /\ g \in 1 .. Len(objects')
             /\ row'[g].rel = releaseRef'[g] /\ row'[g].rel # None
             /\ objects'[g].parent # None => row'[objects'[g].parent].seq < row'[g].seq
  <2>1. /\ g \in 1 .. Len(objects) 
        /\ row'[g].rel = releaseRef'[g] /\ row'[g].rel # None
        /\ objects[g].parent # None => row[objects[g].parent].seq < row'[g].seq
    <3>1. CASE row[g].state = "absent"
      BY <1>1, <3>1 DEF RecordStep
    <3>2. CASE row[g].state # "absent"
      BY <3>2 DEF RecordStep, RecordsGrow, RowsRecorded, Rows
    <3> QED BY <3>1, <3>2
  <2>2. Len(objects) \in Nat /\ Len(objects') \in Nat /\ objects'[g] = objects[g]
        /\ Len(objects) <= Len(objects')
    BY <1>0, <2>1, TypedLengths DEF RecordStep, RecordsGrow, TypeOK
  <2>3. objects[g].parent # None =>
          row'[objects[g].parent].seq = row[objects[g].parent].seq
    BY <1>0, <2>1, ParentsRegistered DEF RecordStep, RecordsGrow, ArtifactsKnown
  <2> QED BY <2>1, <2>2, <2>3
<1>2. RowsRecorded'
  BY <1>1 DEF RowsRecorded, Rows
<1>3. ASSUME NEW q \in Publishers PROVE Recorded(pub[q])'
  <2>1. CASE q = p
    BY <2>1 DEF RecordStep
  <2>2. CASE q # p
    BY <1>0, <2>2, GrowsRecorded DEF RecordStep, PublisherKnows
  <2> QED BY <2>1, <2>2
<1> QED BY <1>2, <1>3

\* A step that leaves the rows and the release refs alone, of a publisher that
\* has no release yet, or has none any more.
LEMMA QuietRecordStep ==
  ASSUME TypeOK, NEW p \in Publishers, GoodStep(p),
         UNCHANGED <<releaseRef, row, readModel>>,
         pub'[p].pc \notin HasRelease, pub'[p].outcome # "activation_error"
  PROVE  RecordStep(p)
<1>1. RecordsGrow
  BY DEF GoodStep, Grows, RecordsGrow
<1>2. \A q \in Publishers \ {p} : pub'[q] = pub[q]
  BY DEF GoodStep, TypeOK
<1>3. Recorded(pub[p])'
  BY DEF Recorded, HasSeq, HasRelease, HasGen, HasPrev, HasParent
<1> QED BY <1>1, <1>2, <1>3 DEF RecordStep

\* The steps before a release is built, and those that end a call.
LEMMA EarlyRecordStep ==
  ASSUME HistoryInvariant, RecordInvariant, NEW p \in Publishers,
         \/ Start(p) \/ ReplayCheck(p) \/ Prepare(p) \/ ReadRelease(p)
         \/ BuildCandidate(p) \/ AnchorCandidate(p) \/ Crash(p)
  PROVE  RecordStep(p)
<1>0. TypeOK /\ PublisherKnows /\ Tables /\ pub[p] \in Memory
      /\ pub[p].outcome # "activation_error"
  BY DEF HistoryInvariant, Tables, RecordInvariant, Recorded, TypeOK
<1>1. GoodStep(p)
  BY <1>0, StartStep, ReplayCheckStep, PrepareStep, ReadReleaseStep, BuildCandidateStep,
     AnchorCandidateStep, CrashStep
<1>2. UNCHANGED <<releaseRef, row, readModel>>
  BY DEF Start, ReplayCheck, Prepare, ReadRelease, BuildCandidate, AnchorCandidate, Crash,
         git, control
<1>3. {"idle", "replay_check", "prepare", "read_release", "candidate", "anchor_candidate",
       "release", "members"} \cap HasRelease = {}
  BY DEF HasRelease, HasGen, HasPrev, HasParent
<1>4. CASE Start(p)
  <2>1. PICK job : pub' = [pub EXCEPT ![p] = [Idle("none") EXCEPT
                     !.pc = IF job.kind = "changeset" THEN "replay_check" ELSE "prepare",
                     !.job = job]]
    BY <1>4 DEF Start
  <2>2. pub'[p].pc \in {"replay_check", "prepare"} /\ pub'[p].outcome = "none"
    BY <1>0, <2>1 DEF TypeOK, Idle
  <2> QED BY <1>0, <1>1, <1>2, <1>3, <2>2, QuietRecordStep
<1>5. CASE ReplayCheck(p)
  <2>1. pub'[p].pc \in {"members", "prepare"} /\ pub'[p].outcome = pub[p].outcome
    BY <1>0, <1>5, PostPublishFields, GotoFields DEF ReplayCheck, PC
  <2> QED BY <1>0, <1>1, <1>2, <1>3, <2>1, QuietRecordStep
<1>6. CASE Prepare(p)
  <2>1. CASE Return(p, "retry_later") \/ Return(p, "noop")
    <3>1. pub'[p].pc = "idle" /\ pub'[p].outcome # "activation_error"
      BY <1>0, <2>1, ReturnFields DEF Outcome
    <3> QED BY <1>0, <1>1, <1>2, <1>3, <3>1, QuietRecordStep
  <2>2. CASE pub' = [pub EXCEPT ![p].pc = "read_release", ![p].parent = pointer,
                       ![p].attempts = pub[p].attempts + 1]
    <3>1. pub'[p] = [pub[p] EXCEPT !.pc = "read_release", !.parent = pointer,
                       !.attempts = pub[p].attempts + 1]
      BY <1>0, <2>2 DEF TypeOK
    <3>2. pub'[p].pc = "read_release" /\ pub'[p].outcome = pub[p].outcome
      BY <1>0, <3>1 DEF Memory
    <3> QED BY <1>0, <1>1, <1>2, <1>3, <3>2, QuietRecordStep
  <2> QED BY <1>6, <2>1, <2>2 DEF Prepare
<1>7. CASE ReadRelease(p)
  <2>1. PICK prev : pub' = [pub EXCEPT ![p].pc = "candidate", ![p].prev = prev]
    BY <1>7 DEF ReadRelease
  <2>2. pub'[p] = [pub[p] EXCEPT !.pc = "candidate", !.prev = prev]
    BY <1>0, <2>1 DEF TypeOK
  <2>3. pub'[p].pc = "candidate" /\ pub'[p].outcome = pub[p].outcome
    BY <1>0, <2>2 DEF Memory
  <2> QED BY <1>0, <1>1, <1>2, <1>3, <2>3, QuietRecordStep
<1>8. CASE BuildCandidate(p)
  <2>1. CASE RaiseRefError(p)
    <3>1. pub'[p].pc \in {"idle", "prepare"} /\ pub'[p].outcome # "activation_error"
      BY <1>0, <2>1, RaiseFields
    <3> QED BY <1>0, <1>1, <1>2, <1>3, <3>1, QuietRecordStep
  <2>2. CASE \E g : pub' = [pub EXCEPT ![p].gen = g,
                       ![p].pc = IF g \in genRefs THEN "release" ELSE "anchor_candidate"]
    <3>1. PICK g : pub' = [pub EXCEPT ![p].gen = g,
                       ![p].pc = IF g \in genRefs THEN "release" ELSE "anchor_candidate"]
      BY <2>2
    <3>2. pub'[p] = [pub[p] EXCEPT !.gen = g, !.pc = IF g \in genRefs THEN "release"
                                                     ELSE "anchor_candidate"]
      BY <1>0, <3>1 DEF TypeOK
    <3>3. pub'[p].pc \in {"release", "anchor_candidate"} /\ pub'[p].outcome = pub[p].outcome
      BY <1>0, <3>2 DEF Memory
    <3> QED BY <1>0, <1>1, <1>2, <1>3, <3>3, QuietRecordStep
  <2> QED BY <1>8, <2>1, <2>2 DEF BuildCandidate
<1>9. CASE AnchorCandidate(p)
  <2>1. pub'[p].pc \in {"idle", "prepare", "release"} /\ pub'[p].outcome # "activation_error"
    BY <1>0, <1>9, RaiseFields, GotoFields DEF AnchorCandidate, PC
  <2> QED BY <1>0, <1>1, <1>2, <1>3, <2>1, QuietRecordStep
<1>10. CASE Crash(p)
  <2>1. pub'[p].pc = "idle" /\ pub'[p].outcome = "none"
    BY <1>0, <1>10, ReturnFields DEF Crash, Return, Outcome
  <2> QED BY <1>0, <1>1, <1>2, <1>3, <2>1, QuietRecordStep
<1> QED BY <1>4, <1>5, <1>6, <1>7, <1>8, <1>9, <1>10

\* The steps of _post_publish leave the records alone.
LEMMA PostPublishRecordStep ==
  ASSUME HistoryInvariant, RecordInvariant, NEW p \in Publishers,
         \/ AddGenerationAssertions(p) \/ RecordResolution(p) \/ BuildSearchIndex(p)
         \/ SetSearchPointer(p)
  PROVE  RecordStep(p)
<1>0. TypeOK /\ PublisherKnows /\ Tables /\ pub[p] \in Memory
      /\ pub[p].outcome # "activation_error"
  BY DEF HistoryInvariant, Tables, RecordInvariant, Recorded, TypeOK
<1>1. GoodStep(p)
  BY <1>0, AddGenerationAssertionsStep, RecordResolutionStep, BuildSearchIndexStep,
     SetSearchPointerStep
<1>2. UNCHANGED <<releaseRef, row, readModel>>
  BY DEF AddGenerationAssertions, RecordResolution, BuildSearchIndex, SetSearchPointer,
         git, control
<1>3. {"idle", "resolve", "index", "search_pointer"} \cap HasRelease = {}
  BY DEF HasRelease, HasGen, HasPrev, HasParent
<1>4. /\ pub'[p].pc \in {"idle", "resolve", "index", "search_pointer"}
      /\ pub'[p].outcome # "activation_error"
  <2>1. CASE SetSearchPointer(p)
    <3>1. ReturnFor(p, "ok") \/ ReturnFor(p, "replayed")
      BY <2>1 DEF SetSearchPointer
    <3> QED BY <1>0, <3>1, ReturnFields DEF Outcome
  <2>2. CASE AddGenerationAssertions(p) \/ BuildSearchIndex(p)
    BY <1>0, <2>2, GotoFields DEF AddGenerationAssertions, BuildSearchIndex, PC
  <2>3. CASE RecordResolution(p)
    <3>1. CASE Goto(p, "index")
      BY <1>0, <3>1, GotoFields DEF PC
    <3>2. CASE \E t : pub' = [pub EXCEPT ![p].todo = @ \ {t}]
      <4>1. PICK t : pub' = [pub EXCEPT ![p].todo = @ \ {t}]
        BY <3>2
      <4>2. pub'[p] = [pub[p] EXCEPT !.todo = pub[p].todo \ {t}] /\ pub[p].pc = "resolve"
        BY <1>0, <2>3, <4>1 DEF TypeOK, RecordResolution, At
      <4> QED BY <1>0, <4>2 DEF Memory
    <3> QED BY <2>3, <3>1, <3>2 DEF RecordResolution
  <2> QED BY <2>1, <2>2, <2>3
<1> QED BY <1>0, <1>1, <1>2, <1>3, <1>4, QuietRecordStep

\* A step that leaves the rows, the read models and other release refs alone
\* lets the records grow.
LEMMA RefsRecordStep ==
  ASSUME TypeOK, NEW p \in Publishers, GoodStep(p), UNCHANGED <<row, readModel>>,
         \A g \in Ids : releaseRef[g] # None => releaseRef'[g] = releaseRef[g],
         Recorded(pub[p])'
  PROVE  RecordStep(p)
<1>1. RecordsGrow
  BY DEF GoodStep, Grows, RecordsGrow
<1>2. \A q \in Publishers \ {p} : pub'[q] = pub[q]
  BY DEF GoodStep, TypeOK
<1> QED BY <1>1, <1>2 DEF RecordStep

\* Building the release: a publisher goes on without anchoring it only when the
\* ref names this very release.
LEMMA BuildReleaseRecords ==
  ASSUME HistoryInvariant, RecordInvariant, NEW p \in Publishers, BuildRelease(p)
  PROVE  RecordStep(p)
<1>0. TypeOK /\ PublisherKnows /\ Tables /\ pub[p] \in Memory
      /\ pub[p].outcome # "activation_error"
  BY DEF HistoryInvariant, Tables, RecordInvariant, Recorded, TypeOK
<1>1. GoodStep(p)
  BY <1>0, BuildReleaseStep
<1>2. UNCHANGED <<releaseRef, row, readModel>>
  BY DEF BuildRelease, control
<1>3. CASE RaiseRefError(p)
  <2>1. pub'[p].pc \in {"idle", "prepare"} /\ pub'[p].outcome # "activation_error"
    BY <1>0, <1>3, RaiseFields
  <2>2. {"idle", "prepare"} \cap HasRelease = {}
    BY DEF HasRelease, HasGen, HasPrev, HasParent
  <2> QED BY <1>0, <1>1, <1>2, <2>1, <2>2, QuietRecordStep
<1>4. CASE ~RaiseRefError(p)
  <2> DEFINE oid == IdOf(releases, [gen |-> pub[p].gen, prev |-> pub[p].prev])
  <2>1. /\ releaseRef[pub[p].gen] \in {None, oid}
        /\ pub' = [pub EXCEPT ![p].rel = oid,
                     ![p].pc = IF releaseRef[pub[p].gen] = None
                               THEN "anchor_release" ELSE "read_seq"]
    BY <1>4 DEF BuildRelease
  <2> HIDE DEF oid
  <2>2. pub'[p] = [pub[p] EXCEPT !.rel = oid, !.pc = IF releaseRef[pub[p].gen] = None
                                                     THEN "anchor_release" ELSE "read_seq"]
    BY <1>0, <2>1 DEF TypeOK
  <2>3. /\ pub'[p].rel = oid /\ pub'[p].gen = pub[p].gen
        /\ pub'[p].outcome = pub[p].outcome
        /\ IF releaseRef[pub[p].gen] = None THEN pub'[p].pc = "anchor_release"
           ELSE pub'[p].pc = "read_seq"
    BY <1>0, <2>2 DEF Memory
  <2>4. "read_seq" \notin HasSeq /\ "anchor_release" \notin HasSeq
    BY DEF HasSeq
  <2>5. Recorded(pub[p])'
    BY <1>0, <1>2, <2>1, <2>3, <2>4 DEF Recorded
  <2> QED BY <1>0, <1>1, <1>2, <2>5, RefsRecordStep
<1> QED BY <1>3, <1>4

\* Anchoring the release binds the generation to it.
LEMMA AnchorReleaseRecords ==
  ASSUME HistoryInvariant, RecordInvariant, NEW p \in Publishers, AnchorRelease(p)
  PROVE  RecordStep(p)
<1>0. TypeOK /\ PublisherKnows /\ Tables /\ pub[p] \in Memory
      /\ pub[p].outcome # "activation_error"
  BY DEF HistoryInvariant, Tables, RecordInvariant, Recorded, TypeOK
<1>1. GoodStep(p) /\ UNCHANGED <<row, readModel>>
  BY <1>0, AnchorReleaseStep DEF AnchorRelease, control
<1>2. CASE RaiseRefError(p) /\ UNCHANGED releaseRef
  <2>1. pub'[p].pc \in {"idle", "prepare"} /\ pub'[p].outcome # "activation_error"
    BY <1>0, <1>2, RaiseFields
  <2>2. {"idle", "prepare"} \cap HasRelease = {}
    BY DEF HasRelease, HasGen, HasPrev, HasParent
  <2> QED BY <1>0, <1>1, <1>2, <2>1, <2>2, QuietRecordStep
<1>3. CASE /\ releaseRef[pub[p].gen] = None
           /\ releaseRef' = [releaseRef EXCEPT ![pub[p].gen] = pub[p].rel]
           /\ Goto(p, "read_seq")
  <2>1. /\ pub'[p].pc = "read_seq" /\ pub'[p].gen = pub[p].gen
        /\ pub'[p].rel = pub[p].rel /\ pub'[p].outcome = pub[p].outcome
    BY <1>0, <1>3, GotoFields DEF PC
  <2>2. pub[p].gen \in Ids
    <3>1. pub[p].pc \in HasRelease
      BY DEF AnchorRelease, At, HasRelease, HasGen, HasPrev, HasParent
    <3> QED BY <1>0, <3>1, ReleaseKnown
  <2>3. /\ releaseRef'[pub[p].gen] = pub[p].rel
        /\ \A g \in Ids : releaseRef[g] # None => releaseRef'[g] = releaseRef[g]
    BY <1>0, <1>3, <2>2 DEF TypeOK
  <2>4. Recorded(pub[p])'
    BY <1>0, <2>1, <2>3 DEF Recorded, HasSeq
  <2> QED BY <1>0, <1>1, <2>3, <2>4, RefsRecordStep
<1> QED BY <1>2, <1>3 DEF AnchorRelease

\* The seq that is read is larger than that of the parent, which has a row.
LEMMA ReadSeqRecords ==
  ASSUME HistoryInvariant, RecordInvariant, NEW p \in Publishers, ReadSeq(p)
  PROVE  RecordStep(p)
<1>0. TypeOK /\ PublisherKnows /\ Tables /\ pub[p] \in Memory /\ Recorded(pub[p])
      /\ Knows(pub[p]) /\ pub[p].pc = "read_seq"
  BY DEF HistoryInvariant, Tables, RecordInvariant, TypeOK, PublisherKnows, ReadSeq, At
<1>1. GoodStep(p) /\ UNCHANGED <<row, readModel, releaseRef>>
  BY <1>0, ReadSeqStep DEF ReadSeq, control, git
<1>2. PICK n \in NextSeq : pub' = [pub EXCEPT ![p].pc = "register", ![p].seq = n]
  BY DEF ReadSeq
<1>3. pub'[p] = [pub[p] EXCEPT !.pc = "register", !.seq = n]
  BY <1>0, <1>2 DEF TypeOK
<1>4. /\ pub'[p].pc = "register" /\ pub'[p].seq = n /\ pub'[p].gen = pub[p].gen
      /\ pub'[p].rel = pub[p].rel /\ pub'[p].parent = pub[p].parent
      /\ pub'[p].outcome = pub[p].outcome
  BY <1>0, <1>3 DEF Memory
<1>5. pub[p].parent # None => row[pub[p].parent].seq < n
  <2> SUFFICES ASSUME pub[p].parent # None PROVE row[pub[p].parent].seq < n
    OBVIOUS
  <2>1. pub[p].parent \in Rows
    BY <1>0, ParentsRegistered DEF Knows, HasParent
  <2>2. PICK g \in NewestRows : n = row[g].seq + 1
    BY <2>1 DEF NextSeq
  <2>3. row[pub[p].parent].seq <= row[g].seq
    BY <2>1, <2>2 DEF NewestRows
  <2>4. row[pub[p].parent].seq \in Nat /\ row[g].seq \in Nat
    BY <1>0, <2>1, <2>2 DEF NewestRows, Rows, TypeOK
  <2> QED BY <2>2, <2>3, <2>4
<1>6. "read_seq" \in HasRelease \ {"anchor_release"}
  BY DEF HasRelease, HasGen, HasPrev, HasParent
<1>7. Recorded(pub[p])'
  BY <1>0, <1>1, <1>4, <1>5, <1>6 DEF Recorded
<1> QED BY <1>0, <1>1, <1>7, RefsRecordStep

\* A publisher that has its seq names a generation, and its release is anchored.
LEMMA HasSeqKnown ==
  ASSUME HistoryInvariant, RecordInvariant, NEW p \in Publishers, pub[p].pc \in HasSeq
  PROVE  /\ TypeOK /\ PublisherKnows /\ Tables /\ pub[p] \in Memory /\ Recorded(pub[p])
         /\ pub[p].gen \in Ids /\ pub[p].gen \in 1 .. Len(objects)
         /\ objects[pub[p].gen].parent = pub[p].parent
         /\ releaseRef[pub[p].gen] = pub[p].rel /\ pub[p].rel # None
<1>0. TypeOK /\ PublisherKnows /\ Tables /\ pub[p] \in Memory /\ Recorded(pub[p])
      /\ Knows(pub[p])
  BY DEF HistoryInvariant, Tables, RecordInvariant, TypeOK, PublisherKnows
<1>1. pub[p].pc \in HasRelease \ {"anchor_release"} /\ pub[p].pc \in HasGen
  BY DEF HasSeq, HasRelease
<1>2. pub[p].gen \in Ids /\ pub[p].gen \in 1 .. Len(objects) /\ pub[p].rel \in Ids
  BY <1>0, <1>1, ReleaseKnown
<1> QED BY <1>0, <1>1, <1>2 DEF Knows, Recorded, None, Ids

\* Registration inserts a row with the anchored release and a seq beyond the
\* parent's, or finds one.
LEMMA RegisterRecords ==
  ASSUME HistoryInvariant, RecordInvariant, NEW p \in Publishers, RegisterGeneration(p)
  PROVE  RecordStep(p)
<1> DEFINE g   == pub[p].gen
           new == [state |-> "validated", rel |-> pub[p].rel, seq |-> pub[p].seq]
<1>1. pub[p].pc = "register" /\ "register" \in HasSeq
  BY DEF RegisterGeneration, At, HasSeq, HasRelease, HasGen, HasPrev, HasParent
<1>2. /\ TypeOK /\ PublisherKnows /\ Tables /\ pub[p] \in Memory /\ Recorded(pub[p])
      /\ g \in Ids /\ g \in 1 .. Len(objects)
      /\ objects[g].parent = pub[p].parent
      /\ releaseRef[g] = pub[p].rel /\ pub[p].rel # None
  BY <1>1, HasSeqKnown
<1>3. GoodStep(p) /\ UNCHANGED <<readModel, releaseRef>>
  BY <1>2, RegisterStep DEF RegisterGeneration, git
<1>4. /\ pub'[p].pc = "mark_wiki" /\ pub'[p].gen = g /\ pub'[p].rel = pub[p].rel
      /\ pub'[p].parent = pub[p].parent /\ pub'[p].seq = pub[p].seq
      /\ pub'[p].outcome = pub[p].outcome
  BY <1>2, GotoFields DEF RegisterGeneration, PC
<1>5. \/ row[g].state # "absent" /\ row' = row
      \/ row[g].state = "absent" /\ row' = [row EXCEPT ![g] = new]
  BY DEF RegisterGeneration
<1>6. \A h \in Ids : h # g => row'[h] = row[h]
  BY <1>2, <1>5 DEF TypeOK
<1>7. row[g].state = "absent" => row'[g] = new
  BY <1>2, <1>5 DEF TypeOK
<1>8. row[g].state # "absent" => row' = row
  BY <1>5
<1>9. new.state = "validated" /\ new.rel = pub[p].rel /\ new.seq = pub[p].seq
  OBVIOUS
<1> HIDE DEF new, g
<1>10. pub[p].parent # None => row[pub[p].parent].seq < pub[p].seq
  BY <1>1, <1>2 DEF Recorded
<1>11. RecordsGrow
  BY <1>2, <1>3, <1>6, <1>7, <1>8, <1>9 DEF RecordsGrow, GoodStep, Grows, Unready
<1>12. \A h \in Ids : row[h].state = "absent" /\ row'[h].state # "absent" =>
         /\ h \in 1 .. Len(objects) /\ row'[h].rel = releaseRef'[h] /\ row'[h].rel # None
         /\ objects[h].parent # None => row[objects[h].parent].seq < row'[h].seq
  BY <1>2, <1>3, <1>6, <1>7, <1>9, <1>10
<1>13. Recorded(pub[p])'
  <2>1. "mark_wiki" \in HasSeq \ {"register"} /\ "mark_wiki" \in HasRelease
    BY DEF HasSeq, HasRelease, HasGen, HasPrev, HasParent
  <2>2. g \in Rows'
    BY <1>2, <1>7, <1>8, <1>9 DEF Rows
  <2>3. pub[p].parent # None => row'[pub[p].parent].seq = row[pub[p].parent].seq
    <3>1. pub[p].parent \in ActivatedGens \cup {None}
      BY <1>1, <1>2 DEF PublisherKnows, Knows, HasParent
    <3> QED BY <1>2, <1>11, <3>1, ParentsRegistered DEF RecordsGrow
  <2>4. pub[p].outcome # "activation_error"
    BY <1>2 DEF Recorded
  <2> QED BY <1>2, <1>3, <1>4, <1>10, <2>1, <2>2, <2>3, <2>4 DEF Recorded
<1>14. \A q \in Publishers \ {p} : pub'[q] = pub[q]
  BY <1>2, <1>3 DEF GoodStep, TypeOK
<1> QED BY <1>11, <1>12, <1>13, <1>14 DEF RecordStep

\* Marking a read model adds it to those that are ready.
LEMMA MarkReadModelRecords ==
  ASSUME HistoryInvariant, RecordInvariant, NEW p \in Publishers,
         \/ MarkReadModel(p, "wiki_files", "mark_wiki", "mark_citation")
         \/ MarkReadModel(p, "citation_index", "mark_citation", "set_ready")
  PROVE  RecordStep(p)
<1> DEFINE g == pub[p].gen
<1>1. pub[p].pc \in {"mark_wiki", "mark_citation"} /\ pub[p].pc \in HasSeq
  BY DEF MarkReadModel, At, HasSeq, HasRelease, HasGen, HasPrev, HasParent
<1>2. /\ TypeOK /\ PublisherKnows /\ Tables /\ pub[p] \in Memory /\ Recorded(pub[p])
      /\ g \in Ids /\ releaseRef[g] = pub[p].rel
  BY <1>1, HasSeqKnown
<1>3. GoodStep(p) /\ UNCHANGED <<row, releaseRef>>
  BY <1>2, MarkReadModelStep DEF MarkReadModel, git
<1>4. /\ pub'[p].pc = IF pub[p].pc = "mark_wiki" THEN "mark_citation" ELSE "set_ready"
      /\ pub'[p].gen = g /\ pub'[p].rel = pub[p].rel
      /\ pub'[p].parent = pub[p].parent /\ pub'[p].seq = pub[p].seq
      /\ pub'[p].outcome = pub[p].outcome
  <2>1. {"mark_citation", "set_ready"} \subseteq PC
    BY DEF PC
  <2>2. CASE At(p, "mark_wiki") /\ Goto(p, "mark_citation")
    BY <1>2, <2>1, <2>2, GotoFields DEF At
  <2>3. CASE At(p, "mark_citation") /\ Goto(p, "set_ready")
    BY <1>2, <2>1, <2>3, GotoFields DEF At
  <2> QED BY <2>2, <2>3 DEF MarkReadModel
<1>5. /\ \A h \in Ids : readModel[h] \subseteq readModel'[h]
      /\ IF pub[p].pc = "mark_wiki" THEN "wiki_files" \in readModel'[g]
         ELSE "citation_index" \in readModel'[g]
  <2>1. readModel \in [Ids -> SUBSET ReadModels]
    BY <1>2 DEF TypeOK
  <2>2. CASE /\ pub[p].pc = "mark_wiki"
             /\ readModel' = [readModel EXCEPT ![g] = @ \cup {"wiki_files"}]
    BY <1>2, <2>1, <2>2
  <2>3. CASE /\ pub[p].pc = "mark_citation"
             /\ readModel' = [readModel EXCEPT ![g] = @ \cup {"citation_index"}]
    BY <1>2, <2>1, <2>3
  <2> QED BY <2>2, <2>3 DEF MarkReadModel, At
<1>6. RecordsGrow
  BY <1>3, <1>5 DEF RecordsGrow, GoodStep, Grows
<1>7. Recorded(pub[p])'
  <2>1. /\ {"mark_citation", "set_ready", "mark_wiki"} \subseteq HasSeq
        /\ HasSeq \subseteq HasRelease /\ "anchor_release" \notin HasSeq
    BY DEF HasSeq, HasRelease, HasGen, HasPrev, HasParent
  <2>2. pub[p].outcome # "activation_error" /\ g \in Rows
        /\ (pub[p].parent # None => row[pub[p].parent].seq < pub[p].seq)
        /\ (pub[p].pc = "mark_citation" => "wiki_files" \in readModel[g])
    BY <1>1, <1>2, <2>1 DEF Recorded
  <2>3. Rows' = Rows
    BY <1>3 DEF Rows
  <2>4. pub'[p].pc = "mark_citation" \/ pub'[p].pc = "set_ready"
    BY <1>4
  <2>5. "wiki_files" \in readModel'[g]
    BY <1>1, <1>2, <1>5, <2>2
  <2>6. pub'[p].pc = "set_ready" => "citation_index" \in readModel'[g]
    BY <1>4, <1>5
  <2> HIDE DEF g
  <2> QED BY <1>2, <1>3, <1>4, <2>1, <2>2, <2>3, <2>4, <2>5, <2>6 DEF Recorded
<1>8. \A q \in Publishers \ {p} : pub'[q] = pub[q]
  BY <1>2, <1>3 DEF GoodStep, TypeOK
<1> QED BY <1>3, <1>6, <1>7, <1>8 DEF RecordStep

\* Setting the state touches a validated row only.
LEMMA SetReadyRecords ==
  ASSUME HistoryInvariant, RecordInvariant, NEW p \in Publishers, SetReadModelsReady(p)
  PROVE  RecordStep(p)
<1> DEFINE g == pub[p].gen
<1>1. pub[p].pc = "set_ready" /\ pub[p].pc \in HasSeq
  BY DEF SetReadModelsReady, At, HasSeq, HasRelease, HasGen, HasPrev, HasParent
<1>2. /\ TypeOK /\ PublisherKnows /\ Tables /\ pub[p] \in Memory /\ Recorded(pub[p])
      /\ g \in Ids /\ releaseRef[g] = pub[p].rel
  BY <1>1, HasSeqKnown
<1>3. GoodStep(p) /\ UNCHANGED <<readModel, releaseRef>>
  BY <1>2, SetReadModelsReadyStep DEF SetReadModelsReady, git
<1>4. /\ pub'[p].pc = "read_current" /\ pub'[p].gen = g /\ pub'[p].rel = pub[p].rel
      /\ pub'[p].parent = pub[p].parent /\ pub'[p].seq = pub[p].seq
      /\ pub'[p].outcome = pub[p].outcome
  BY <1>2, GotoFields DEF SetReadModelsReady, PC
<1>5. /\ \A h \in Ids : h # g => row'[h] = row[h]
      /\ row'[g].rel = row[g].rel /\ row'[g].seq = row[g].seq
      /\ IF row[g].state = "validated" THEN row'[g].state = "read_models_ready"
         ELSE row'[g].state = row[g].state
  <2>1. row[g] \in [state : GenState, rel : Opt, seq : Nat]
    BY <1>2 DEF TypeOK
  <2>2. CASE row[g].state = "validated"
    <3>1. /\ row'[g] = [row[g] EXCEPT !.state = "read_models_ready"]
          /\ \A h \in Ids : h # g => row'[h] = row[h]
      BY <1>2, <2>2 DEF SetReadModelsReady, TypeOK
    <3> QED BY <2>1, <2>2, <3>1
  <2>3. CASE row[g].state # "validated"
    BY <2>3 DEF SetReadModelsReady
  <2> QED BY <2>2, <2>3
<1>6. g \in Rows /\ pub[p].outcome # "activation_error"
      /\ (pub[p].parent # None => row[pub[p].parent].seq < pub[p].seq)
      /\ "wiki_files" \in readModel[g] /\ "citation_index" \in readModel[g]
  BY <1>1, <1>2 DEF Recorded
<1> HIDE DEF g
<1>7. RecordsGrow
  BY <1>2, <1>3, <1>5 DEF RecordsGrow, GoodStep, Grows, Unready
<1>8. Recorded(pub[p])'
  <2>1. "read_current" \in HasSeq \ {"register"} /\ "read_current" \in HasRelease
    BY DEF HasSeq, HasRelease, HasGen, HasPrev, HasParent
  <2>2. pub[p].parent # None => row'[pub[p].parent].seq = row[pub[p].parent].seq
    <3>1. pub[p].parent \in ActivatedGens \cup {None}
      BY <1>1, <1>2 DEF PublisherKnows, Knows, HasParent
    <3> QED BY <1>2, <1>7, <3>1, ParentsRegistered DEF RecordsGrow
  <2>3. g \in Rows' /\ row'[g].state # "validated"
    BY <1>2, <1>5, <1>6 DEF Rows
  <2> QED BY <1>2, <1>3, <1>4, <1>6, <2>1, <2>2, <2>3 DEF Recorded
<1>9. \A q \in Publishers \ {p} : pub'[q] = pub[q]
  BY <1>2, <1>3 DEF GoodStep, TypeOK
<1>10. \A h \in Ids : row[h].state = "absent" => row'[h].state = "absent"
  BY <1>5, <1>6 DEF Rows
<1> QED BY <1>7, <1>8, <1>9, <1>10 DEF RecordStep

\* The reads before the activation change the stage at most.
LEMMA ReadBeforeActivateRecords ==
  ASSUME HistoryInvariant, RecordInvariant, NEW p \in Publishers,
         ReadCurrent(p) \/ ReadState(p)
  PROVE  RecordStep(p)
<1>1. pub[p].pc \in {"read_current", "read_state"} /\ pub[p].pc \in HasSeq
  BY DEF ReadCurrent, ReadState, At, HasSeq, HasRelease, HasGen, HasPrev, HasParent
<1>2. /\ TypeOK /\ PublisherKnows /\ Tables /\ pub[p] \in Memory /\ Recorded(pub[p])
      /\ pub[p].gen \in Ids /\ releaseRef[pub[p].gen] = pub[p].rel
  BY <1>1, HasSeqKnown
<1>3. GoodStep(p) /\ UNCHANGED <<row, readModel, releaseRef>>
  BY <1>2, ReadCurrentStep, ReadStateStep DEF ReadCurrent, ReadState, git, control
<1>4. pub[p].outcome # "activation_error"
  BY <1>2 DEF Recorded
<1>5. CASE Goto(p, "read_state") \/ Goto(p, "activate")
  <2>1. /\ pub'[p].pc \in {"read_state", "activate"} /\ pub'[p].gen = pub[p].gen
        /\ pub'[p].rel = pub[p].rel /\ pub'[p].parent = pub[p].parent
        /\ pub'[p].seq = pub[p].seq /\ pub'[p].outcome = pub[p].outcome
    BY <1>2, <1>5, GotoFields DEF PC
  <2>2. /\ {"read_current", "read_state", "activate"} \subseteq HasSeq \ {"register"}
        /\ HasSeq \subseteq HasRelease
    BY DEF HasSeq, HasRelease, HasGen, HasPrev, HasParent
  <2>3. Rows' = Rows
    BY <1>3 DEF Rows
  <2>4. /\ pub[p].gen \in Rows /\ row[pub[p].gen].state # "validated"
        /\ (pub[p].parent # None => row[pub[p].parent].seq < pub[p].seq)
        /\ "wiki_files" \in readModel[pub[p].gen]
        /\ "citation_index" \in readModel[pub[p].gen]
    BY <1>1, <1>2 DEF Recorded
  <2>5. Recorded(pub[p])'
    BY <1>2, <1>3, <1>4, <2>1, <2>2, <2>3, <2>4 DEF Recorded
  <2> QED BY <1>2, <1>3, <2>5, RefsRecordStep
<1>6. CASE BeginPostPublish(p, pub[p].gen, pub[p].job.revokes)
  <2>1. pub'[p].pc = "members" /\ pub'[p].outcome = pub[p].outcome
    BY <1>2, <1>6, PostPublishFields
  <2>2. "members" \notin HasRelease
    BY DEF HasRelease, HasGen, HasPrev, HasParent
  <2> QED BY <1>2, <1>3, <1>4, <2>1, <2>2, QuietRecordStep
<1> QED BY <1>5, <1>6 DEF ReadCurrent, ReadState

\* A publisher whose compare-and-swap holds finds its generation ready: it
\* cannot be activated already, since the current generation is its parent.
LEMMA SwapImpliesActivatable ==
  ASSUME HistoryInvariant, RecordInvariant, NEW p \in Publishers,
         pub[p].pc = "activate", ParentIsCurrent(p)
  PROVE  Activatable(p)
<1> DEFINE g == pub[p].gen
<1>1. pub[p].pc \in HasSeq /\ pub[p].pc \in HasSeq \ {"register", "mark_wiki", "mark_citation"}
  BY DEF HasSeq, HasRelease, HasGen, HasPrev, HasParent
<1>2. /\ TypeOK /\ PublisherKnows /\ Tables /\ pub[p] \in Memory /\ Recorded(pub[p])
      /\ g \in Ids /\ g \in 1 .. Len(objects) /\ objects[g].parent = pub[p].parent
      /\ releaseRef[g] = pub[p].rel /\ pub[p].rel # None
  BY <1>1, HasSeqKnown
<1>3. g \in Rows /\ row[g].state # "validated" /\ ReadModels \subseteq readModel[g]
  BY <1>1, <1>2 DEF Recorded, ReadModels
<1>4. row[g].rel = pub[p].rel
  BY <1>2, <1>3 DEF RecordInvariant, RowsRecorded
<1>5. g \notin ActivatedGens
  <2> SUFFICES ASSUME g \in ActivatedGens PROVE FALSE
    OBVIOUS
  <2>1. pointer # None /\ objects[g].parent = pointer
    BY <1>2 DEF Tables, ArtifactsKnown, ParentIsCurrent
  <2>2. row[pointer].state = "superseded"
    BY <2>1 DEF HistoryInvariant, LinearHistory
  <2>3. row[pointer].state = "published"
    BY <1>2, <2>1 DEF Tables, SinglePublished, TypeOK, Opt
  <2> QED BY <2>2, <2>3
<1>6. row[g].state = "read_models_ready"
  <2>1. row[g].state \in GenState /\ row[g].state # "absent"
    BY <1>2, <1>3 DEF TypeOK, Rows
  <2>2. row[g].state \notin Activated
    BY <1>2, <1>5 DEF ActivatedGens
  <2> QED BY <1>3, <2>1, <2>2 DEF GenState, Activated
<1> QED BY <1>2, <1>3, <1>4, <1>6 DEF Activatable

\* An activation loses its compare-and-swap, or adds to the records.
LEMMA ActivateRecords ==
  ASSUME HistoryInvariant, RecordInvariant, NEW p \in Publishers, Activate(p)
  PROVE  RecordStep(p) /\ (UNCHANGED control \/ Activates(p))
<1>0. TypeOK /\ PublisherKnows /\ Tables /\ pub[p] \in Memory
      /\ pub[p].outcome # "activation_error" /\ pub[p].pc = "activate"
  BY DEF HistoryInvariant, Tables, RecordInvariant, Recorded, TypeOK, Activate, At
<1>1. CASE ~ParentIsCurrent(p)
  <2>1. RaiseCASConflict(p) /\ UNCHANGED <<git, control, derived, store, jobs>>
    BY <1>1 DEF Activate
  <2>2. GoodStep(p)
    <3>1. StoresTyped' /\ Grows /\ jobs' \in 0 .. MaxJobs
      BY <1>0, <2>1, StoresUnchanged DEF TypeOK
    <3> QED BY <1>0, <2>1, <3>1, RetryTyped DEF GoodStep
  <2>3. pub'[p].pc \in {"idle", "prepare"} /\ pub'[p].outcome # "activation_error"
    BY <1>0, <2>1, RaiseFields
  <2>4. {"idle", "prepare"} \cap HasRelease = {}
    BY DEF HasRelease, HasGen, HasPrev, HasParent
  <2>5. UNCHANGED <<releaseRef, row, readModel>>
    BY <2>1 DEF git, control
  <2> QED BY <1>0, <2>1, <2>2, <2>3, <2>4, <2>5, QuietRecordStep
<1>2. CASE ParentIsCurrent(p)
  <2>1. Activatable(p)
    BY <1>0, <1>2, SwapImpliesActivatable
  <2>2. Activates(p)
    BY <1>2, <2>1 DEF Activate, Activates
  <2>3. /\ row' \in [Ids -> [state : GenState, rel : Opt, seq : Nat]]
        /\ \A h \in Ids : row'[h].rel = row[h].rel /\ row'[h].seq = row[h].seq
        /\ row'[pub[p].gen].state = "published"
        /\ \A h \in Ids : h = pointer => row'[h].state = "superseded"
        /\ \A h \in Ids : h \notin {pointer, pub[p].gen} => row'[h] = row[h]
    BY <1>0, <2>2, ActivatesRows
  <2>4. UNCHANGED <<objects, releaseRef, readModel>>
    BY <2>2 DEF Activates, git
  <2>5. RecordsGrow
    <3>1. Len(objects) <= Len(objects')
      BY <1>0, <2>4, TypedLengths
    <3> QED BY <2>3, <2>4, <3>1 DEF RecordsGrow, Unready
  <2>6. row[pub[p].gen].state = "read_models_ready"
        /\ (pointer \in Ids => row[pointer].state = "published")
    BY <1>0, <2>1 DEF Activatable, Tables, SinglePublished
  <2>7. \A h \in Ids : row[h].state = "absent" => row'[h].state = "absent"
    BY <2>3, <2>6
  <2>8. pub'[p].pc = "members" /\ pub'[p].outcome = pub[p].outcome
    BY <1>0, <2>2, PostPublishFields DEF Activates
  <2>9. Recorded(pub[p])'
    BY <1>0, <2>8 DEF Recorded, HasSeq, HasRelease, HasGen, HasPrev, HasParent
  <2>10. \A q \in Publishers \ {p} : pub'[q] = pub[q]
    BY <1>0, <2>2 DEF Activates, BeginPostPublish, TypeOK
  <2> QED BY <2>2, <2>5, <2>7, <2>9, <2>10 DEF RecordStep
<1> QED BY <1>1, <1>2

-----------------------------------------------------------------------------
(* The outbox, and the invariant of the records.                           *)

\* The outbox holds every activation, the newest last.
LEMMA OutboxKept ==
  ASSUME TypeOK, TypeOK', OutboxComplete, NEW p \in Publishers,
         (Grows /\ outbox' = outbox) \/ (PublisherKnows /\ Tables /\ Activates(p))
  PROVE  OutboxComplete'
<1>1. CASE Grows /\ outbox' = outbox
  <2>1. ActivatedGens' = ActivatedGens /\ pointer' = pointer
    BY <1>1, GrowsActivated DEF Grows
  <2> QED BY <1>1, <2>1 DEF OutboxComplete
<1>2. CASE PublisherKnows /\ Tables /\ Activates(p)
  <2> DEFINE g == pub[p].gen
  <2>1. g \in Ids /\ ActivatedGens' = ActivatedGens \cup {g}
    BY <1>2, ActivatesKnows, ActivatesRows
  <2>2. outbox' = Append(outbox, g) /\ pointer' = g /\ outbox \in Seq(Ids)
    BY <1>2 DEF Activates, TypeOK
  <2> HIDE DEF g
  <2>3. /\ Len(outbox') = Len(outbox) + 1 /\ Len(outbox) \in Nat
        /\ outbox'[Len(outbox) + 1] = g
        /\ \A i \in 1 .. Len(outbox) : outbox'[i] = outbox[i]
    BY <2>1, <2>2
  <2>4. pointer' = outbox'[Len(outbox')] /\ outbox' # << >>
    BY <2>2, <2>3
  <2>5. {outbox'[i] : i \in 1 .. Len(outbox')} = {outbox[i] : i \in 1 .. Len(outbox)} \cup {g}
    BY <2>3
  <2> QED BY <2>1, <2>4, <2>5 DEF OutboxComplete
<1> QED BY <1>1, <1>2

\* No record exists initially.
LEMMA RecordInit == Init => RecordInvariant
<1> SUFFICES ASSUME Init PROVE RecordInvariant
  OBVIOUS
<1>1. Rows = {} /\ ActivatedGens = {}
  BY DEF Init, Rows, ActivatedGens, Activated
<1>2. OutboxComplete
  BY <1>1 DEF Init, OutboxComplete
<1>3. \A p \in Publishers : pub[p].pc = "idle" /\ pub[p].outcome = "none"
  BY DEF Init, Idle
<1>4. \A p \in Publishers : Recorded(pub[p])
  BY <1>3 DEF Recorded, HasSeq, HasRelease, HasGen, HasPrev, HasParent
<1> QED BY <1>1, <1>2, <1>4 DEF RecordInvariant, RowsRecorded

\* Every step of a publisher adds to the records.
LEMMA RecordSteps ==
  ASSUME HistoryInvariant, RecordInvariant, NEW p \in Publishers,
         Start(p) \/ Step(p) \/ Crash(p)
  PROVE  RecordStep(p) /\ (outbox' = outbox \/ Activates(p))
<1>1. CASE \/ Start(p) \/ ReplayCheck(p) \/ Prepare(p) \/ ReadRelease(p)
           \/ BuildCandidate(p) \/ AnchorCandidate(p) \/ Crash(p)
  <2>1. outbox' = outbox
    BY <1>1 DEF Start, ReplayCheck, Prepare, ReadRelease, BuildCandidate, AnchorCandidate,
                Crash, control
  <2> QED BY <1>1, <2>1, EarlyRecordStep
<1>2. CASE BuildRelease(p)
  BY <1>2, BuildReleaseRecords DEF BuildRelease, control
<1>3. CASE AnchorRelease(p)
  BY <1>3, AnchorReleaseRecords DEF AnchorRelease, control
<1>4. CASE ReadSeq(p)
  BY <1>4, ReadSeqRecords DEF ReadSeq, control
<1>5. CASE RegisterGeneration(p)
  BY <1>5, RegisterRecords DEF RegisterGeneration
<1>6. CASE \/ MarkReadModel(p, "wiki_files", "mark_wiki", "mark_citation")
           \/ MarkReadModel(p, "citation_index", "mark_citation", "set_ready")
  BY <1>6, MarkReadModelRecords DEF MarkReadModel
<1>7. CASE SetReadModelsReady(p)
  BY <1>7, SetReadyRecords DEF SetReadModelsReady
<1>8. CASE ReadCurrent(p) \/ ReadState(p)
  BY <1>8, ReadBeforeActivateRecords DEF ReadCurrent, ReadState, control
<1>9. CASE Activate(p)
  BY <1>9, ActivateRecords DEF control
<1>10. CASE \/ AddGenerationAssertions(p) \/ RecordResolution(p) \/ BuildSearchIndex(p)
            \/ SetSearchPointer(p)
  <2>1. outbox' = outbox
    BY <1>10 DEF AddGenerationAssertions, RecordResolution, BuildSearchIndex,
                 SetSearchPointer, control
  <2> QED BY <1>10, <2>1, PostPublishRecordStep
<1> QED BY <1>1, <1>2, <1>3, <1>4, <1>5, <1>6, <1>7, <1>8, <1>9, <1>10 DEF Step

\* Every step keeps the invariant of the records.
LEMMA RecordNext ==
  HistoryInvariant /\ RecordInvariant /\ [Next]_vars => RecordInvariant'
<1> SUFFICES ASSUME HistoryInvariant, RecordInvariant, [Next]_vars PROVE RecordInvariant'
  OBVIOUS
<1>1. HistoryInvariant'
  BY HistoryNext
<1>2. TypeOK /\ TypeOK' /\ PublisherKnows /\ Tables
  BY <1>1 DEF HistoryInvariant, Tables
<1>3. RowsRecorded /\ OutboxComplete /\ \A q \in Publishers : Recorded(pub[q])
  BY DEF RecordInvariant
<1>4. ASSUME NEW p \in Publishers, Start(p) \/ Step(p) \/ Crash(p)
      PROVE  RecordInvariant'
  <2>1. RecordStep(p) /\ (outbox' = outbox \/ Activates(p))
    BY <1>4, RecordSteps
  <2>2. Grows \/ Activates(p)
    BY <1>2, <1>4, PublisherSteps DEF GoodStep
  <2>3. OutboxComplete'
    BY <1>2, <1>3, <2>1, <2>2, OutboxKept
  <2>4. RowsRecorded' /\ (\A q \in Publishers : Recorded(pub[q]))'
    BY <1>1, <1>3, <2>1, RecordStepKeeps
  <2> QED BY <2>3, <2>4 DEF RecordInvariant
<1>5. CASE UNCHANGED vars
  <2>1. /\ objects' = objects /\ releaseRef' = releaseRef /\ row' = row /\ pub' = pub
        /\ readModel' = readModel /\ pointer' = pointer /\ outbox' = outbox
    BY <1>5 DEF vars, git, control
  <2> QED BY <1>3, <2>1 DEF RecordInvariant, RowsRecorded, OutboxComplete, Recorded, Rows,
                            ActivatedGens
<1> QED BY <1>4, <1>5 DEF Next, Terminating

\* The history and the records hold in every reachable state.
THEOREM RecordInvariantHolds == Spec => [](HistoryInvariant /\ RecordInvariant)
<1>1. Init => HistoryInvariant /\ RecordInvariant
  BY HistoryInit, RecordInit
<1>2. HistoryInvariant /\ RecordInvariant /\ [Next]_vars => (HistoryInvariant /\ RecordInvariant)'
  BY HistoryNext, RecordNext
<1> QED BY <1>1, <1>2, PTL DEF Spec

\* What activate records about the lineage agrees with it, for any number of
\* concurrent publishers: every activation is in the outbox and in order, seq
\* grows from parent to child, and a publisher whose compare-and-swap holds
\* fails no other check of the activation transaction.
THEOREM ActivationsAreRecorded == Spec => []LineageIsRecorded
<1>1. HistoryInvariant /\ RecordInvariant => LineageIsRecorded
  <2> SUFFICES ASSUME HistoryInvariant, RecordInvariant PROVE LineageIsRecorded
    OBVIOUS
  <2>1. ActivatedGens \subseteq Rows
    BY DEF ActivatedGens, Rows, Activated
  <2>2. SeqGrowsAlongLineage
    BY <2>1 DEF RecordInvariant, RowsRecorded, SeqGrowsAlongLineage
  <2>3. OutboxComplete /\ ActivationChecksHold
    BY DEF RecordInvariant, Recorded, ActivationChecksHold
  <2> QED BY <2>2, <2>3 DEF LineageIsRecorded
<1> QED BY <1>1, RecordInvariantHolds, PTL

-----------------------------------------------------------------------------
(* The materialisation of the activated generations.                       *)

\* What any step does to the snapshots and to the search data: they grow, and
\* a resolution is rewritten only to what the snapshot says of its claim.
StoresGrow ==
  /\ Len(objects) <= Len(objects')
  /\ \A g \in 1 .. Len(objects) : objects'[g] = objects[g]
  /\ store \subseteq store'
  /\ ActivatedGens \subseteq ActivatedGens'
  /\ \A g \in Ids : members[g] \subseteq members'[g] /\ index[g] \subseteq index'[g]
  /\ \A g \in Ids, c \in Claims : resolution'[g][c] # resolution[g][c] =>
       resolution'[g][c] = IF c \in ClaimsOf(objects[g].content) THEN "accepted"
                           ELSE "retracted"

MaterialStep(p) ==
  /\ StoresGrow
  /\ SnapshotsComplete' /\ DerivedFromSnapshot'
  /\ \A q \in Publishers \ {p} : pub'[q] = pub[q]
  /\ Materialising(pub[p])'

\* The claims of a snapshot are claims.
LEMMA SnapshotClaims ==
  ASSUME TypeOK, NEW g \in 1 .. Len(objects)
  PROVE  ClaimsOf(objects[g].content) \subseteq Claims /\ g \in Ids
<1>1. objects[g] \in Descriptor /\ Len(objects) \in Nat /\ Len(objects) <= MaxObjects
  BY TypedLengths DEF TypeOK
<1> QED BY <1>1 DEF Descriptor, ClaimsOf, Assertion, Ids

\* A generation that a call works on, or returned, has an object.
LEMMA WorkingGeneration ==
  ASSUME TypeOK, ArtifactsKnown, NEW m, Knows(m), Materialising(m),
         m.pc \in HasGen \cup PostPublish \/ m.outcome \in {"ok", "replayed"}
  PROVE  m.gen \in 1 .. Len(objects)
<1>1. m.gen \in 1 .. Len(objects) \/ m.gen \in ActivatedGens
  BY DEF Knows, Materialising
<1> QED BY <1>1 DEF ArtifactsKnown

\* The revokes of a request are claims.
LEMMA RevokesAreClaims ==
  ASSUME TypeOK, NEW p \in Publishers
  PROVE  pub[p].job \in Job /\ pub[p].job.revokes \subseteq Claims
<1>1. pub[p].job \in Job
  BY DEF TypeOK, Memory
<1> QED BY <1>1 DEF Job

\* The resolutions that a call has recorded or still has to record survive a
\* step of another publisher.
LEMMA GrowsResolving ==
  ASSUME TypeOK, StoresGrow, NEW p \in Publishers, pub'[p] = pub[p],
         pub[p].gen \in 1 .. Len(objects), Answers(pub[p]), Resolving(pub[p])
  PROVE  Answers(pub[p])' /\ Resolving(pub[p])'
<1> DEFINE g == pub[p].gen
           C == ClaimsOf(objects[g].content)
           R == pub[p].job.revokes
<1>1. /\ objects'[g] = objects[g] /\ g \in Ids /\ C \subseteq Claims /\ R \subseteq Claims
      /\ R \cap C = {}
  BY SnapshotClaims, RevokesAreClaims DEF StoresGrow, Answers
<1>2. ClaimsOf(objects'[g].content) = C
  BY <1>1
<1>3. \A c \in Claims : resolution'[g][c] # resolution[g][c] =>
        resolution'[g][c] = IF c \in C THEN "accepted" ELSE "retracted"
  BY <1>1 DEF StoresGrow
<1>4. Answers(pub[p])'
  BY <1>1, <1>2 DEF Answers
<1>5. /\ \A c \in C : <<c, "accepted">> \in pub[p].todo \/ resolution[g][c] = "accepted"
      /\ \A c \in R : <<c, "retracted">> \in pub[p].todo \/ resolution[g][c] = "retracted"
      /\ \A t \in pub[p].todo : IF t[2] = "accepted" THEN t[1] \in C ELSE t[1] \in R
  BY DEF Resolving
<1> HIDE DEF C, R, g
<1>6. /\ \A c \in C : <<c, "accepted">> \in pub[p].todo \/ resolution'[g][c] = "accepted"
      /\ \A c \in R : <<c, "retracted">> \in pub[p].todo \/ resolution'[g][c] = "retracted"
  BY <1>1, <1>3, <1>5
<1>7. Resolving(pub[p])'
  BY <1>2, <1>5, <1>6 DEF Resolving, g, R
<1> QED BY <1>4, <1>7

\* What a call has materialised is not undone by another publisher.
LEMMA GrowsMaterialising ==
  ASSUME TypeOK, ArtifactsKnown, StoresGrow, NEW p \in Publishers, pub'[p] = pub[p],
         Knows(pub[p]), Materialising(pub[p])
  PROVE  Materialising(pub[p])'
<1> DEFINE m == pub[p]
           working == m.pc \in HasGen \cup PostPublish \/ m.outcome \in {"ok", "replayed"}
<1>1. working => m.gen \in 1 .. Len(objects)
  BY WorkingGeneration
<1>2. working => objects'[m.gen] = objects[m.gen] /\ m.gen \in Ids
  BY <1>1, SnapshotClaims DEF StoresGrow
<1>3. m.pc \in HasGen \cup PostPublish => Answers(m)'
  <2>1. m.pc \in HasGen \cup PostPublish => Answers(m)
    BY DEF Materialising
  <2> QED BY <1>2, <2>1 DEF Answers
<1>4. m.pc \in PostPublish \/ m.outcome \in {"ok", "replayed"} => Answers(m)' /\ Resolving(m)'
  BY <1>1, GrowsResolving DEF Materialising
<1>5. NewAssertions(m.job)' = NewAssertions(m.job)
  BY DEF NewAssertions
<1>6. {"resolve", "index", "search_pointer"} \subseteq PostPublish
  BY DEF PostPublish
<1>7. working => /\ members[m.gen] \subseteq members'[m.gen] /\ index[m.gen] \subseteq index'[m.gen]
                 /\ objects'[m.gen].content = objects[m.gen].content
  BY <1>2 DEF StoresGrow
<1>8. store \subseteq store' /\ ActivatedGens \subseteq ActivatedGens'
  BY DEF StoresGrow
<1> QED BY <1>3, <1>4, <1>5, <1>6, <1>7, <1>8 DEF Materialising

\* A materialisation step keeps the whole invariant.
LEMMA MaterialStepKeeps ==
  ASSUME HistoryInvariant, MaterialInvariant, NEW p \in Publishers, MaterialStep(p)
  PROVE  MaterialInvariant'
<1>1. TypeOK /\ ArtifactsKnown /\ PublisherKnows
  BY DEF HistoryInvariant
<1>2. ASSUME NEW q \in Publishers PROVE Materialising(pub[q])'
  <2>1. CASE q = p
    BY <2>1 DEF MaterialStep
  <2>2. CASE q # p
    BY <1>1, <2>2, GrowsMaterialising DEF MaterialStep, MaterialInvariant, PublisherKnows
  <2> QED BY <2>1, <2>2
<1> QED BY <1>2 DEF MaterialStep, MaterialInvariant

\* A step that leaves snapshots, store and search data alone, and activates at
\* most, keeps what they say.
LEMMA QuietMaterialStep ==
  ASSUME TypeOK, ArtifactsKnown, MaterialInvariant, NEW p \in Publishers,
         UNCHANGED <<objects, store, search, members, resolution, index>>,
         ActivatedGens \subseteq ActivatedGens',
         \A q \in Publishers \ {p} : pub'[q] = pub[q],
         Materialising(pub[p])'
  PROVE  MaterialStep(p)
<1>1. StoresGrow
  <2>1. Len(objects) <= Len(objects')
    BY TypedLengths
  <2> QED BY <2>1 DEF StoresGrow
<1>2. SnapshotsComplete'
  <2>1. SnapshotsComplete
    BY DEF MaterialInvariant
  <2> QED BY <2>1 DEF SnapshotsComplete, Content
<1>3. DerivedFromSnapshot'
  <2>1. DerivedFromSnapshot
    BY DEF MaterialInvariant
  <2> QED BY <2>1 DEF DerivedFromSnapshot
<1> QED BY <1>1, <1>2, <1>3 DEF MaterialStep

\* A call that has ended without success, or starts over, owes nothing.
LEMMA UnstartedMaterial ==
  ASSUME NEW p \in Publishers, pub'[p].pc \in {"idle", "prepare", "replay_check"},
         pub'[p].outcome \notin {"ok", "replayed"},
         pub'[p].pc # "idle" => pub'[p].outcome = "none",
         pub'[p].pc = "replay_check" => pub'[p].job.kind = "changeset"
  PROVE  Materialising(pub[p])'
<1>1. {"idle", "prepare", "replay_check"} \cap (HasParent \cup HasGen \cup PostPublish) = {}
  BY DEF HasParent, HasGen, HasPrev, PostPublish
<1>2. {"resolve", "index", "search_pointer"} \subseteq PostPublish
  BY DEF PostPublish
<1> QED BY <1>1, <1>2 DEF Materialising

\* A call that goes on to another stage of its publication keeps its answer.
LEMMA StageMaterial ==
  ASSUME NEW p \in Publishers, Materialising(pub[p]), UNCHANGED <<objects, store>>,
         pub[p].pc \in HasParent, pub'[p].pc \in HasParent,
         pub'[p].pc \in HasGen => pub[p].pc \in HasGen,
         pub'[p].job = pub[p].job, pub'[p].gen = pub[p].gen,
         pub'[p].outcome = pub[p].outcome
  PROVE  Materialising(pub[p])'
<1>1. HasParent \cap (PostPublish \cup {"idle", "replay_check"}) = {}
  BY DEF HasParent, PostPublish
<1>2. {"resolve", "index", "search_pointer"} \subseteq PostPublish
  BY DEF PostPublish
<1>3. NewAssertions(pub[p].job)' = NewAssertions(pub[p].job)
  BY DEF NewAssertions
<1>4. pub'[p].outcome = "none" /\ NewAssertions(pub[p].job) \subseteq store
  BY <1>1 DEF Materialising
<1>5. pub'[p].pc \in HasGen => Answers(pub[p])'
  BY DEF Materialising, Answers
<1> QED BY <1>1, <1>2, <1>3, <1>4, <1>5 DEF Materialising

\* A call that enters _post_publish with the answer to its request has all its
\* resolutions still to record.
LEMMA EnterMaterial ==
  ASSUME TypeOK, NEW p \in Publishers, NEW g \in 1 .. Len(objects),
         BeginPostPublish(p, g, pub[p].job.revokes), UNCHANGED objects,
         objects[g].label = pub[p].job.label,
         pub[p].job.revokes \cap ClaimsOf(objects[g].content) = {},
         pub[p].outcome = "none"
  PROVE  Materialising(pub[p])'
<1> DEFINE C == ClaimsOf(objects[g].content)
           R == pub[p].job.revokes
<1>1. Content(g) = objects[g].content
  BY TypedLengths DEF Content, None
<1>2. /\ pub'[p].pc = "members" /\ pub'[p].gen = g /\ pub'[p].job = pub[p].job
      /\ pub'[p].todo = (C \X {"accepted"}) \cup (R \X {"retracted"})
      /\ pub'[p].outcome = "none"
  BY <1>1, PostPublishFields
<1>3. Answers(pub[p])'
  BY <1>2 DEF Answers
<1> HIDE DEF C, R
<1>4. /\ \A c \in C : <<c, "accepted">> \in pub'[p].todo
      /\ \A c \in R : <<c, "retracted">> \in pub'[p].todo
      /\ \A t \in pub'[p].todo : IF t[2] = "accepted" THEN t[1] \in C ELSE t[1] \in R
  BY <1>2
<1>5. Resolving(pub[p])'
  BY <1>2, <1>4 DEF Resolving, C, R
<1>6. "members" \in PostPublish /\ "members" \notin HasParent
  BY DEF PostPublish, HasParent
<1> QED BY <1>2, <1>3, <1>5, <1>6 DEF Materialising

\* What the proofs of the steps start from.
LEMMA MaterialFacts ==
  ASSUME HistoryInvariant, RecordInvariant, MaterialInvariant, NEW p \in Publishers
  PROVE  /\ TypeOK /\ PublisherKnows /\ Tables /\ ArtifactsKnown /\ Knows(pub[p])
         /\ pub[p] \in Memory /\ Materialising(pub[p])
         /\ SnapshotsComplete /\ DerivedFromSnapshot
         /\ pub[p].outcome # "activation_error"
BY DEF HistoryInvariant, Tables, RecordInvariant, Recorded, MaterialInvariant, TypeOK,
       PublisherKnows

\* Steps that only move a publisher between the stages before its activation.
LEMMA StageMaterialStep ==
  ASSUME HistoryInvariant, RecordInvariant, MaterialInvariant, NEW p \in Publishers,
         GoodStep(p), UNCHANGED <<objects, store, derived>>,
         \/ /\ pub[p].pc \in HasParent /\ pub'[p].pc \in HasParent
            /\ pub'[p].pc \in HasGen => pub[p].pc \in HasGen
            /\ pub'[p].job = pub[p].job /\ pub'[p].gen = pub[p].gen
            /\ pub'[p].outcome = pub[p].outcome
         \/ /\ pub'[p].pc \in {"idle", "prepare", "replay_check"}
            /\ pub'[p].outcome \notin {"ok", "replayed"}
            /\ pub'[p].pc # "idle" => pub'[p].outcome = "none"
            /\ pub'[p].pc = "replay_check" => pub'[p].job.kind = "changeset"
         \/ Materialising(pub[p])'
  PROVE  MaterialStep(p)
<1>1. TypeOK /\ ArtifactsKnown /\ Materialising(pub[p]) /\ PublisherKnows /\ Tables
  BY MaterialFacts
<1>2. Materialising(pub[p])'
  BY <1>1, StageMaterial, UnstartedMaterial
<1>3. \A q \in Publishers \ {p} : pub'[q] = pub[q]
  BY <1>1 DEF GoodStep, TypeOK
<1>4. ActivatedGens \subseteq ActivatedGens'
  BY <1>1, GoodStepKeeps, GrowsActivated DEF GoodStep
<1>5. UNCHANGED <<objects, store, search, members, resolution, index>>
  BY DEF derived
<1> QED BY <1>1, <1>2, <1>3, <1>4, <1>5, QuietMaterialStep

\* A request starts with nothing done, or crashes.
LEMMA StartMaterial ==
  ASSUME HistoryInvariant, RecordInvariant, MaterialInvariant, NEW p \in Publishers,
         Start(p) \/ Crash(p)
  PROVE  MaterialStep(p)
<1>0. TypeOK /\ PublisherKnows /\ Tables /\ pub[p] \in Memory
  BY MaterialFacts
<1>1. GoodStep(p) /\ UNCHANGED <<objects, store, derived>>
  BY <1>0, StartStep, CrashStep DEF Start, Crash, git
<1>2. CASE Start(p)
  <2>1. PICK job \in Requests : pub' = [pub EXCEPT ![p] = [Idle("none") EXCEPT
                     !.pc = IF job.kind = "changeset" THEN "replay_check" ELSE "prepare",
                     !.job = job]]
    BY <1>2 DEF Start
  <2>2. /\ pub'[p].pc = IF job.kind = "changeset" THEN "replay_check" ELSE "prepare"
        /\ pub'[p].job = job /\ pub'[p].outcome = "none"
    BY <1>0, <2>1 DEF TypeOK, Idle
  <2> QED BY <1>1, <2>2, StageMaterialStep
<1>3. CASE Crash(p)
  <2>1. pub'[p].pc = "idle" /\ pub'[p].outcome = "none"
    BY <1>0, <1>3, ReturnFields DEF Crash, Return, Outcome
  <2> QED BY <1>1, <2>1, StageMaterialStep
<1> QED BY <1>2, <1>3

\* A replayed changeset enters _post_publish of the generation it is bound to,
\* and has no revokes.
LEMMA ReplayCheckMaterial ==
  ASSUME HistoryInvariant, RecordInvariant, MaterialInvariant, NEW p \in Publishers,
         ReplayCheck(p)
  PROVE  MaterialStep(p)
<1>0. TypeOK /\ PublisherKnows /\ Tables /\ ArtifactsKnown /\ pub[p] \in Memory
      /\ Materialising(pub[p])
  BY MaterialFacts
<1>1. GoodStep(p) /\ UNCHANGED <<objects, store, derived>>
  BY <1>0, ReplayCheckStep DEF ReplayCheck, git
<1>2. pub[p].pc = "replay_check" /\ pub[p].outcome = "none" /\ pub[p].job.revokes = {}
  <2>1. pub[p].pc = "replay_check"
    BY DEF ReplayCheck, At
  <2>2. pub[p].outcome = "none" /\ pub[p].job.kind = "changeset" /\ pub[p].job \in Job
    BY <1>0, <2>1, RevokesAreClaims DEF Materialising
  <2> QED BY <2>1, <2>2 DEF Job
<1>3. CASE Goto(p, "prepare")
  <2>1. pub'[p].pc = "prepare" /\ pub'[p].outcome = "none"
    BY <1>0, <1>2, <1>3, GotoFields DEF PC
  <2> QED BY <1>1, <2>1, StageMaterialStep
<1>4. CASE /\ pointer # None /\ objects[pointer].label = pub[p].job.label
           /\ BeginPostPublish(p, pointer, {})
  <2>1. pointer \in 1 .. Len(objects)
    BY <1>0, <1>4, PointerKnown
  <2>2. Materialising(pub[p])'
    BY <1>0, <1>1, <1>2, <1>4, <2>1, EnterMaterial
  <2> QED BY <1>1, <2>2, StageMaterialStep
<1> QED BY <1>3, <1>4 DEF ReplayCheck

\* Preparing upserts the assertions of the request, before anything else.
LEMMA PrepareMaterial ==
  ASSUME HistoryInvariant, RecordInvariant, MaterialInvariant, NEW p \in Publishers,
         Prepare(p)
  PROVE  MaterialStep(p)
<1>0. TypeOK /\ PublisherKnows /\ Tables /\ ArtifactsKnown /\ pub[p] \in Memory
      /\ Materialising(pub[p]) /\ SnapshotsComplete /\ DerivedFromSnapshot
  BY MaterialFacts
<1>1. GoodStep(p) /\ UNCHANGED <<objects, derived>> /\ store \subseteq store'
  BY <1>0, PrepareStep DEF Prepare, git
<1>2. pub[p].pc = "prepare" /\ pub[p].outcome = "none"
  BY <1>0 DEF Prepare, At, Materialising
<1>3. Materialising(pub[p])'
  <2>1. CASE Return(p, "retry_later") \/ Return(p, "noop")
    <3>1. pub'[p].pc = "idle" /\ pub'[p].outcome \in {"retry_later", "noop"}
      BY <1>0, <2>1, ReturnFields DEF Outcome
    <3> QED BY <3>1, UnstartedMaterial
  <2>2. CASE /\ pub' = [pub EXCEPT ![p].pc = "read_release", ![p].parent = pointer,
                          ![p].attempts = pub[p].attempts + 1]
             /\ store' = store \cup NewAssertions(pub[p].job)
    <3>1. pub'[p] = [pub[p] EXCEPT !.pc = "read_release", !.parent = pointer,
                       !.attempts = pub[p].attempts + 1]
      BY <1>0, <2>2 DEF TypeOK
    <3>2. pub'[p].pc = "read_release" /\ pub'[p].outcome = "none" /\ pub'[p].job = pub[p].job
      BY <1>0, <1>2, <3>1 DEF Memory
    <3>3. NewAssertions(pub[p].job)' \subseteq store'
      BY <2>2, <3>2 DEF NewAssertions
    <3>4. "read_release" \notin HasGen \cup PostPublish
      BY DEF HasGen, HasPrev, PostPublish
    <3> QED BY <3>2, <3>3, <3>4 DEF Materialising
  <2> QED BY <2>1, <2>2 DEF Prepare
<1>4. ActivatedGens' = ActivatedGens /\ \A q \in Publishers \ {p} : pub'[q] = pub[q]
  BY <1>0, <1>1, GoodStepKeeps, GrowsActivated DEF GoodStep, TypeOK
<1>5. UNCHANGED <<objects, search, members, resolution, index>>
  BY <1>1 DEF derived
<1>6. StoresGrow
  <2>1. Len(objects) <= Len(objects')
    BY <1>0, <1>5, TypedLengths
  <2> QED BY <1>1, <1>4, <1>5, <2>1 DEF StoresGrow
<1>7. SnapshotsComplete'
  BY <1>0, <1>1, <1>5 DEF SnapshotsComplete, Content
<1>8. DerivedFromSnapshot'
  BY <1>0, <1>4, <1>5 DEF DerivedFromSnapshot
<1> QED BY <1>3, <1>4, <1>6, <1>7, <1>8 DEF MaterialStep

\* The stages before the activation and those that come back to it.
LEMMA StageSets ==
  /\ HasGen \subseteq HasParent
  /\ {"read_release", "candidate"} \subseteq HasParent
  /\ {"read_release", "candidate"} \cap HasGen = {}
  /\ {"anchor_candidate", "release", "anchor_release", "read_seq", "register", "mark_wiki",
      "mark_citation", "set_ready", "read_current", "read_state", "activate"} \subseteq HasGen
BY DEF HasParent, HasGen, HasPrev

\* A raised error ends the call, or starts it again.
LEMMA RaiseMaterial ==
  ASSUME TypeOK, NEW p \in Publishers, RaiseRefError(p) \/ RaiseCASConflict(p)
  PROVE  /\ pub'[p].pc \in {"idle", "prepare", "replay_check"}
         /\ pub'[p].outcome \notin {"ok", "replayed"}
         /\ pub'[p].pc # "idle" => pub'[p].outcome = "none"
         /\ pub'[p].pc = "replay_check" => pub'[p].job.kind = "changeset"
BY RaiseFields

\* Reading the previous release, the next seq, the pointer: nothing but the
\* memory of the publisher changes.
LEMMA ReadMaterial ==
  ASSUME HistoryInvariant, RecordInvariant, MaterialInvariant, NEW p \in Publishers,
         ReadRelease(p) \/ ReadSeq(p) \/ ReadCurrent(p)
  PROVE  MaterialStep(p)
<1>0. TypeOK /\ PublisherKnows /\ Tables /\ pub[p] \in Memory
  BY MaterialFacts
<1>1. GoodStep(p) /\ UNCHANGED <<objects, store, derived>>
  BY <1>0, ReadReleaseStep, ReadSeqStep, ReadCurrentStep DEF ReadRelease, ReadSeq,
     ReadCurrent, git
<1>2. CASE ReadRelease(p)
  <2>1. PICK prev : pub' = [pub EXCEPT ![p].pc = "candidate", ![p].prev = prev]
    BY <1>2 DEF ReadRelease
  <2>2. pub'[p] = [pub[p] EXCEPT !.pc = "candidate", !.prev = prev]
    BY <1>0, <2>1 DEF TypeOK
  <2>3. /\ pub[p].pc = "read_release" /\ pub'[p].pc = "candidate"
        /\ pub'[p].job = pub[p].job /\ pub'[p].gen = pub[p].gen
        /\ pub'[p].outcome = pub[p].outcome
    <3>1. pub[p].pc = "read_release"
      BY <1>2 DEF ReadRelease, At
    <3> QED BY <1>0, <2>2, <3>1 DEF Memory
  <2> QED BY <1>1, <2>3, StageSets, StageMaterialStep
<1>3. CASE ReadSeq(p)
  <2>1. PICK n : pub' = [pub EXCEPT ![p].pc = "register", ![p].seq = n]
    BY <1>3 DEF ReadSeq
  <2>2. pub'[p] = [pub[p] EXCEPT !.pc = "register", !.seq = n]
    BY <1>0, <2>1 DEF TypeOK
  <2>3. /\ pub[p].pc = "read_seq" /\ pub'[p].pc = "register"
        /\ pub'[p].job = pub[p].job /\ pub'[p].gen = pub[p].gen
        /\ pub'[p].outcome = pub[p].outcome
    BY <1>0, <1>3, <2>2 DEF Memory, ReadSeq, At
  <2> QED BY <1>1, <2>3, StageSets, StageMaterialStep
<1>4. CASE ReadCurrent(p)
  <2>1. Goto(p, "read_state") \/ Goto(p, "activate")
    BY <1>4 DEF ReadCurrent
  <2>2. /\ pub[p].pc = "read_current" /\ pub'[p].pc \in {"read_state", "activate"}
        /\ pub'[p].job = pub[p].job /\ pub'[p].gen = pub[p].gen
        /\ pub'[p].outcome = pub[p].outcome
    <3>1. pub[p].pc = "read_current" /\ {"read_state", "activate"} \subseteq PC
      BY <1>4 DEF ReadCurrent, At, PC
    <3>2. CASE Goto(p, "read_state")
      BY <1>0, <3>1, <3>2, GotoFields
    <3>3. CASE Goto(p, "activate")
      BY <1>0, <3>1, <3>3, GotoFields
    <3> QED BY <2>1, <3>2, <3>3
  <2> QED BY <1>1, <2>2, StageSets, StageMaterialStep
<1> QED BY <1>2, <1>3, <1>4

\* Anchoring, registering and marking keep the answer of the call.
LEMMA RegisterMaterial ==
  ASSUME HistoryInvariant, RecordInvariant, MaterialInvariant, NEW p \in Publishers,
         \/ RegisterGeneration(p) \/ SetReadModelsReady(p)
         \/ MarkReadModel(p, "wiki_files", "mark_wiki", "mark_citation")
         \/ MarkReadModel(p, "citation_index", "mark_citation", "set_ready")
  PROVE  MaterialStep(p)
<1>0. TypeOK /\ PublisherKnows /\ Tables /\ pub[p] \in Memory
  BY MaterialFacts
<1>1. GoodStep(p) /\ UNCHANGED <<objects, store, derived>>
  BY <1>0, RegisterStep, SetReadModelsReadyStep, MarkReadModelStep DEF RegisterGeneration,
     SetReadModelsReady, MarkReadModel, git
<1>2. PICK to \in {"mark_wiki", "mark_citation", "set_ready", "read_current"} : Goto(p, to)
  BY DEF RegisterGeneration, SetReadModelsReady, MarkReadModel
<1>3. pub[p].pc \in {"register", "mark_wiki", "mark_citation", "set_ready"}
  BY DEF RegisterGeneration, SetReadModelsReady, MarkReadModel, At
<1>4. to \in PC
  BY DEF PC
<1>5. /\ pub'[p].pc = to /\ pub'[p].job = pub[p].job /\ pub'[p].gen = pub[p].gen
      /\ pub'[p].outcome = pub[p].outcome
  BY <1>0, <1>2, <1>4, GotoFields
<1> QED BY <1>1, <1>3, <1>5, StageSets, StageMaterialStep

\* Anchoring a generation or its release, and building the release.
LEMMA AnchorMaterial ==
  ASSUME HistoryInvariant, RecordInvariant, MaterialInvariant, NEW p \in Publishers,
         AnchorCandidate(p) \/ BuildRelease(p) \/ AnchorRelease(p)
  PROVE  MaterialStep(p)
<1>0. TypeOK /\ PublisherKnows /\ Tables /\ pub[p] \in Memory
  BY MaterialFacts
<1>1. GoodStep(p) /\ UNCHANGED <<objects, store, derived>>
  BY <1>0, AnchorCandidateStep, BuildReleaseStep, AnchorReleaseStep DEF AnchorCandidate,
     BuildRelease, AnchorRelease
<1>2. pub[p].pc \in {"anchor_candidate", "release", "anchor_release"}
  BY DEF AnchorCandidate, BuildRelease, AnchorRelease, At
<1>3. CASE RaiseRefError(p)
  BY <1>0, <1>1, <1>3, RaiseMaterial, StageMaterialStep
<1>4. CASE Goto(p, "release") \/ Goto(p, "read_seq")
  <2>1. /\ pub'[p].pc \in {"release", "read_seq"} /\ pub'[p].job = pub[p].job
        /\ pub'[p].gen = pub[p].gen /\ pub'[p].outcome = pub[p].outcome
    BY <1>0, <1>4, GotoFields DEF PC
  <2> QED BY <1>1, <1>2, <2>1, StageSets, StageMaterialStep
<1>5. CASE \E oid : \E pc \in {"anchor_release", "read_seq"} :
             pub' = [pub EXCEPT ![p].rel = oid, ![p].pc = pc]
  <2>1. PICK oid, pc : pc \in {"anchor_release", "read_seq"} /\
          pub' = [pub EXCEPT ![p].rel = oid, ![p].pc = pc]
    BY <1>5
  <2>2. pub'[p] = [pub[p] EXCEPT !.rel = oid, !.pc = pc]
    BY <1>0, <2>1 DEF TypeOK
  <2>3. /\ pub'[p].pc \in {"anchor_release", "read_seq"} /\ pub'[p].job = pub[p].job
        /\ pub'[p].gen = pub[p].gen /\ pub'[p].outcome = pub[p].outcome
    <3>1. pub'[p].pc = pc /\ pc \in {"anchor_release", "read_seq"}
      BY <1>0, <2>1, <2>2 DEF Memory
    <3> QED BY <1>0, <2>2, <3>1 DEF Memory
  <2> QED BY <1>1, <1>2, <2>3, StageSets, StageMaterialStep
<1>6. CASE AnchorCandidate(p) \/ AnchorRelease(p)
  BY <1>3, <1>4, <1>6 DEF AnchorCandidate, AnchorRelease
<1>7. CASE BuildRelease(p)
  <2> DEFINE oid == IdOf(releases, [gen |-> pub[p].gen, prev |-> pub[p].prev])
             pc  == IF releaseRef[pub[p].gen] = None THEN "anchor_release" ELSE "read_seq"
  <2>1. RaiseRefError(p) \/ pub' = [pub EXCEPT ![p].rel = oid, ![p].pc = pc]
    BY <1>7 DEF BuildRelease
  <2>2. pc \in {"anchor_release", "read_seq"}
    OBVIOUS
  <2> HIDE DEF oid, pc
  <2> QED BY <1>3, <1>5, <2>1, <2>2
<1> QED BY <1>6, <1>7

\* Building a candidate stores a complete snapshot that answers the request.
LEMMA BuildCandidateMaterial ==
  ASSUME HistoryInvariant, RecordInvariant, MaterialInvariant, NEW p \in Publishers,
         BuildCandidate(p)
  PROVE  MaterialStep(p)
<1> DEFINE job == pub[p].job
           d == Candidate(p)
           g == IdOf(objects, d)
<1>0. TypeOK /\ PublisherKnows /\ Tables /\ ArtifactsKnown /\ pub[p] \in Memory
      /\ Materialising(pub[p]) /\ SnapshotsComplete /\ DerivedFromSnapshot /\ Knows(pub[p])
  BY MaterialFacts
<1>1. GoodStep(p) /\ UNCHANGED <<store, derived>>
  BY <1>0, BuildCandidateStep DEF BuildCandidate
<1>2. pub[p].pc = "candidate" /\ pub[p].pc \in HasParent /\ pub[p].outcome = "none"
  BY <1>0, StageSets DEF BuildCandidate, At, Materialising
<1>3. CASE RaiseRefError(p) /\ UNCHANGED objects
  BY <1>0, <1>1, <1>3, RaiseMaterial, StageMaterialStep
<1>4. CASE /\ objects' = Stored(objects, d)
           /\ pub' = [pub EXCEPT ![p].gen = g, ![p].pc = IF g \in genRefs THEN "release"
                                                         ELSE "anchor_candidate"]
  <2>1. /\ pub[p].parent \in ActivatedGens \cup {None}
        /\ pub[p].parent # None => pub[p].parent \in 1 .. Len(objects)
        /\ pub[p].parent \in Opt /\ pub[p].parent # 0 => Content(pub[p].parent) = objects[pub[p].parent].content
    BY <1>0, <1>2 DEF Knows, ArtifactsKnown, Memory, Content, None
  <2>2. Content(pub[p].parent) \subseteq store
    BY <1>0, <2>1 DEF SnapshotsComplete, Content, None
  <2>3. NewAssertions(job) \subseteq store /\ job \in Job
    BY <1>0, <1>2, RevokesAreClaims DEF Materialising
  <2>4. d.content \subseteq store /\ job.revokes \cap ClaimsOf(d.content) = {}
    BY <2>2, <2>3 DEF Surviving, ClaimsOf, Candidate
  <2>5. job.label # Admin =>
          /\ Content(pub[p].parent) \subseteq d.content
          /\ Asserts[job.label] \X {job.label} \subseteq d.content
    <3>1. job.label # Admin => job.kind # "revoke" /\ job.revokes = {}
      BY <2>3 DEF Job
    <3>2. job.label # Admin => NewAssertions(job) = Asserts[job.label] \X {job.label}
      BY <3>1 DEF NewAssertions
    <3> QED BY <3>1, <3>2 DEF Surviving, Candidate
  <2>6. d \in Descriptor
    BY <1>0, <1>2, CandidateTyped
  <2>7. d.parent = pub[p].parent /\ d.label = job.label
    BY DEF Candidate
  <2> HIDE DEF d
  <2>8. /\ Len(objects) <= Len(objects')
        /\ \A i \in 1 .. Len(objects) : objects'[i] = objects[i]
        /\ \A i \in 1 .. Len(objects') : i \notin 1 .. Len(objects) => i = g
        /\ g \in 1 .. Len(objects') /\ objects'[g] = d
    <3>1. objects \in Seq(Descriptor) /\ objects' = Stored(objects, d)
      BY <1>0, <1>4 DEF TypeOK
    <3> QED BY <2>6, <3>1, CandidateStored
  <2>9. pub'[p] = [pub[p] EXCEPT !.gen = g, !.pc = IF g \in genRefs THEN "release"
                                                   ELSE "anchor_candidate"]
    BY <1>0, <1>4 DEF TypeOK
  <2> HIDE DEF g
  <2>10. /\ pub'[p].pc \in {"release", "anchor_candidate"} /\ pub'[p].gen = g
         /\ pub'[p].job = job /\ pub'[p].outcome = "none"
    BY <1>0, <1>2, <2>9 DEF Memory
  <2>11. ActivatedGens' = ActivatedGens /\ \A q \in Publishers \ {p} : pub'[q] = pub[q]
    BY <1>0, <1>1, GoodStepKeeps, GrowsActivated DEF GoodStep, TypeOK
  <2>12. UNCHANGED <<store, search, members, resolution, index>>
    BY <1>1 DEF derived
  <2>13. StoresGrow
    BY <2>8, <2>11, <2>12 DEF StoresGrow
  <2>14. Answers(pub[p])'
    BY <2>4, <2>7, <2>8, <2>10 DEF Answers
  <2>15. Materialising(pub[p])'
    <3>1. {"release", "anchor_candidate"} \cap PostPublish = {}
      BY DEF PostPublish
    <3>2. NewAssertions(pub[p].job)' \subseteq store'
      BY <2>3, <2>10, <2>12 DEF NewAssertions
    <3> QED BY <2>10, <2>14, <3>1, <3>2 DEF Materialising
  <2>16. SnapshotsComplete'
    <3> DEFINE After(h) == IF h = None THEN {} ELSE objects'[h].content
    <3>1. \A h : h = None \/ h \in 1 .. Len(objects) => After(h) = Content(h)
      BY <2>8 DEF Content
    <3> HIDE DEF After
    <3>2. ASSUME NEW i \in 1 .. Len(objects')
          PROVE  /\ objects'[i].content \subseteq store
                 /\ objects'[i].label # Admin =>
                      /\ After(objects'[i].parent) \subseteq objects'[i].content
                      /\ Asserts[objects'[i].label] \X {objects'[i].label}
                           \subseteq objects'[i].content
      <4>1. CASE i \in 1 .. Len(objects)
        <5>1. objects'[i] = objects[i]
          BY <2>8, <4>1
        <5>2. objects[i].parent = None \/ objects[i].parent \in 1 .. Len(objects)
          BY <1>0, <4>1 DEF ArtifactsKnown
        <5>3. After(objects'[i].parent) = Content(objects[i].parent)
          BY <3>1, <5>1, <5>2
        <5> QED BY <1>0, <4>1, <5>1, <5>3 DEF SnapshotsComplete
      <4>2. CASE i \notin 1 .. Len(objects)
        <5>1. objects'[i] = d
          BY <2>8, <4>2
        <5>2. pub[p].parent = None \/ pub[p].parent \in 1 .. Len(objects)
          BY <2>1
        <5>3. After(objects'[i].parent) = Content(pub[p].parent)
          BY <2>7, <3>1, <5>1, <5>2
        <5> QED BY <2>4, <2>5, <2>7, <5>1, <5>3
      <4> QED BY <4>1, <4>2
    <3> QED BY <2>12, <3>2 DEF SnapshotsComplete, Content, After
  <2>17. DerivedFromSnapshot'
    <3>1. \A h \in ActivatedGens : objects'[h] = objects[h]
      BY <1>0, <2>8 DEF ArtifactsKnown
    <3> QED BY <1>0, <2>11, <2>12, <3>1 DEF DerivedFromSnapshot
  <2> QED BY <2>11, <2>13, <2>15, <2>16, <2>17 DEF MaterialStep
<1> QED BY <1>3, <1>4 DEF BuildCandidate, Candidate

\* A generation found published, or activated, has its resolutions to record.
LEMMA EnterPublished ==
  ASSUME HistoryInvariant, RecordInvariant, MaterialInvariant, NEW p \in Publishers,
         pub[p].pc \in HasGen, UNCHANGED objects,
         BeginPostPublish(p, pub[p].gen, pub[p].job.revokes)
  PROVE  Materialising(pub[p])'
<1>1. TypeOK /\ Knows(pub[p]) /\ Materialising(pub[p])
  BY MaterialFacts
<1>2. pub[p].gen \in 1 .. Len(objects) /\ Answers(pub[p]) /\ pub[p].outcome = "none"
  <2>1. pub[p].pc # "idle"
    BY DEF HasGen, HasPrev, HasParent
  <2> QED BY <1>1, <2>1 DEF Knows, Materialising
<1> QED BY <1>1, <1>2, EnterMaterial DEF Answers

\* Reading the state enters _post_publish, or goes on to the activation.
LEMMA ReadStateMaterial ==
  ASSUME HistoryInvariant, RecordInvariant, MaterialInvariant, NEW p \in Publishers,
         ReadState(p)
  PROVE  MaterialStep(p)
<1>0. TypeOK /\ PublisherKnows /\ Tables /\ pub[p] \in Memory
  BY MaterialFacts
<1>1. GoodStep(p) /\ UNCHANGED <<objects, store, derived>>
  BY <1>0, ReadStateStep DEF ReadState, git
<1>2. pub[p].pc = "read_state"
  BY DEF ReadState, At
<1>3. CASE Goto(p, "activate")
  <2>1. /\ pub'[p].pc = "activate" /\ pub'[p].job = pub[p].job
        /\ pub'[p].gen = pub[p].gen /\ pub'[p].outcome = pub[p].outcome
    BY <1>0, <1>3, GotoFields DEF PC
  <2> QED BY <1>1, <1>2, <2>1, StageSets, StageMaterialStep
<1>4. CASE BeginPostPublish(p, pub[p].gen, pub[p].job.revokes)
  BY <1>1, <1>2, <1>4, StageSets, EnterPublished, StageMaterialStep
<1> QED BY <1>3, <1>4 DEF ReadState

\* An activation enters _post_publish, or has lost its compare-and-swap.
LEMMA ActivateMaterial ==
  ASSUME HistoryInvariant, RecordInvariant, MaterialInvariant, NEW p \in Publishers,
         Activate(p)
  PROVE  MaterialStep(p)
<1>0. TypeOK /\ PublisherKnows /\ Tables /\ ArtifactsKnown /\ pub[p] \in Memory
      /\ pub[p].pc = "activate" /\ pub[p].pc \in HasGen
  BY MaterialFacts, StageSets DEF Activate, At
<1>1. UNCHANGED <<objects, store, derived>>
  BY DEF Activate, git
<1>2. CASE ~ParentIsCurrent(p)
  <2>1. RaiseCASConflict(p) /\ UNCHANGED <<git, control, derived, store, jobs>>
    BY <1>2 DEF Activate
  <2>2. GoodStep(p)
    <3>1. StoresTyped' /\ Grows /\ jobs' \in 0 .. MaxJobs
      BY <1>0, <2>1, StoresUnchanged DEF TypeOK
    <3> QED BY <1>0, <2>1, <3>1, RetryTyped DEF GoodStep
  <2> QED BY <1>0, <1>1, <2>1, <2>2, RaiseMaterial, StageMaterialStep
<1>3. CASE ParentIsCurrent(p)
  <2>1. Activates(p)
    BY <1>0, <1>3, SwapImpliesActivatable DEF Activate, Activates
  <2>2. BeginPostPublish(p, pub[p].gen, pub[p].job.revokes)
    BY <2>1 DEF Activates
  <2>3. Materialising(pub[p])'
    BY <1>0, <1>1, <2>2, EnterPublished
  <2>4. ActivatedGens \subseteq ActivatedGens'
    BY <1>0, <2>1, ActivatesRows
  <2>5. \A q \in Publishers \ {p} : pub'[q] = pub[q]
    BY <1>0, <2>2 DEF BeginPostPublish, TypeOK
  <2> QED BY <1>0, <1>1, <2>3, <2>4, <2>5, QuietMaterialStep DEF derived
<1> QED BY <1>2, <1>3

\* The memory of a publisher that works on a generation it has activated or
\* found published.
LEMMA WorkFacts ==
  ASSUME HistoryInvariant, RecordInvariant, MaterialInvariant, NEW p \in Publishers,
         pub[p].pc \in PostPublish
  PROVE  /\ pub[p].gen \in ActivatedGens /\ pub[p].gen \in 1 .. Len(objects)
         /\ pub[p].gen \in Ids /\ Content(pub[p].gen) = objects[pub[p].gen].content
         /\ ClaimsOf(objects[pub[p].gen].content) \subseteq Claims
         /\ Answers(pub[p]) /\ Resolving(pub[p]) /\ pub[p].outcome = "none"
         /\ pub[p].pc \notin HasParent
<1>1. TypeOK /\ ArtifactsKnown /\ Knows(pub[p]) /\ Materialising(pub[p])
  BY MaterialFacts
<1>2. pub[p].pc \notin HasParent /\ pub[p].pc # "idle"
  BY DEF PostPublish, HasParent
<1>3. pub[p].gen \in ActivatedGens /\ pub[p].gen \in 1 .. Len(objects)
  BY <1>1 DEF Knows, ArtifactsKnown
<1>4. Content(pub[p].gen) = objects[pub[p].gen].content
  BY <1>1, <1>3, TypedLengths DEF Content, None
<1> QED BY <1>1, <1>2, <1>3, <1>4, SnapshotClaims DEF Materialising

\* A step of _post_publish writes what the snapshot says.
LEMMA WorkStep ==
  ASSUME HistoryInvariant, RecordInvariant, MaterialInvariant, NEW p \in Publishers,
         pub[p].pc \in PostPublish, UNCHANGED <<git, control, store>>,
         \A q \in Publishers \ {p} : pub'[q] = pub[q],
         \A g \in Ids : /\ members[g] \subseteq members'[g] /\ index[g] \subseteq index'[g]
                        /\ g # pub[p].gen => members'[g] = members[g] /\ index'[g] = index[g],
         members'[pub[p].gen] \subseteq
           members[pub[p].gen] \cup objects[pub[p].gen].content,
         index'[pub[p].gen] \subseteq
           index[pub[p].gen] \cup ClaimsOf(objects[pub[p].gen].content),
         \A g \in Ids, c \in Claims : resolution'[g][c] # resolution[g][c] =>
           /\ g = pub[p].gen
           /\ resolution'[g][c] = IF c \in ClaimsOf(objects[g].content) THEN "accepted"
                                  ELSE "retracted",
         search' = search \/ search' = pub[p].gen,
         Materialising(pub[p])'
  PROVE  MaterialStep(p)
<1>1. /\ TypeOK /\ ArtifactsKnown /\ SnapshotsComplete /\ DerivedFromSnapshot
      /\ pub[p].gen \in ActivatedGens /\ pub[p].gen \in Ids
  BY MaterialFacts, WorkFacts
<1>2. objects' = objects /\ row' = row /\ store' = store
  BY DEF git, control
<1>3. ActivatedGens' = ActivatedGens
  BY <1>2 DEF ActivatedGens
<1>4. StoresGrow
  <2>1. Len(objects) <= Len(objects')
    BY <1>1, <1>2, TypedLengths
  <2> QED BY <1>2, <1>3, <2>1 DEF StoresGrow
<1>5. SnapshotsComplete'
  BY <1>1, <1>2 DEF SnapshotsComplete, Content
<1>6. ASSUME NEW g \in Ids
      PROVE  /\ members'[g] # {} =>
                  g \in ActivatedGens /\ members'[g] \subseteq objects[g].content
             /\ index'[g] # {} =>
                  g \in ActivatedGens /\ index'[g] \subseteq ClaimsOf(objects[g].content)
             /\ \A c \in Claims : resolution'[g][c] = "accepted" =>
                  g \in ActivatedGens /\ c \in ClaimsOf(objects[g].content)
  <2>1. /\ members[g] # {} => g \in ActivatedGens /\ members[g] \subseteq objects[g].content
        /\ index[g] # {} =>
             g \in ActivatedGens /\ index[g] \subseteq ClaimsOf(objects[g].content)
        /\ \A c \in Claims : resolution[g][c] = "accepted" =>
             g \in ActivatedGens /\ c \in ClaimsOf(objects[g].content)
    BY <1>1 DEF DerivedFromSnapshot
  <2>2. \A c \in Claims : resolution'[g][c] = "accepted" =>
          g \in ActivatedGens /\ c \in ClaimsOf(objects[g].content)
    BY <1>1, <2>1
  <2>3. members'[g] # {} => g \in ActivatedGens /\ members'[g] \subseteq objects[g].content
    BY <1>1, <2>1
  <2>4. index'[g] # {} =>
          g \in ActivatedGens /\ index'[g] \subseteq ClaimsOf(objects[g].content)
    BY <1>1, <2>1
  <2> QED BY <2>2, <2>3, <2>4
<1>7. DerivedFromSnapshot'
  <2>1. search' # None => search' \in ActivatedGens
    BY <1>1 DEF DerivedFromSnapshot
  <2> QED BY <1>2, <1>3, <1>6, <2>1 DEF DerivedFromSnapshot
<1> QED BY <1>4, <1>5, <1>7 DEF MaterialStep

\* Writing the members of a generation, and its search index.
LEMMA WriteMaterial ==
  ASSUME HistoryInvariant, RecordInvariant, MaterialInvariant, NEW p \in Publishers,
         AddGenerationAssertions(p) \/ BuildSearchIndex(p)
  PROVE  MaterialStep(p)
<1> DEFINE g == pub[p].gen
<1>0. TypeOK /\ pub[p] \in Memory /\ Materialising(pub[p]) /\ pub[p].pc \in PostPublish
  BY MaterialFacts DEF AddGenerationAssertions, BuildSearchIndex, At, PostPublish
<1>1. /\ g \in Ids /\ Content(g) = objects[g].content /\ Answers(pub[p]) /\ Resolving(pub[p])
      /\ pub[p].outcome = "none"
  BY <1>0, WorkFacts
<1>2. members \in [Ids -> SUBSET Assertion] /\ index \in [Ids -> SUBSET Claims]
  BY <1>0 DEF TypeOK
<1>3. /\ UNCHANGED <<git, control, store, search, resolution>> /\ objects' = objects
      /\ \A q \in Publishers \ {p} : pub'[q] = pub[q]
  BY <1>0 DEF AddGenerationAssertions, BuildSearchIndex, Goto, TypeOK, git
<1>4. /\ pub'[p].gen = g /\ pub'[p].job = pub[p].job /\ pub'[p].todo = pub[p].todo
      /\ pub'[p].outcome = "none"
      /\ IF pub[p].pc = "members" THEN pub'[p].pc = "resolve"
         ELSE pub[p].pc = "index" /\ pub'[p].pc = "search_pointer"
  <2>1. CASE At(p, "members") /\ Goto(p, "resolve")
    BY <1>0, <1>1, <2>1, GotoFields DEF PC, At
  <2>2. CASE At(p, "index") /\ Goto(p, "search_pointer")
    BY <1>0, <1>1, <2>2, GotoFields DEF PC, At
  <2> QED BY <2>1, <2>2 DEF AddGenerationAssertions, BuildSearchIndex
<1>5. Answers(pub[p])' /\ Resolving(pub[p])'
  BY <1>1, <1>3, <1>4 DEF Answers, Resolving
<1>6. {"resolve", "search_pointer"} \subseteq PostPublish
      /\ {"resolve", "search_pointer"} \cap HasParent = {}
  BY DEF PostPublish, HasParent
<1>7. CASE AddGenerationAssertions(p)
  <2>1. /\ members' = [members EXCEPT ![g] = members[g] \cup objects[g].content]
        /\ index' = index /\ pub[p].pc = "members"
    BY <1>1, <1>7 DEF AddGenerationAssertions, At
  <2>2. Materialising(pub[p])'
    BY <1>1, <1>2, <1>3, <1>4, <1>5, <1>6, <2>1 DEF Materialising
  <2> QED BY <1>0, <1>1, <1>2, <1>3, <2>1, <2>2, WorkStep
<1>8. CASE BuildSearchIndex(p)
  <2>1. /\ index' = [index EXCEPT ![g] = index[g] \cup ClaimsOf(objects[g].content)]
        /\ members' = members /\ pub[p].pc = "index"
    BY <1>1, <1>8 DEF BuildSearchIndex, At
  <2>2. pub[p].todo = {} /\ objects[g].content \subseteq members[g]
    BY <1>0, <2>1 DEF Materialising
  <2>3. Materialising(pub[p])'
    BY <1>1, <1>2, <1>3, <1>4, <1>5, <1>6, <2>1, <2>2 DEF Materialising
  <2> QED BY <1>0, <1>1, <1>2, <1>3, <2>1, <2>3, WorkStep
<1> QED BY <1>7, <1>8

\* The search pointer is set when everything has been materialised.
LEMMA SetSearchPointerMaterial ==
  ASSUME HistoryInvariant, RecordInvariant, MaterialInvariant, NEW p \in Publishers,
         SetSearchPointer(p)
  PROVE  MaterialStep(p)
<1> DEFINE g == pub[p].gen
<1>0. TypeOK /\ pub[p] \in Memory /\ Materialising(pub[p]) /\ pub[p].pc = "search_pointer"
      /\ pub[p].pc \in PostPublish
  BY MaterialFacts DEF SetSearchPointer, At, PostPublish
<1>1. /\ g \in Ids /\ g \in ActivatedGens /\ Answers(pub[p]) /\ Resolving(pub[p])
  BY <1>0, WorkFacts
<1>2. /\ pub[p].todo = {} /\ objects[g].content \subseteq members[g]
      /\ ClaimsOf(objects[g].content) \subseteq index[g]
  BY <1>0 DEF Materialising
<1>3. /\ UNCHANGED <<git, control, store, members, resolution, index>> /\ search' = g
      /\ objects' = objects /\ row' = row
      /\ \A q \in Publishers \ {p} : pub'[q] = pub[q]
  BY <1>0 DEF SetSearchPointer, ReturnFor, TypeOK, git, control
<1>4. /\ pub'[p].pc = "idle" /\ pub'[p].outcome \in {"ok", "replayed"} /\ pub'[p].todo = {}
      /\ pub'[p].gen = g /\ pub'[p].job = pub[p].job
  <2>1. ReturnFor(p, "ok") \/ ReturnFor(p, "replayed")
    BY DEF SetSearchPointer
  <2> QED BY <1>0, <2>1, ReturnFields DEF Outcome
<1>5. Answers(pub[p])' /\ Resolving(pub[p])' /\ ActivatedGens' = ActivatedGens
  BY <1>1, <1>2, <1>3, <1>4 DEF Answers, Resolving, ActivatedGens
<1>6. "idle" \notin HasParent \cup HasGen \cup PostPublish
  BY DEF HasParent, HasGen, HasPrev, PostPublish
<1>7. Materialising(pub[p])'
  BY <1>1, <1>2, <1>3, <1>4, <1>5, <1>6 DEF Materialising
<1> QED BY <1>0, <1>3, <1>7, WorkStep

\* A resolution is recorded as the snapshot and the request say.
LEMMA RecordResolutionMaterial ==
  ASSUME HistoryInvariant, RecordInvariant, MaterialInvariant, NEW p \in Publishers,
         RecordResolution(p)
  PROVE  MaterialStep(p)
<1> DEFINE g == pub[p].gen
           C == ClaimsOf(objects[g].content)
           R == pub[p].job.revokes
<1>0. TypeOK /\ pub[p] \in Memory /\ Materialising(pub[p]) /\ pub[p].pc = "resolve"
      /\ pub[p].pc \in PostPublish
  BY MaterialFacts DEF RecordResolution, At, PostPublish
<1>1. /\ g \in Ids /\ g \in ActivatedGens /\ Answers(pub[p]) /\ Resolving(pub[p])
      /\ C \subseteq Claims /\ R \subseteq Claims /\ pub[p].outcome = "none"
  BY <1>0, WorkFacts, RevokesAreClaims
<1>2. objects[g].content \subseteq members[g] /\ R \cap C = {}
  BY <1>0, <1>1 DEF Materialising, Answers
<1>3. UNCHANGED <<git, control, store, search, members, index>> /\ objects' = objects
  BY DEF RecordResolution, git
<1>4. {"resolve", "index"} \subseteq PostPublish /\ {"resolve", "index"} \cap HasParent = {}
  BY DEF PostPublish, HasParent
<1>5. CASE pub[p].todo = {} /\ Goto(p, "index") /\ UNCHANGED resolution
  <2>1. /\ pub'[p].pc = "index" /\ pub'[p].gen = g /\ pub'[p].job = pub[p].job
        /\ pub'[p].todo = {} /\ pub'[p].outcome = "none"
    BY <1>0, <1>1, <1>5, GotoFields DEF PC
  <2>2. Answers(pub[p])' /\ Resolving(pub[p])'
    BY <1>1, <1>3, <1>5, <2>1 DEF Answers, Resolving
  <2>3. Materialising(pub[p])'
    BY <1>2, <1>3, <1>4, <2>1, <2>2 DEF Materialising
  <2>4. \A q \in Publishers \ {p} : pub'[q] = pub[q]
    BY <1>0, <1>5 DEF Goto, TypeOK
  <2> QED BY <1>0, <1>3, <1>5, <2>3, <2>4, WorkStep
<1>6. CASE \E t \in pub[p].todo :
             /\ resolution' = [resolution EXCEPT ![g][t[1]] = t[2]]
             /\ pub' = [pub EXCEPT ![p].todo = @ \ {t}]
  <2>1. PICK t \in pub[p].todo :
             /\ resolution' = [resolution EXCEPT ![g][t[1]] = t[2]]
             /\ pub' = [pub EXCEPT ![p].todo = @ \ {t}]
    BY <1>6
  <2>2. pub'[p] = [pub[p] EXCEPT !.todo = pub[p].todo \ {t}]
        /\ \A q \in Publishers \ {p} : pub'[q] = pub[q]
    BY <1>0, <2>1 DEF TypeOK
  <2>3. /\ pub'[p].pc = "resolve" /\ pub'[p].gen = g /\ pub'[p].job = pub[p].job
        /\ pub'[p].todo = pub[p].todo \ {t} /\ pub'[p].outcome = "none"
    BY <1>0, <1>1, <2>2 DEF Memory
  <2>4. pub[p].todo \subseteq Claims \X {"accepted", "retracted"}
    BY <1>0 DEF Memory
  <2>5. PICK c \in Claims, v \in {"accepted", "retracted"} : t = <<c, v>>
    BY <2>1, <2>4
  <2>6. /\ IF v = "accepted" THEN c \in C ELSE c \in R
        /\ \A u \in pub[p].todo : IF u[2] = "accepted" THEN u[1] \in C ELSE u[1] \in R
        /\ \A b \in C : <<b, "accepted">> \in pub[p].todo \/ resolution[g][b] = "accepted"
        /\ \A b \in R : <<b, "retracted">> \in pub[p].todo \/ resolution[g][b] = "retracted"
    BY <1>1, <2>1, <2>5 DEF Resolving
  <2>7. resolution \in [Ids -> [Claims -> {"none", "accepted", "retracted"}]]
    BY <1>0 DEF TypeOK
  <2>8. /\ \A h \in Ids \ {g} : resolution'[h] = resolution[h]
        /\ resolution'[g] = [resolution[g] EXCEPT ![c] = v]
    BY <1>1, <2>1, <2>5, <2>7
  <2>9. /\ resolution'[g][c] = v
        /\ \A b \in Claims \ {c} : resolution'[g][b] = resolution[g][b]
    BY <1>1, <2>7, <2>8
  <2> HIDE DEF C, R, g
  <2>10. v = IF c \in C THEN "accepted" ELSE "retracted"
    BY <1>2, <2>5, <2>6
  <2>11. \A h \in Ids, b \in Claims : resolution'[h][b] # resolution[h][b] =>
           h = g /\ resolution'[h][b] = IF b \in C THEN "accepted" ELSE "retracted"
    BY <2>8, <2>9, <2>10
  <2>12. /\ \A b \in C : <<b, "accepted">> \in pub'[p].todo \/ resolution'[g][b] = "accepted"
         /\ \A b \in R : <<b, "retracted">> \in pub'[p].todo \/ resolution'[g][b] = "retracted"
    <3>1. ASSUME NEW b \in C
          PROVE  <<b, "accepted">> \in pub'[p].todo \/ resolution'[g][b] = "accepted"
      <4>1. CASE b = c
        BY <2>9, <2>10, <4>1
      <4>2. CASE b # c
        BY <1>1, <2>3, <2>5, <2>6, <2>9, <4>2
      <4> QED BY <4>1, <4>2
    <3>2. ASSUME NEW b \in R
          PROVE  <<b, "retracted">> \in pub'[p].todo \/ resolution'[g][b] = "retracted"
      <4>1. CASE b = c
        BY <1>2, <2>9, <2>10, <4>1
      <4>2. CASE b # c
        BY <1>1, <2>3, <2>5, <2>6, <2>9, <4>2
      <4> QED BY <4>1, <4>2
    <3> QED BY <3>1, <3>2
  <2>13. \A u \in pub'[p].todo : IF u[2] = "accepted" THEN u[1] \in C ELSE u[1] \in R
    BY <2>3, <2>6
  <2>14. Resolving(pub[p])' /\ Answers(pub[p])'
    BY <1>1, <1>3, <2>3, <2>12, <2>13 DEF Resolving, Answers, C, R, g
  <2>15. Materialising(pub[p])'
    BY <1>2, <1>3, <1>4, <2>3, <2>14 DEF Materialising
  <2> QED BY <1>0, <1>3, <2>2, <2>11, <2>15, WorkStep DEF C, g
<1> QED BY <1>5, <1>6 DEF RecordResolution

-----------------------------------------------------------------------------
(* The invariant of the materialisation.                                   *)

\* Nothing is materialised initially.
LEMMA MaterialInit == Init => MaterialInvariant
<1> SUFFICES ASSUME Init PROVE MaterialInvariant
  OBVIOUS
<1>1. SnapshotsComplete
  BY DEF Init, SnapshotsComplete
<1>2. DerivedFromSnapshot
  BY DEF Init, DerivedFromSnapshot
<1>3. \A p \in Publishers : pub[p].pc = "idle" /\ pub[p].outcome = "none"
  BY DEF Init, Idle
<1>4. \A p \in Publishers : Materialising(pub[p])
  BY <1>3 DEF Materialising, HasGen, HasPrev, HasParent, PostPublish
<1> QED BY <1>1, <1>2, <1>4 DEF MaterialInvariant

\* Every step keeps the invariant of the materialisation.
LEMMA MaterialNext ==
  HistoryInvariant /\ RecordInvariant /\ MaterialInvariant /\ [Next]_vars
    => MaterialInvariant'
<1> SUFFICES ASSUME HistoryInvariant, RecordInvariant, MaterialInvariant, [Next]_vars
             PROVE  MaterialInvariant'
  OBVIOUS
<1>1. ASSUME NEW p \in Publishers, Start(p) \/ Step(p) \/ Crash(p)
      PROVE  MaterialStep(p)
  <2>1. CASE Start(p) \/ Crash(p) BY <2>1, StartMaterial
  <2>2. CASE ReplayCheck(p) BY <2>2, ReplayCheckMaterial
  <2>3. CASE Prepare(p) BY <2>3, PrepareMaterial
  <2>4. CASE ReadRelease(p) \/ ReadSeq(p) \/ ReadCurrent(p) BY <2>4, ReadMaterial
  <2>5. CASE BuildCandidate(p) BY <2>5, BuildCandidateMaterial
  <2>6. CASE AnchorCandidate(p) \/ BuildRelease(p) \/ AnchorRelease(p)
    BY <2>6, AnchorMaterial
  <2>7. CASE \/ RegisterGeneration(p) \/ SetReadModelsReady(p)
             \/ MarkReadModel(p, "wiki_files", "mark_wiki", "mark_citation")
             \/ MarkReadModel(p, "citation_index", "mark_citation", "set_ready")
    BY <2>7, RegisterMaterial
  <2>8. CASE ReadState(p) BY <2>8, ReadStateMaterial
  <2>9. CASE Activate(p) BY <2>9, ActivateMaterial
  <2>10. CASE AddGenerationAssertions(p) \/ BuildSearchIndex(p) BY <2>10, WriteMaterial
  <2>11. CASE RecordResolution(p) BY <2>11, RecordResolutionMaterial
  <2>12. CASE SetSearchPointer(p) BY <2>12, SetSearchPointerMaterial
  <2> QED BY <1>1, <2>1, <2>2, <2>3, <2>4, <2>5, <2>6, <2>7, <2>8, <2>9, <2>10, <2>11,
             <2>12 DEF Step
<1>2. CASE UNCHANGED vars
  <2>1. /\ objects' = objects /\ row' = row /\ store' = store /\ search' = search
        /\ members' = members /\ resolution' = resolution /\ index' = index /\ pub' = pub
    BY <1>2 DEF vars, git, control, derived
  <2>2. UNCHANGED <<SnapshotsComplete, DerivedFromSnapshot>>
    BY <2>1 DEF SnapshotsComplete, DerivedFromSnapshot, Content, ActivatedGens
  <2>3. ASSUME NEW p \in Publishers PROVE Materialising(pub[p])' = Materialising(pub[p])
    BY <2>1 DEF Materialising, Answers, Resolving, ActivatedGens, NewAssertions
  <2> QED BY <2>2, <2>3 DEF MaterialInvariant
<1> QED BY <1>1, <1>2, MaterialStepKeeps DEF Next, Terminating

\* The materialisation is true in every reachable state of the history.
THEOREM MaterialInvariantHolds ==
  Spec => [](HistoryInvariant /\ RecordInvariant /\ MaterialInvariant)
<1>1. Init => HistoryInvariant /\ RecordInvariant /\ MaterialInvariant
  BY HistoryInit, RecordInit, MaterialInit
<1>2. HistoryInvariant /\ RecordInvariant /\ MaterialInvariant /\ [Next]_vars
        => (HistoryInvariant /\ RecordInvariant /\ MaterialInvariant)'
  BY HistoryNext, RecordNext, MaterialNext
<1> QED BY <1>1, <1>2, PTL DEF Spec

\* Search data is never ahead of the signed artifact, and a call that returned
\* ok or replayed left its generation completely materialised, however many
\* publishers run _post_publish late, twice or at once.
THEOREM MaterialisationIsTrue == Spec => []MaterialisedIsTrue
<1>1. HistoryInvariant /\ MaterialInvariant => MaterialisedIsTrue
  <2> SUFFICES ASSUME HistoryInvariant, MaterialInvariant PROVE MaterialisedIsTrue
    OBVIOUS
  <2>0. TypeOK /\ ArtifactsKnown /\ SnapshotsComplete /\ DerivedFromSnapshot
        /\ \A g \in ActivatedGens : g \in Ids /\ row[g].state \in Activated
    BY DEF HistoryInvariant, MaterialInvariant, ActivatedGens
  <2>1. MaterialisationFaithful
    <3>1. search # None => row[search].state \in Activated
      BY <2>0 DEF DerivedFromSnapshot
    <3>2. ASSUME NEW g \in Ids
          PROVE  /\ members[g] # {} => row[g].state \in Activated
                 /\ members[g] \subseteq store
                 /\ \A c \in Claims :
                      (resolution[g][c] = "accepted" \/ c \in index[g]) =>
                        row[g].state \in Activated /\ c \in ClaimsOf(objects[g].content)
      <4>1. g \in ActivatedGens => objects[g].content \subseteq store
        BY <2>0 DEF ArtifactsKnown, SnapshotsComplete
      <4> QED BY <2>0, <4>1 DEF DerivedFromSnapshot
    <3> QED BY <3>1, <3>2 DEF MaterialisationFaithful
  <2>2. ASSUME NEW p \in Publishers, pub[p].outcome \in {"ok", "replayed"}
        PROVE  LET g == pub[p].gen
               IN /\ row[g].state \in Activated
                  /\ members[g] = objects[g].content
                  /\ index[g] = ClaimsOf(objects[g].content)
                  /\ \A c \in ClaimsOf(objects[g].content) : resolution[g][c] = "accepted"
                  /\ NewAssertions(pub[p].job) \subseteq objects[g].content
                  /\ \A c \in pub[p].job.revokes :
                       resolution[g][c] = "retracted" /\ c \notin index[g]
    <3> DEFINE g == pub[p].gen
               C == ClaimsOf(objects[g].content)
    <3>1. /\ g \in ActivatedGens /\ Answers(pub[p]) /\ Resolving(pub[p]) /\ pub[p].todo = {}
          /\ objects[g].content \subseteq members[g] /\ C \subseteq index[g]
      BY <2>2 DEF MaterialInvariant, Materialising
    <3>2. members[g] \subseteq objects[g].content /\ index[g] \subseteq C
      BY <2>0, <3>1 DEF DerivedFromSnapshot
    <3>3. /\ \A c \in C : resolution[g][c] = "accepted"
          /\ \A c \in pub[p].job.revokes : resolution[g][c] = "retracted"
      BY <3>1 DEF Resolving
    <3>4. objects[g].label = pub[p].job.label /\ pub[p].job.revokes \cap C = {}
      BY <3>1 DEF Answers
    <3>5. NewAssertions(pub[p].job) \subseteq objects[g].content
      <4>1. pub[p].job \in Job
        BY <2>0, RevokesAreClaims
      <4>2. CASE pub[p].job.kind = "revoke"
        BY <4>2 DEF NewAssertions
      <4>3. CASE pub[p].job.kind # "revoke"
        <5>1. pub[p].job.label # Admin
          BY <4>1, <4>3 DEF Job
        <5>2. g \in 1 .. Len(objects)
          BY <2>0, <3>1 DEF ArtifactsKnown
        <5> QED BY <2>0, <3>4, <4>3, <5>1, <5>2 DEF SnapshotsComplete, NewAssertions
      <4> QED BY <4>2, <4>3
    <3> QED BY <2>0, <3>1, <3>2, <3>3, <3>4, <3>5
  <2> QED BY <2>1, <2>2 DEF MaterialisedIsTrue, OkMeansMaterialised
<1> QED BY <1>1, MaterialInvariantHolds, PTL

-----------------------------------------------------------------------------
(* The refinement of the append-only lineage.                              *)

\* The entries of the outbox form a sequence of its length.
LEMMA EntriesSequence ==
  ASSUME TypeOK
  PROVE  /\ Len(PublishedEntries) = Len(outbox) /\ Len(outbox) \in Nat
         /\ \A i \in 1 .. Len(outbox) : PublishedEntries[i] = LineageEntry(outbox[i])
         /\ PublishedEntries = << >> <=> outbox = << >>
<1> DEFINE S == {LineageEntry(outbox[i]) : i \in 1 .. Len(outbox)}
<1>1. outbox \in Seq(Ids) /\ Len(outbox) \in Nat
  BY DEF TypeOK
<1>2. PublishedEntries \in [1 .. Len(outbox) -> S]
  BY DEF PublishedEntries
<1> HIDE DEF S
<1>3. PublishedEntries \in Seq(S) /\ Len(PublishedEntries) = Len(outbox)
  BY <1>1, <1>2
<1>4. \A i \in 1 .. Len(outbox) : PublishedEntries[i] = LineageEntry(outbox[i])
  BY DEF PublishedEntries
<1>5. PublishedEntries = << >> <=> outbox = << >>
  BY <1>1, <1>3
<1> QED BY <1>1, <1>3, <1>4, <1>5

\* The generations of the outbox are activated.
LEMMA OutboxActivated ==
  ASSUME OutboxComplete, NEW i \in 1 .. Len(outbox)
  PROVE  outbox[i] \in ActivatedGens
BY DEF OutboxComplete

\* The entry of an activated generation stays the same when the stores grow.
LEMMA EntryKept ==
  ASSUME TypeOK, Tables, NEW g \in ActivatedGens, Grows
  PROVE  LineageEntry(g)' = LineageEntry(g)
<1>1. /\ g \in 1 .. Len(objects) /\ row[g].rel \in 1 .. Len(releases) /\ g \in Ids
      /\ row[g].state \in Activated
  BY DEF Tables, ArtifactsKnown, ActivatedGens
<1>2. objects'[g] = objects[g] /\ row'[g] = row[g] /\ releases'[row[g].rel] = releases[row[g].rel]
  BY <1>1 DEF Grows
<1> QED BY <1>2 DEF LineageEntry

\* A step that activates nothing leaves the lineage alone.
LEMMA LineageStutters ==
  ASSUME TypeOK, Tables, OutboxComplete, Grows, outbox' = outbox
  PROVE  PublishedEntries' = PublishedEntries
<1>1. ASSUME NEW i \in 1 .. Len(outbox)
      PROVE  LineageEntry(outbox[i])' = LineageEntry(outbox[i])
  <2>1. outbox[i] \in ActivatedGens
    BY OutboxActivated
  <2>2. PICK g \in ActivatedGens : g = outbox[i]
    BY <2>1
  <2>3. LineageEntry(g)' = LineageEntry(g)
    BY EntryKept
  <2>4. outbox'[i] = g
    BY <2>2
  <2> QED BY <2>2, <2>3, <2>4 DEF LineageEntry
<1> QED BY <1>1 DEF PublishedEntries

\* An activation appends the entry of its generation.
LEMMA LineageGrows ==
  ASSUME HistoryInvariant, RecordInvariant, MaterialInvariant, TypeOK', NEW p \in Publishers,
         Activates(p)
  PROVE  Lineage!Publish
<1> DEFINE g == pub[p].gen
           n == Len(outbox)
           e == PublishedEntries'[n + 1]
<1>0. TypeOK /\ PublisherKnows /\ Tables /\ OutboxComplete /\ Knows(pub[p])
      /\ SnapshotsComplete
  BY MaterialFacts DEF RecordInvariant
<1>1. /\ g \in Ids /\ g \in 1 .. Len(objects) /\ pub[p].rel \in 1 .. Len(releases)
      /\ g \notin ActivatedGens /\ objects[g].parent = pointer
      /\ releases[pub[p].rel] = [gen |-> g, prev |-> release]
  BY <1>0, ActivatesKnows
<1>2. /\ \A h \in Ids : row'[h].rel = row[h].rel
      /\ row[g].rel = pub[p].rel
  BY <1>0, ActivatesRows DEF Activates, Activatable
<1>3. /\ objects' = objects /\ releases' = releases /\ outbox' = Append(outbox, g)
      /\ outbox \in Seq(Ids) /\ n \in Nat
  BY <1>0 DEF Activates, git, TypeOK
<1> HIDE DEF g
<1>4. /\ Len(outbox') = n + 1 /\ outbox'[n + 1] = g
      /\ \A i \in 1 .. n : outbox'[i] = outbox[i]
  BY <1>1, <1>3
<1>5. /\ Len(PublishedEntries) = n /\ Len(PublishedEntries') = n + 1
      /\ \A i \in 1 .. n : PublishedEntries[i] = LineageEntry(outbox[i])
      /\ PublishedEntries = << >> <=> outbox = << >>
  <2> DEFINE S == {LineageEntry(outbox[i])' : i \in 1 .. n + 1}
  <2>1. PublishedEntries' \in [1 .. n + 1 -> S]
    BY <1>4 DEF PublishedEntries
  <2> HIDE DEF S
  <2>2. Len(PublishedEntries') = n + 1
    BY <1>3, <2>1
  <2> QED BY <1>0, <2>2, EntriesSequence
<1> DEFINE Entry(h, r) == [gen |-> h, parent |-> objects[h].parent, release |-> r,
                           prev |-> releases[r].prev, content |-> objects[h].content,
                           label |-> objects[h].label]
<1>6. /\ \A i \in 1 .. n + 1 : PublishedEntries'[i] = Entry(outbox'[i], row'[outbox'[i]].rel)
      /\ \A h : LineageEntry(h) = Entry(h, row[h].rel)
  BY <1>3, <1>4 DEF PublishedEntries, LineageEntry
<1>7. \A i \in 1 .. n : PublishedEntries'[i] = PublishedEntries[i]
  <2> SUFFICES ASSUME NEW i \in 1 .. n PROVE PublishedEntries'[i] = PublishedEntries[i]
    OBVIOUS
  <2>1. i \in 1 .. n + 1 /\ outbox'[i] = outbox[i] /\ outbox[i] \in Ids
    BY <1>3, <1>4
  <2>2. row'[outbox[i]].rel = row[outbox[i]].rel
    BY <1>2, <2>1
  <2> HIDE DEF Entry
  <2> QED BY <1>5, <1>6, <2>1, <2>2
<1>8. /\ e.gen = g /\ e.parent = pointer /\ e.prev = release
      /\ e.content = objects[g].content /\ e.label = objects[g].label
  <2>1. n + 1 \in 1 .. n + 1
    BY <1>3
  <2>2. e = Entry(g, pub[p].rel)
    <3> HIDE DEF Entry
    <3> QED BY <1>1, <1>2, <1>4, <1>6, <2>1
  <2>3. releases[pub[p].rel].prev = release
    BY <1>1
  <2> HIDE DEF e
  <2> QED BY <1>1, <2>2, <2>3
<1> HIDE DEF e
<1>9. \A i \in 1 .. n : PublishedEntries[i].gen # g
  <2> SUFFICES ASSUME NEW i \in 1 .. n PROVE PublishedEntries[i].gen # g
    OBVIOUS
  <2>1. outbox[i] \in ActivatedGens
    BY <1>0, OutboxActivated
  <2>2. LineageEntry(outbox[i]).gen = outbox[i]
    BY DEF LineageEntry
  <2> QED BY <1>1, <1>5, <2>1, <2>2
<1>10. CASE outbox = << >>
  <2>1. pointer = None /\ release = None
    BY <1>0, <1>10 DEF OutboxComplete, Tables, SinglePublished
  <2>2. Lineage!Follows(e)
    BY <1>5, <1>8, <1>9, <1>10, <2>1 DEF Lineage!Follows
  <2> QED BY <1>5, <1>7, <2>2 DEF Lineage!Publish, e
<1>11. CASE outbox # << >>
  <2>1. n \in 1 .. n /\ pointer = outbox[n] /\ pointer # None
    BY <1>0, <1>3, <1>11 DEF OutboxComplete, None, Ids
  <2>2. release = row[pointer].rel /\ Content(pointer) = objects[pointer].content
    BY <1>0, <2>1 DEF Tables, SinglePublished, Content
  <2>3. PublishedEntries[n] = LineageEntry(pointer)
    BY <1>5, <2>1
  <2>4. /\ PublishedEntries[n].gen = pointer /\ PublishedEntries[n].release = release
        /\ PublishedEntries[n].content = Content(pointer)
    BY <2>2, <2>3 DEF LineageEntry
  <2>5. e.label = Admin \/ Content(pointer) \subseteq e.content
    BY <1>0, <1>1, <1>8 DEF SnapshotsComplete
  <2>6. Lineage!Follows(e)
    BY <1>5, <1>8, <1>9, <1>11, <2>4, <2>5 DEF Lineage!Follows, Lineage!Newest
  <2> QED BY <1>5, <1>7, <2>6 DEF Lineage!Publish, e
<1> QED BY <1>10, <1>11

\* Every step of the publishers is a step of the lineage, or leaves it alone.
LEMMA LineageStep ==
  HistoryInvariant /\ RecordInvariant /\ MaterialInvariant /\ [Next]_vars
    => [Lineage!Publish]_PublishedEntries
<1> SUFFICES ASSUME HistoryInvariant, RecordInvariant, MaterialInvariant, [Next]_vars
             PROVE  Lineage!Publish \/ PublishedEntries' = PublishedEntries
  OBVIOUS
<1>1. TypeOK /\ PublisherKnows /\ Tables /\ OutboxComplete
  BY DEF HistoryInvariant, Tables, RecordInvariant
<1>2. TypeOK'
  BY HistoryNext DEF HistoryInvariant
<1>3. ASSUME NEW p \in Publishers, Start(p) \/ Step(p) \/ Crash(p)
      PROVE  Lineage!Publish \/ PublishedEntries' = PublishedEntries
  <2>1. CASE Activates(p)
    BY <1>2, <2>1, LineageGrows
  <2>2. CASE Grows /\ outbox' = outbox
    BY <1>1, <2>2, LineageStutters
  <2>3. (GoodStep(p) \/ Activates(p)) /\ (outbox' = outbox \/ Activates(p))
    BY <1>1, <1>3, PublisherSteps, RecordSteps
  <2> QED BY <2>1, <2>2, <2>3 DEF GoodStep
<1>4. CASE UNCHANGED vars
  <2>1. outbox' = outbox /\ Grows
    BY <1>1, <1>4, StoresUnchanged DEF vars, control
  <2> QED BY <1>1, <2>1, LineageStutters
<1> QED BY <1>3, <1>4 DEF Next, Terminating

\* The lineage of the initial state is empty.
LEMMA LineageInit == Init => Lineage!Init
<1> SUFFICES ASSUME Init PROVE PublishedEntries = << >>
  BY DEF Lineage!Init
<1>1. TypeOK /\ outbox = << >>
  BY HistoryInit DEF Init, HistoryInvariant
<1> QED BY <1>1, EntriesSequence

\* Concurrent publishers, with their retries, replays and crashes, implement the
\* append-only lineage: no generation is activated twice, history does not fork,
\* the release chain does not break, and no published assertion is lost to a
\* publisher that started from an older parent.
THEOREM PublishersImplementLineage == Spec => ImplementsLineage
<1>1. Init => Lineage!Init
  BY LineageInit
<1>2. HistoryInvariant /\ RecordInvariant /\ MaterialInvariant /\ [Next]_vars
        => [Lineage!Publish]_PublishedEntries
  BY LineageStep
<1> QED BY <1>1, <1>2, MaterialInvariantHolds, PTL
        DEF Spec, ImplementsLineage, Lineage!Spec

-----------------------------------------------------------------------------
(* The states of a generation.                                             *)

Advances ==
  \A g \in Ids : row'[g].state = row[g].state
                 \/ Rank(row'[g].state) = Rank(row[g].state) + 1

\* The ranks of the states.
LEMMA Ranks ==
  /\ Rank("validated") = Rank("absent") + 1
  /\ Rank("read_models_ready") = Rank("validated") + 1
  /\ Rank("published") = Rank("read_models_ready") + 1
  /\ Rank("superseded") = Rank("published") + 1
BY DEF Rank

\* Registration, readiness and activation each advance a generation one stage.
LEMMA StatesAdvance == HistoryInvariant /\ RecordInvariant /\ [Next]_vars => Advances
<1> SUFFICES ASSUME HistoryInvariant, RecordInvariant, [Next]_vars PROVE Advances
  OBVIOUS
<1>0. TypeOK /\ PublisherKnows /\ Tables
  BY DEF HistoryInvariant, Tables
<1>1. ASSUME row' = row PROVE Advances
  BY <1>1 DEF Advances
<1>2. ASSUME NEW p \in Publishers, RegisterGeneration(p) PROVE Advances
  <2>1. pub[p].gen \in Ids
    <3>1. pub[p].pc \in HasSeq
      BY <1>2 DEF RegisterGeneration, At, HasSeq, HasRelease, HasGen, HasPrev, HasParent
    <3> QED BY <3>1, HasSeqKnown
  <2>2. CASE row' = row
    BY <1>1, <2>2
  <2>3. CASE /\ row[pub[p].gen].state = "absent"
             /\ row' = [row EXCEPT ![pub[p].gen] = [state |-> "validated",
                          rel |-> pub[p].rel, seq |-> pub[p].seq]]
    <3>1. /\ row'[pub[p].gen].state = "validated"
          /\ \A g \in Ids \ {pub[p].gen} : row'[g] = row[g]
      BY <1>0, <2>1, <2>3 DEF TypeOK
    <3> QED BY <2>3, <3>1, Ranks DEF Advances
  <2> QED BY <1>2, <2>2, <2>3 DEF RegisterGeneration
<1>3. ASSUME NEW p \in Publishers, SetReadModelsReady(p) PROVE Advances
  <2>1. pub[p].gen \in Ids
    <3>1. pub[p].pc \in HasSeq
      BY <1>3 DEF SetReadModelsReady, At, HasSeq, HasRelease, HasGen, HasPrev, HasParent
    <3> QED BY <3>1, HasSeqKnown
  <2>2. CASE row' = row
    BY <1>1, <2>2
  <2>3. CASE /\ row[pub[p].gen].state = "validated"
             /\ row' = [row EXCEPT ![pub[p].gen].state = "read_models_ready"]
    <3>1. /\ row'[pub[p].gen].state = "read_models_ready"
          /\ \A g \in Ids \ {pub[p].gen} : row'[g] = row[g]
      BY <1>0, <2>1, <2>3 DEF TypeOK
    <3> QED BY <2>3, <3>1, Ranks DEF Advances
  <2> QED BY <1>3, <2>2, <2>3 DEF SetReadModelsReady
<1>4. ASSUME NEW p \in Publishers, Activates(p) PROVE Advances
  <2>1. /\ row'[pub[p].gen].state = "published" /\ row[pub[p].gen].state = "read_models_ready"
        /\ \A h \in Ids : h = pointer => row'[h].state = "superseded"
        /\ \A h \in Ids : h \notin {pointer, pub[p].gen} => row'[h] = row[h]
    BY <1>0, <1>4, ActivatesKnows, ActivatesRows
  <2>2. \A h \in Ids : h = pointer => row[h].state = "published"
    BY <1>0 DEF Tables, SinglePublished
  <2> QED BY <2>1, <2>2, Ranks DEF Advances
<1>5. ASSUME NEW p \in Publishers, Start(p) \/ Step(p) \/ Crash(p) PROVE Advances
  <2>1. CASE Activate(p)
    BY <1>1, <1>4, <2>1, ActivateRecords DEF control
  <2>2. CASE RegisterGeneration(p) \/ SetReadModelsReady(p)
    BY <1>2, <1>3, <2>2
  <2>3. CASE \/ Start(p) \/ ReplayCheck(p) \/ Prepare(p) \/ ReadRelease(p)
             \/ BuildCandidate(p) \/ AnchorCandidate(p) \/ BuildRelease(p)
             \/ AnchorRelease(p) \/ ReadSeq(p) \/ ReadCurrent(p) \/ ReadState(p)
             \/ AddGenerationAssertions(p) \/ RecordResolution(p) \/ BuildSearchIndex(p)
             \/ SetSearchPointer(p) \/ Crash(p)
    <3>1. UNCHANGED control
      BY <2>3 DEF Start, ReplayCheck, Prepare, ReadRelease, BuildCandidate, AnchorCandidate,
                  BuildRelease, AnchorRelease, ReadSeq, ReadCurrent, ReadState,
                  AddGenerationAssertions, RecordResolution, BuildSearchIndex,
                  SetSearchPointer, Crash
    <3> QED BY <1>1, <3>1 DEF control
  <2>4. CASE \/ MarkReadModel(p, "wiki_files", "mark_wiki", "mark_citation")
             \/ MarkReadModel(p, "citation_index", "mark_citation", "set_ready")
    BY <1>1, <2>4 DEF MarkReadModel
  <2> QED BY <1>5, <2>1, <2>2, <2>3, <2>4 DEF Step
<1>6. CASE UNCHANGED vars
  BY <1>1, <1>6 DEF vars, control
<1> QED BY <1>5, <1>6 DEF Next, Terminating

\* The lineage only grows, and the state of a generation only advances, one
\* stage at a time: preparing a generation again never makes a published or
\* superseded one activatable.
THEOREM LineageGrowsOnly == Spec => LineageOnlyGrows
<1>1. HistoryInvariant /\ RecordInvariant /\ [Next]_vars => Advances
  BY StatesAdvance
<1>2. Spec => StateOnlyAdvances
  <2>1. HistoryInvariant /\ RecordInvariant /\ [Next]_vars =>
          [\A g \in Ids : row'[g].state = row[g].state
                          \/ Rank(row'[g].state) = Rank(row[g].state) + 1]_vars
    BY <1>1 DEF Advances
  <2> QED BY <2>1, RecordInvariantHolds, PTL DEF Spec, StateOnlyAdvances
<1> QED BY <1>2, PublishersImplementLineage DEF LineageOnlyGrows

-----------------------------------------------------------------------------
(* A query beside the publishers.                                          *)

\* What a step of the publishers does to what a query relies on: generations
\* stay activated and keep their snapshot and number, and the outbox is
\* extended at its end.
Extends ==
  /\ ActivatedGens \subseteq ActivatedGens'
  /\ \A g \in ActivatedGens :
       /\ objects'[g].content = objects[g].content
       /\ row'[g].seq = row[g].seq
  /\ outbox' \in Seq(Ids)
  /\ Len(outbox) <= Len(outbox')
  /\ \A i \in 1 .. Len(outbox) : outbox'[i] = outbox[i]

\* The outbox is a sequence of activated generations.
LEMMA OutboxFacts ==
  ASSUME TypeOK, OutboxComplete
  PROVE  /\ outbox \in Seq(Ids) /\ Len(outbox) \in Nat
         /\ \A i \in 1 .. Len(outbox) : outbox[i] \in ActivatedGens
         /\ \A g \in ActivatedGens : g \in Ids /\ row[g].seq \in Nat
         /\ \A g \in ActivatedGens : \E i \in 1 .. Len(outbox) : outbox[i] = g
         /\ pointer # None =>
              1 <= Len(outbox) /\ outbox[Len(outbox)] = pointer /\ pointer \in ActivatedGens
<1>1. outbox \in Seq(Ids) /\ Len(outbox) \in Nat
  BY DEF TypeOK
<1>2. {outbox[i] : i \in 1 .. Len(outbox)} = ActivatedGens
  BY DEF OutboxComplete
<1>3. \A g \in ActivatedGens : g \in Ids /\ row[g].seq \in Nat
  BY DEF TypeOK, ActivatedGens
<1>4. ASSUME pointer # None
      PROVE  1 <= Len(outbox) /\ outbox[Len(outbox)] = pointer
  <2>1. outbox # << >> /\ pointer = outbox[Len(outbox)]
    BY <1>4 DEF OutboxComplete
  <2> QED BY <1>1, <2>1
<1> QED BY <1>1, <1>2, <1>3, <1>4

\* A step that activates nothing keeps what a query relies on.
LEMMA GrowsExtends ==
  ASSUME TypeOK, TypeOK', Tables, OutboxComplete, Grows, outbox' = outbox
  PROVE  Extends
<1>1. ActivatedGens' = ActivatedGens
  BY GrowsActivated
<1>2. ASSUME NEW g \in ActivatedGens
      PROVE  objects'[g] = objects[g] /\ row'[g] = row[g]
  <2>1. g \in 1 .. Len(objects) /\ g \in Ids /\ row[g].state \in Activated
    BY DEF Tables, ArtifactsKnown, ActivatedGens
  <2> QED BY <2>1 DEF Grows
<1> QED BY <1>1, <1>2 DEF Extends, TypeOK

\* An activation keeps it too, and counts its generation.
LEMMA ActivatesExtends ==
  ASSUME HistoryInvariant, RecordInvariant, SeqCountsActivations,
         NEW p \in Publishers, Activates(p)
  PROVE  Extends /\ SeqCountsActivations'
<1> DEFINE g == pub[p].gen
           n == Len(outbox)
<1>0. TypeOK /\ PublisherKnows /\ Tables /\ OutboxComplete /\ RowsRecorded
  BY DEF HistoryInvariant, RecordInvariant, Tables
<1>1. /\ g \in Ids /\ objects[g].parent = pointer
      /\ row[g].state = "read_models_ready"
  BY <1>0, ActivatesKnows
<1>2. /\ \A h \in Ids : row'[h].seq = row[h].seq
      /\ ActivatedGens' = ActivatedGens \cup {g}
  BY <1>0, ActivatesRows
<1>3. objects' = objects /\ outbox' = Append(outbox, g)
  BY DEF Activates, git
<1>4. /\ outbox \in Seq(Ids) /\ n \in Nat
      /\ \A i \in 1 .. n : outbox[i] \in ActivatedGens
      /\ \A h \in ActivatedGens : h \in Ids /\ row[h].seq \in Nat
      /\ pointer # None => 1 <= n /\ outbox[n] = pointer /\ pointer \in ActivatedGens
  BY <1>0, OutboxFacts
<1>5. pointer # None => row[pointer].seq < row[g].seq
  BY <1>0, <1>1 DEF RowsRecorded, Rows
<1>6. row[g].seq \in Nat
  BY <1>0, <1>1 DEF TypeOK
<1>7. n > 0 => pointer = outbox[n] /\ pointer # None
  <2>1. n > 0 => outbox # << >>
    BY <1>4
  <2>2. None \notin Ids
    BY DEF None, Ids
  <2> QED BY <1>0, <1>4, <2>1, <2>2 DEF OutboxComplete
<1> HIDE DEF g
<1>8. /\ outbox' \in Seq(Ids) /\ Len(outbox') = n + 1
      /\ \A i \in 1 .. n : outbox'[i] = outbox[i]
      /\ outbox'[n + 1] = g
  BY <1>1, <1>3, <1>4
<1>9. Extends
  BY <1>2, <1>3, <1>4, <1>8 DEF Extends
<1> HIDE DEF n
<1>10. \A i, j \in 1 .. n : i <= j => row[outbox[i]].seq + (j - i) <= row[outbox[j]].seq
  BY DEF SeqCountsActivations, n
<1>11. ASSUME NEW i \in 1 .. n
       PROVE  row[outbox[i]].seq + (n + 1 - i) <= row[g].seq
  <2>1. n \in 1 .. n /\ n > 0 /\ i <= n
    BY <1>4
  <2>2. row[outbox[i]].seq + (n - i) <= row[outbox[n]].seq
    BY <1>10, <2>1
  <2>3. row[outbox[n]].seq < row[g].seq
    BY <1>5, <1>7, <2>1
  <2>4. row[outbox[i]].seq \in Nat /\ row[outbox[n]].seq \in Nat
    BY <1>4, <2>1
  <2> QED BY <1>4, <1>6, <2>2, <2>3, <2>4
<1>12. ASSUME NEW i \in 1 .. n + 1, NEW j \in 1 .. n + 1, i <= j
       PROVE  row'[outbox'[i]].seq + (j - i) <= row'[outbox'[j]].seq
  <2>1. CASE i \in 1 .. n /\ j \in 1 .. n
    BY <1>2, <1>4, <1>8, <1>10, <1>12, <2>1
  <2>2. CASE i \in 1 .. n /\ j = n + 1
    BY <1>1, <1>2, <1>4, <1>8, <1>11, <2>2
  <2>3. CASE i = n + 1 /\ j = n + 1
    BY <1>1, <1>2, <1>6, <1>8, <2>3
  <2> QED BY <1>4, <1>12, <2>1, <2>2, <2>3
<1>13. SeqCountsActivations'
  BY <1>8, <1>12 DEF SeqCountsActivations
<1> QED BY <1>9, <1>13

\* The query knows the same after any step of the publishers.
LEMMA ExtendsKeepsQuery ==
  ASSUME TypeOK, OutboxComplete, Extends, QueryKnows, query' = query
  PROVE  QueryKnows'
<1>1. /\ \A i \in 1 .. Len(outbox) : outbox[i] \in ActivatedGens
      /\ Len(outbox) \in Nat /\ Len(outbox') \in Nat /\ Len(outbox) <= Len(outbox')
  BY OutboxFacts DEF Extends
<1>2. /\ query \in [pc : {"idle", "wiki", "lag", "filter", "answered"}, s : Opt, w : Opt,
                    todo : SUBSET Claims, hits : SUBSET Claims, disabled : BOOLEAN,
                    since : 0 .. Len(outbox')]
  BY <1>1 DEF QueryKnows
<1>3. query.s # None => query.s \in ActivatedGens /\ query.s \in ActivatedGens'
  BY DEF QueryKnows, Extends
<1>4. query.w # None =>
        /\ query.w \in ActivatedGens
        /\ \E i \in 1 .. Len(outbox') : i >= query.since /\ outbox'[i] = query.w
  BY <1>1 DEF QueryKnows, Extends
<1>5. query.s # None /\ query.w # None =>
        (TooStale(query.s, query.w)' <=> TooStale(query.s, query.w))
  BY <1>3, <1>4 DEF Extends, TooStale
<1>6. \A c \in query.hits : query.w # None /\ c \in ClaimsOf(objects'[query.w].content)
  BY <1>4 DEF QueryKnows, Extends
<1> QED BY <1>2, <1>3, <1>4, <1>5, <1>6 DEF QueryKnows

\* A step of the publishers keeps the invariant of search.
LEMMA PublishersKeepSearch ==
  ASSUME HistoryInvariant, RecordInvariant, SearchInvariant, [Next]_vars, query' = query
  PROVE  SearchInvariant'
<1>1. TypeOK /\ PublisherKnows /\ Tables /\ OutboxComplete
  BY DEF HistoryInvariant, Tables, RecordInvariant
<1>2. TypeOK'
  BY HistoryNext DEF HistoryInvariant
<1>3. SeqCountsActivations /\ QueryKnows
  BY DEF SearchInvariant
<1>4. ASSUME Grows, outbox' = outbox
      PROVE  Extends /\ SeqCountsActivations'
  <2>1. Extends
    BY <1>1, <1>2, <1>4, GrowsExtends
  <2>2. \A i \in 1 .. Len(outbox) : row'[outbox'[i]].seq = row[outbox[i]].seq
    BY <1>1, <1>4, <2>1, OutboxFacts DEF Extends
  <2>3. SeqCountsActivations'
    BY <1>3, <1>4, <2>2 DEF SeqCountsActivations
  <2> QED BY <2>1, <2>3
<1>5. ASSUME NEW p \in Publishers, Start(p) \/ Step(p) \/ Crash(p)
      PROVE  Extends /\ SeqCountsActivations'
  <2>1. CASE Activates(p)
    BY <1>3, <2>1, ActivatesExtends
  <2>2. (GoodStep(p) \/ Activates(p)) /\ (outbox' = outbox \/ Activates(p))
    BY <1>1, <1>5, PublisherSteps, RecordSteps
  <2> QED BY <1>4, <2>1, <2>2 DEF GoodStep
<1>6. ASSUME UNCHANGED vars
      PROVE  Extends /\ SeqCountsActivations'
  <2>1. outbox' = outbox /\ Grows
    BY <1>1, <1>6, StoresUnchanged DEF vars, control
  <2> QED BY <1>4, <2>1
<1>7. Extends /\ SeqCountsActivations'
  <2>1. (\E p \in Publishers : Start(p) \/ Step(p) \/ Crash(p)) \/ UNCHANGED vars
    BY DEF Next, Terminating
  <2> QED BY <1>5, <1>6, <2>1
<1> QED BY <1>1, <1>3, <1>7, ExtendsKeepsQuery DEF SearchInvariant

\* A step of the query keeps the invariant of search.
LEMMA QueryKeepsSearch ==
  ASSUME HistoryInvariant, RecordInvariant, MaterialInvariant, SearchInvariant, Query
  PROVE  SearchInvariant'
<1> DEFINE QPC == {"idle", "wiki", "lag", "filter", "answered"}
           Q == [pc : QPC, s : Opt, w : Opt, todo : SUBSET Claims, hits : SUBSET Claims,
                 disabled : BOOLEAN, since : 0 .. Len(outbox)]
<1>0. TypeOK /\ OutboxComplete /\ DerivedFromSnapshot
  BY DEF HistoryInvariant, RecordInvariant, MaterialInvariant
<1>1. /\ outbox' = outbox /\ row' = row /\ objects' = objects /\ ActivatedGens' = ActivatedGens
  BY DEF Query, vars, git, control, ActivatedGens
<1>2. SeqCountsActivations'
  BY <1>1 DEF SearchInvariant, SeqCountsActivations
<1>3. QueryKnows /\ query \in Q
  BY DEF SearchInvariant, QueryKnows
<1>4. /\ Len(outbox) \in Nat /\ None \in Opt
      /\ search \in Opt /\ pointer \in Opt
      /\ \A g \in Ids : index[g] \subseteq Claims
      /\ pointer # None => 1 <= Len(outbox) /\ outbox[Len(outbox)] = pointer
  BY <1>0, OutboxFacts DEF TypeOK, Opt
<1>5. CASE ReadSearchPointer
  <2>1. query' = [pc |-> "wiki", s |-> search, w |-> None, todo |-> {}, hits |-> {},
                  disabled |-> FALSE, since |-> Len(outbox)]
    BY <1>5 DEF ReadSearchPointer, NoQuery
  <2>2. query' \in Q
    BY <1>4, <2>1
  <2>3. query'.s # None => query'.s \in ActivatedGens
    BY <1>0, <2>1 DEF DerivedFromSnapshot
  <2> QED BY <1>1, <1>2, <2>1, <2>2, <2>3 DEF SearchInvariant, QueryKnows
<1>6. CASE ReadWikiPointer
  <2>1. /\ query.pc = "wiki"
        /\ query' = [query EXCEPT !.w = pointer,
                       !.pc = IF query.s = None \/ pointer = None THEN "answered" ELSE "lag"]
    BY <1>6 DEF ReadWikiPointer
  <2>2. query' \in Q
    BY <1>3, <1>4, <2>1
  <2>3. /\ query'.w = pointer /\ query'.s = query.s /\ query'.hits = query.hits
        /\ query'.since = query.since /\ query'.disabled = query.disabled
        /\ query'.pc = IF query.s = None \/ pointer = None THEN "answered" ELSE "lag"
    BY <1>3, <2>1
  <2>4. pointer # None => \E i \in 1 .. Len(outbox) : i >= query.since /\ outbox[i] = pointer
    <3>1. query.since \in 0 .. Len(outbox)
      BY <1>3
    <3>2. pointer # None => Len(outbox) \in 1 .. Len(outbox) /\ Len(outbox) >= query.since
      BY <1>4, <3>1
    <3> QED BY <1>4, <3>2
  <2>5. query.hits = {} /\ ~query.disabled
    BY <1>3, <2>1 DEF QueryKnows
  <2>6. query.s # None => query.s \in ActivatedGens
    BY <1>3 DEF QueryKnows
  <2> HIDE DEF Q, QPC
  <2>7. QueryKnows'
    BY <1>1, <2>2, <2>3, <2>4, <2>5, <2>6 DEF QueryKnows, Q, QPC
  <2> QED BY <1>2, <2>7 DEF SearchInvariant
<1>7. CASE CheckLag
  <2>0. query.pc = "lag"
    BY <1>7 DEF CheckLag
  <2>1. /\ query.s # None /\ query.s \in Ids /\ query.w # None /\ query.hits = {}
        /\ ~query.disabled
    BY <1>3, <2>0 DEF QueryKnows, Opt
  <2>2. CASE TooStale(query.s, query.w)
    <3>1. query' = [query EXCEPT !.pc = "answered", !.disabled = TRUE]
      BY <1>7, <2>2 DEF CheckLag
    <3>2. query' \in Q /\ query'.pc = "answered" /\ query'.disabled /\ query'.hits = {}
          /\ query'.s = query.s /\ query'.w = query.w /\ query'.since = query.since
      BY <1>3, <2>1, <3>1
    <3> QED BY <1>1, <1>2, <1>3, <2>1, <3>2 DEF SearchInvariant, QueryKnows
  <2>3. CASE ~TooStale(query.s, query.w)
    <3>1. query' = [query EXCEPT !.pc = "filter", !.todo = index[query.s]]
      BY <1>7, <2>3 DEF CheckLag
    <3>2. query' \in Q /\ query'.pc = "filter" /\ ~query'.disabled /\ query'.hits = {}
          /\ query'.s = query.s /\ query'.w = query.w /\ query'.since = query.since
      BY <1>3, <1>4, <2>1, <3>1
    <3>3. ~TooStale(query.s, query.w)'
      BY <1>1, <2>3, <3>2 DEF TooStale
    <3> QED BY <1>1, <1>2, <1>3, <2>1, <3>2, <3>3 DEF SearchInvariant, QueryKnows
  <2> QED BY <2>2, <2>3
<1>8. CASE FilterHit
  <2>0. query.pc = "filter"
    BY <1>8 DEF FilterHit
  <2>1. PICK c \in query.todo :
          query' = [query EXCEPT !.todo = @ \ {c},
                      !.hits = IF Accepted(query.w, c) THEN @ \cup {c} ELSE @]
    BY <1>8, Zenon DEF FilterHit
  <2>2. /\ query.s # None /\ query.w # None /\ query.w \in Ids /\ c \in Claims
    BY <1>3, <2>0 DEF QueryKnows, Opt
  <2>3. /\ query' \in Q /\ query'.pc = "filter" /\ query'.disabled = query.disabled
        /\ query'.s = query.s /\ query'.w = query.w /\ query'.since = query.since
        /\ query'.hits \subseteq query.hits \cup {c}
        /\ c \in query'.hits => c \in query.hits \/ Accepted(query.w, c)
    BY <1>3, <2>0, <2>1, <2>2
  <2>4. Accepted(query.w, c) => c \in ClaimsOf(objects[query.w].content)
    BY <1>0, <2>2 DEF DerivedFromSnapshot, Accepted
  <2>5. \A d \in query'.hits : d \in ClaimsOf(objects[query.w].content)
    BY <1>3, <2>3, <2>4 DEF QueryKnows
  <2>6. ~TooStale(query.s, query.w)'
    BY <1>1, <1>3, <2>0, <2>2, <2>3 DEF QueryKnows, TooStale
  <2>7. query.s \in ActivatedGens
        /\ \E i \in 1 .. Len(outbox) : i >= query.since /\ outbox[i] = query.w
    BY <1>3, <2>2 DEF QueryKnows
  <2> HIDE DEF Q
  <2>8. QueryKnows'
    BY <1>1, <2>2, <2>3, <2>5, <2>6, <2>7 DEF QueryKnows, Q
  <2> QED BY <1>2, <2>8 DEF SearchInvariant
<1>9. CASE Answer
  <2>1. query.pc = "filter" /\ query' = [query EXCEPT !.pc = "answered"]
    BY <1>9 DEF Answer
  <2>2. /\ query' \in Q /\ query'.pc = "answered" /\ query'.disabled = query.disabled
        /\ query'.s = query.s /\ query'.w = query.w /\ query'.since = query.since
        /\ query'.hits = query.hits
    BY <1>3, <2>1
  <2>3. ~TooStale(query.s, query.w)'
    BY <1>1, <1>3, <2>1, <2>2 DEF QueryKnows, TooStale
  <2> HIDE DEF Q
  <2>4. QueryKnows'
    BY <1>1, <1>3, <2>1, <2>2, <2>3 DEF QueryKnows, Q
  <2> QED BY <1>2, <2>4 DEF SearchInvariant
<1> QED BY <1>5, <1>6, <1>7, <1>8, <1>9 DEF Query

\* The answers of a query that its invariant allows.
LEMMA SearchInvariantSuffices ==
  ASSUME MaxLagAssumption, HistoryInvariant, RecordInvariant, SearchInvariant
  PROVE  SearchIsCurrent
<1>0. TypeOK /\ OutboxComplete /\ QueryKnows /\ SeqCountsActivations
  BY DEF HistoryInvariant, RecordInvariant, SearchInvariant
<1>1. HitsAreCurrent
  BY <1>0 DEF QueryKnows, HitsAreCurrent
<1>2. ASSUME query.pc = "answered", ~query.disabled, query.s # None, query.w # None
      PROVE  Position(query.w) <= Position(query.s) + MaxLag
  <2> DEFINE i == Position(query.s)
             j == Position(query.w)
  <2>1. query.s \in ActivatedGens /\ query.w \in ActivatedGens
    BY <1>0, <1>2, OutboxFacts DEF QueryKnows
  <2>2. /\ i \in 1 .. Len(outbox) /\ outbox[i] = query.s
        /\ j \in 1 .. Len(outbox) /\ outbox[j] = query.w
    BY <1>0, <2>1, OutboxFacts DEF Position
  <2>3. row[query.w].seq <= row[query.s].seq + MaxLag
    <3>1. ~TooStale(query.s, query.w)
      BY <1>0, <1>2 DEF QueryKnows
    <3> QED BY <1>0, <2>1, <3>1, OutboxFacts DEF TooStale, MaxLagAssumption
  <2>4. row[query.w].seq \in Nat /\ row[query.s].seq \in Nat /\ MaxLag \in Nat
        /\ Len(outbox) \in Nat
    BY <1>0, <2>1, OutboxFacts DEF MaxLagAssumption
  <2> HIDE DEF i, j
  <2>5. i <= j => row[query.s].seq + (j - i) <= row[query.w].seq
    BY <1>0, <2>2 DEF SeqCountsActivations
  <2>6. j <= i + MaxLag
    BY <2>2, <2>3, <2>4, <2>5
  <2> QED BY <2>6 DEF i, j
<1>3. LagIsBounded
  BY <1>2 DEF LagIsBounded
<1> QED BY <1>1, <1>3 DEF SearchIsCurrent

\* No query answers with a claim whose revocation was activated before it began,
\* and none that is not disabled answers from an index more than MaxLag
\* activations behind, however late or often any publisher materialises its
\* generation and although the query reads pointers, index and resolutions by
\* separate statements (SearchService.query).
THEOREM SearchStaysCurrent ==
  ASSUME MaxLagAssumption
  PROVE  QSpec => []SearchIsCurrent
<1> DEFINE Inv == HistoryInvariant /\ RecordInvariant /\ MaterialInvariant /\ SearchInvariant
<1>1. QInit => Inv
  <2> SUFFICES ASSUME QInit PROVE Inv
    OBVIOUS
  <2>1. Init /\ query = NoQuery
    BY DEF QInit
  <2>2. HistoryInvariant /\ RecordInvariant /\ MaterialInvariant
    BY <2>1, HistoryInit, RecordInit, MaterialInit
  <2>3. outbox = << >> /\ Len(outbox) = 0
    BY <2>1 DEF Init
  <2>4. SearchInvariant
    BY <2>1, <2>3 DEF SearchInvariant, SeqCountsActivations, QueryKnows, NoQuery, Opt, None
  <2> QED BY <2>2, <2>4
<1>2. Inv /\ [QNext]_qvars => Inv'
  <2> SUFFICES ASSUME Inv, [QNext]_qvars PROVE Inv'
    OBVIOUS
  <2>1. ([Next]_vars /\ query' = query) \/ Query
    BY DEF QNext, qvars
  <2>2. [Next]_vars
    BY <2>1 DEF Query
  <2>3. (HistoryInvariant /\ RecordInvariant /\ MaterialInvariant)'
    BY <2>2, HistoryNext, RecordNext, MaterialNext
  <2>4. SearchInvariant'
    BY <2>1, PublishersKeepSearch, QueryKeepsSearch
  <2> QED BY <2>3, <2>4
<1>3. Inv => SearchIsCurrent
  BY SearchInvariantSuffices
<1> QED BY <1>1, <1>2, <1>3, PTL DEF QSpec
=============================================================================
