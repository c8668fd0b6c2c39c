-------------------------- MODULE LifecycleProofs ---------------------------
(***************************************************************************)
(* Proofs about the encrypted lifecycle, for any processes, artifacts,     *)
(* deletions and crashes: what a committed deletion phase says of the      *)
(* content store and of the key stores is true and no recall decrypts a    *)
(* shredded artifact; the floor is honest; the registry is sound, and so   *)
(* are the Merkle proofs that recovery trusts.                             *)
(*                                                                         *)
(* PhaseIsTrue is not inductive: a call writes the phase it has counted    *)
(* itself, so the proof needs what every call in flight knows of the       *)
(* stores from its own earlier steps (CallKnows).                          *)
(***************************************************************************)
EXTENDS Lifecycle, Sequences, SequenceTheorems, NaturalsInduction,
        WellFoundedInduction, TLAPS

Deleting == {"tombstone", "advance", "destroy_platform", "destroy_recovery"}

Shredded(a) == platform[a] = "destroyed" /\ recovery[a] = "destroyed"

\* What the locals k of a call say about the stores.
CallKnows(k) ==
  /\ k.pc # "idle" => k.a \in Artifacts
  /\ k.pc \in Deleting \cup {"request"} => k.d \in Deletions /\ k.op \in {"forget", "resume"}
  /\ k.pc = "request" => k.op = "forget"
  /\ k.pc \in Deleting => k.phase \in 1 .. Complete - 1
  /\ k.pc \in {"destroy_platform", "destroy_recovery"} => k.phase = Checkpointed
  /\ k.pc \in Deleting \ {"tombstone"} /\ (k.op = "resume" \/ k.phase >= 2) =>
       k.a \in tombs
  /\ k.pc = "destroy_recovery" => platform[k.a] = "destroyed"
  /\ k.pc = "advance" /\ k.phase >= Checkpointed => Shredded(k.a)
  /\ k.pc = "tombstone" /\ k.phase >= KeysDestroyed => Shredded(k.a)

CallersKnow == \A c \in Callers : CallKnows(caller[c])

PhaseInvariant == TypeOK /\ PhaseIsTrue /\ CallersKnow

\* Every step keeps tombstones and destroyed keys.
Forward ==
  /\ stored' \subseteq Artifacts
  /\ tombs \subseteq tombs' /\ tombs' \subseteq Artifacts
  /\ platform' \in [Artifacts -> Ark] /\ recovery' \in [Artifacts -> Ark]
  /\ \A a \in Artifacts : platform[a] = "destroyed" => platform'[a] = "destroyed"
  /\ \A a \in Artifacts : recovery[a] = "destroyed" => recovery'[a] = "destroyed"
  /\ crashes' \in 0 .. MaxCrashes

\* What a call knows stays true.
LEMMA KnowledgeStays ==
  ASSUME NEW k \in Call, CallKnows(k), Forward
  PROVE  CallKnows(k)'
BY DEF CallKnows, Forward, Shredded, Deleting

\* A phase that no step wrote stays true.
LEMMA UnwrittenPhaseStays ==
  ASSUME TypeOK, PhaseIsTrue, Forward, phase' = phase
  PROVE  PhaseIsTrue'
BY DEF TypeOK, PhaseIsTrue, Forward

\* A step of one call whose new locals are k.
LEMMA OneCallStep ==
  ASSUME PhaseInvariant, Forward, NEW c \in Callers, NEW k \in Call,
         caller' = [caller EXCEPT ![c] = k], CallKnows(k)',
         phase' \in [Artifacts -> [Deletions -> 0 .. Complete]], PhaseIsTrue'
  PROVE  PhaseInvariant'
<1>1. TypeOK'
  BY DEF PhaseInvariant, TypeOK, Forward
<1>2. ASSUME NEW e \in Callers
      PROVE  CallKnows(caller[e])'
  <2>1. CASE e = c
    BY <2>1 DEF PhaseInvariant, TypeOK, CallKnows, Shredded
  <2>2. CASE e # c
    <3>1. caller[e] \in Call /\ CallKnows(caller[e]) /\ caller'[e] = caller[e]
      BY <2>2 DEF PhaseInvariant, TypeOK, CallersKnow
    <3>2. ASSUME NEW j \in Call, CallKnows(j), caller'[e] = j
          PROVE  CallKnows(caller[e])'
      BY <3>2, KnowledgeStays DEF CallKnows, Shredded
    <3> QED BY <3>1, <3>2
  <2> QED BY <2>1, <2>2
<1> QED BY <1>1, <1>2 DEF PhaseInvariant, CallersKnow

\* A step of one call that leaves the phases alone.
LEMMA QuietCallStep ==
  ASSUME PhaseInvariant, Forward, NEW c \in Callers, NEW k \in Call,
         caller' = [caller EXCEPT ![c] = k], CallKnows(k)', phase' = phase
  PROVE  PhaseInvariant'
<1>1. PhaseIsTrue'
  BY UnwrittenPhaseStays DEF PhaseInvariant
<1> QED BY <1>1, OneCallStep DEF PhaseInvariant, TypeOK

\* An idle call is of the right type and knows nothing.
LEMMA IdleKnows == Idle \in Call /\ CallKnows(Idle) /\ CallKnows(Idle)'
BY DEF Idle, Call, CallKnows, Deleting, Complete

\* A call that returns leaves the phases alone.
LEMMA ReturnStep ==
  ASSUME PhaseInvariant, Forward, NEW c \in Callers, Return(c), phase' = phase
  PROVE  PhaseInvariant'
BY IdleKnows, QuietCallStep DEF Return

\* Unchanged stores are stores that only moved forward.
LEMMA UnchangedForward ==
  ASSUME TypeOK, stored' \subseteq Artifacts, UNCHANGED <<tombs, keys>>,
         crashes' \in 0 .. MaxCrashes
  PROVE  Forward
BY DEF TypeOK, Forward, keys

\* A call begins with what its guard establishes.
LEMMA StartStep ==
  ASSUME PhaseInvariant, NEW c \in Callers, NEW a \in Artifacts, Start(c, a)
  PROVE  PhaseInvariant'
<1>0. TypeOK /\ PhaseIsTrue
  BY DEF PhaseInvariant
<1>1. Forward
  BY <1>0, UnchangedForward
     DEF Start, Remember, Snapshot, Correct, NewConsent, Forget, Resume, TypeOK, db
<1>2. CASE \/ Remember(c, a) \/ Snapshot(c, a)
           \/ \E b \in Artifacts : NewConsent(c, a, b)
           \/ \E d \in Reasons : Forget(c, a, d)
  <2>1. PICK op \in {"remember", "recall", "new_consent", "forget"},
             pc \in {"ark_platform", "blob", "accept", "request"},
             b \in Artifacts, d \in Deletions \cup {None} :
          /\ Begin(c, op, pc, b, d, 0)
          /\ pc = "request" => d \in Deletions /\ op = "forget"
          /\ phase' = phase
    BY <1>2 DEF Remember, Snapshot, NewConsent, Forget, Deletions, db
  <2> DEFINE k == [op |-> op, pc |-> pc, a |-> b, d |-> d, phase |-> 0]
  <2>2. k \in Call /\ CallKnows(k)'
    BY <2>1 DEF Call, CallKnows, Deleting, Complete
  <2> QED BY <1>1, <2>1, <2>2, QuietCallStep DEF Begin
<1>3. CASE \E b \in Artifacts : Correct(c, a, b)
  <2>1. caller' = [caller EXCEPT ![c] = caller[c]] /\ phase' = phase
    BY <1>0, <1>3 DEF Correct, TypeOK
  <2>2. caller[c] \in Call /\ CallKnows(caller[c])
    BY DEF PhaseInvariant, TypeOK, CallersKnow
  <2>3. ASSUME NEW k \in Call, CallKnows(k), caller' = [caller EXCEPT ![c] = k]
        PROVE  PhaseInvariant'
    BY <1>1, <2>1, <2>3, KnowledgeStays, QuietCallStep
  <2> QED BY <2>1, <2>2, <2>3
<1>4. CASE \E d \in Deletions : Resume(c, a, d)
  <2>1. PICK d \in Deletions : Resume(c, a, d)
    BY <1>4
  <2>2. PICK n \in 1 .. Complete - 1 : n = phase[a][d]
    BY <2>1 DEF Resume
  <2> DEFINE k == [op |-> "resume", pc |-> "tombstone", a |-> a, d |-> d, phase |-> n]
  <2>3. k \in Call
    BY DEF Call, Complete
  <2>4. n >= KeysDestroyed => Shredded(a)'
    BY <1>0, <1>1, <2>2 DEF PhaseIsTrue, Forward, Shredded
  <2>5. CallKnows(k)'
    BY <2>4 DEF CallKnows, Deleting
  <2>6. caller' = [caller EXCEPT ![c] = k] /\ phase' = phase
    BY <2>1, <2>2 DEF Resume, Begin, db
  <2> QED BY <1>1, <2>3, <2>5, <2>6, QuietCallStep
<1> QED BY <1>2, <1>3, <1>4 DEF Start

\* A step that only moves a call on, to a point where it knows enough.
LEMMA GotoStep ==
  ASSUME PhaseInvariant, Forward, phase' = phase, NEW c \in Callers, NEW pc,
         Goto(c, pc), [caller[c] EXCEPT !.pc = pc] \in Call,
         \A j \in Call : j = [caller[c] EXCEPT !.pc = pc] => CallKnows(j)'
  PROVE  PhaseInvariant'
<1>1. caller' = [caller EXCEPT ![c] = [caller[c] EXCEPT !.pc = pc]]
  BY DEF Goto
<1>2. ASSUME NEW j \in Call, j = [caller[c] EXCEPT !.pc = pc]
      PROVE  PhaseInvariant'
  BY <1>1, <1>2, QuietCallStep
<1> QED BY <1>2

\* Registering a key never revives a destroyed one.
LEMMA RegisterStep ==
  ASSUME PhaseInvariant, NEW c \in Callers,
         RegisterPlatform(c) \/ RegisterRecovery(c)
  PROVE  PhaseInvariant'
<1>0. TypeOK /\ caller[c].a \in Artifacts /\ caller[c] \in Call
  BY DEF PhaseInvariant, TypeOK, CallersKnow, CallKnows, RegisterPlatform,
         RegisterRecovery, At
<1>1. Forward /\ phase' = phase
  BY <1>0 DEF RegisterPlatform, RegisterRecovery, TypeOK, Forward, Ark, db
<1>2. CASE RegisterPlatform(c)
  <2>1. [caller[c] EXCEPT !.pc = "ark_recovery"] \in Call
    BY <1>0 DEF Call
  <2>2. ASSUME NEW j \in Call, j = [caller[c] EXCEPT !.pc = "ark_recovery"]
        PROVE  CallKnows(j)'
    <3>1. j.pc = "ark_recovery" /\ j.a \in Artifacts
      BY <1>0, <2>2 DEF Call
    <3> QED BY <3>1 DEF CallKnows, Deleting
  <2> QED BY <1>1, <1>2, <2>1, <2>2, GotoStep DEF RegisterPlatform
<1>3. CASE RegisterRecovery(c)
  BY <1>1, <1>3, ReturnStep DEF RegisterRecovery
<1> QED BY <1>2, <1>3

\* The tombstone is what a deletion needs to know before it goes on.
LEMMA TombstoneStep ==
  ASSUME PhaseInvariant, NEW c \in Callers, Tombstone(c)
  PROVE  PhaseInvariant'
<1>0. TypeOK /\ caller[c] \in Call /\ CallKnows(caller[c]) /\ caller[c].pc = "tombstone"
  BY DEF PhaseInvariant, TypeOK, CallersKnow, Tombstone, At
<1>1. caller[c].a \in Artifacts
  BY <1>0 DEF CallKnows
<1>2. Forward /\ phase' = phase /\ caller[c].a \in tombs' /\ UNCHANGED keys
  BY <1>0, <1>1 DEF Tombstone, TypeOK, Forward, db, keys
<1> DEFINE pc == IF caller[c].phase = Checkpointed THEN "destroy_platform" ELSE "advance"
<1>3. [caller[c] EXCEPT !.pc = pc] \in Call /\ Goto(c, pc)
  BY <1>0 DEF Call, Tombstone
<1>4. ASSUME NEW j \in Call, j = [caller[c] EXCEPT !.pc = pc]
      PROVE  CallKnows(j)'
  <2>1. /\ j.a = caller[c].a /\ j.d = caller[c].d /\ j.op = caller[c].op
        /\ j.phase = caller[c].phase
        /\ j.pc = IF j.phase = Checkpointed THEN "destroy_platform" ELSE "advance"
    BY <1>0, <1>4 DEF Call
  <2>2. /\ j.a \in Artifacts /\ j.d \in Deletions /\ j.op \in {"forget", "resume"}
        /\ j.phase \in 1 .. Complete - 1
        /\ j.phase >= KeysDestroyed => Shredded(j.a)'
    BY <1>0, <1>1, <1>2, <2>1 DEF CallKnows, Deleting, Shredded, keys
  <2> QED BY <1>2, <2>1, <2>2
          DEF CallKnows, Deleting, Checkpointed, KeysDestroyed, Complete
<1> QED BY <1>2, <1>3, <1>4, GotoStep

\* A key that is destroyed is known to be destroyed.
LEMMA DestroyStep ==
  ASSUME PhaseInvariant, NEW c \in Callers,
         DestroyPlatform(c) \/ DestroyRecovery(c)
  PROVE  PhaseInvariant'
<1>0. /\ TypeOK /\ caller[c] \in Call /\ CallKnows(caller[c])
      /\ caller[c].pc \in {"destroy_platform", "destroy_recovery"}
  BY DEF PhaseInvariant, TypeOK, CallersKnow, DestroyPlatform, DestroyRecovery, At
<1>1. /\ caller[c].a \in Artifacts /\ caller[c].d \in Deletions
      /\ caller[c].op \in {"forget", "resume"} /\ caller[c].phase = Checkpointed
      /\ caller[c].a \in tombs
      /\ caller[c].pc = "destroy_recovery" => platform[caller[c].a] = "destroyed"
  BY <1>0 DEF CallKnows, Deleting, Checkpointed
<1>2. Forward /\ phase' = phase /\ tombs' = tombs
  BY <1>0, <1>1 DEF DestroyPlatform, DestroyRecovery, TypeOK, Forward, Ark, db
<1>3. CASE Return(c)
  BY <1>2, <1>3, ReturnStep
<1>4. CASE DestroyPlatform(c) /\ Goto(c, "destroy_recovery")
           /\ platform' = [platform EXCEPT ![caller[c].a] = "destroyed"]
  <2>1. [caller[c] EXCEPT !.pc = "destroy_recovery"] \in Call
    BY <1>0 DEF Call
  <2>2. platform'[caller[c].a] = "destroyed"
    BY <1>0, <1>1, <1>4 DEF TypeOK
  <2>3. ASSUME NEW j \in Call, j = [caller[c] EXCEPT !.pc = "destroy_recovery"]
        PROVE  CallKnows(j)'
    <3>1. /\ j.a = caller[c].a /\ j.d = caller[c].d /\ j.op = caller[c].op
          /\ j.phase = caller[c].phase /\ j.pc = "destroy_recovery"
      BY <1>0, <2>3 DEF Call
    <3> QED BY <1>1, <1>2, <2>2, <3>1 DEF CallKnows, Deleting, Checkpointed, Complete
  <2> QED BY <1>2, <1>4, <2>1, <2>3, GotoStep
<1>5. CASE DestroyRecovery(c) /\ Goto(c, "advance")
           /\ recovery' = [recovery EXCEPT ![caller[c].a] = "destroyed"]
  <2>1. [caller[c] EXCEPT !.pc = "advance"] \in Call
    BY <1>0 DEF Call
  <2>3. ASSUME NEW j \in Call, j = [caller[c] EXCEPT !.pc = "advance"]
        PROVE  CallKnows(j)'
    <3>1. /\ j.a = caller[c].a /\ j.d = caller[c].d /\ j.op = caller[c].op
          /\ j.phase = caller[c].phase /\ j.pc = "advance"
      BY <1>0, <2>3 DEF Call
    <3>2. Shredded(j.a)'
      BY <1>1, <1>5, <1>2, <3>1 DEF Shredded, DestroyRecovery, At, TypeOK, Forward, PhaseInvariant
    <3> QED BY <1>1, <1>2, <3>1, <3>2 DEF CallKnows, Deleting, Checkpointed, Complete, KeysDestroyed
  <2> QED BY <1>2, <1>5, <2>1, <2>3, GotoStep
<1> QED BY <1>3, <1>4, <1>5 DEF DestroyPlatform, DestroyRecovery

\* A phase is written by a call that knows that it is true.
LEMMA AdvancePhaseStep ==
  ASSUME PhaseInvariant, NEW c \in Callers, AdvancePhase(c)
  PROVE  PhaseInvariant'
<1>0. /\ TypeOK /\ PhaseIsTrue /\ caller[c] \in Call /\ CallKnows(caller[c])
      /\ caller[c].pc = "advance"
  BY DEF PhaseInvariant, TypeOK, CallersKnow, AdvancePhase, At
<1>1. PICK a \in Artifacts, d \in Deletions, op \in {"forget", "resume"},
           m \in 1 .. Complete - 1 :
        a = caller[c].a /\ d = caller[c].d /\ op = caller[c].op /\ m = caller[c].phase
  BY <1>0 DEF CallKnows, Deleting
<1>2. /\ op = "resume" \/ m >= 2 => a \in tombs
      /\ m >= Checkpointed => Shredded(a)
  BY <1>0, <1>1 DEF CallKnows, Deleting
<1> DEFINE n == m + 1
<1>3. n \in 2 .. Complete
  BY DEF Complete
<1>4. phase' = [phase EXCEPT ![a][d] = n] /\ UNCHANGED <<stored, tombs, keys, crashes>>
  BY <1>1 DEF AdvancePhase
<1>5. Forward
  BY <1>0, <1>4, UnchangedForward DEF TypeOK
<1>6. phase' \in [Artifacts -> [Deletions -> 0 .. Complete]]
  BY <1>0, <1>3, <1>4 DEF TypeOK, Complete
<1>7. PhaseIsTrue'
  <2> SUFFICES ASSUME NEW b \in Artifacts, NEW e \in Deletions
               PROVE  /\ phase'[b][e] >= Tombstoned => b \in tombs'
                      /\ phase'[b][e] >= KeysDestroyed =>
                           platform'[b] = "destroyed" /\ recovery'[b] = "destroyed"
    BY DEF PhaseIsTrue
  <2>1. CASE b = a /\ e = d
    <3>1. phase'[b][e] = n
      BY <1>0, <1>4, <2>1 DEF TypeOK
    <3> QED BY <1>2, <1>3, <1>4, <2>1, <3>1
            DEF Tombstoned, KeysDestroyed, Checkpointed, Shredded, keys
  <2>2. CASE b # a \/ e # d
    <3>1. phase'[b][e] = phase[b][e]
      BY <1>0, <1>4, <2>2 DEF TypeOK
    <3> QED BY <1>0, <1>4, <3>1 DEF PhaseIsTrue, keys
  <2> QED BY <2>1, <2>2
<1>8. CASE n = Complete
  BY <1>1, <1>5, <1>6, <1>7, <1>8, IdleKnows, OneCallStep DEF AdvancePhase, Return
<1>9. CASE n # Complete
  <2>1. AfterPhase(op, n) = IF n = Tombstoned - 1 /\ op = "forget" THEN "tombstone"
                            ELSE IF n = Checkpointed THEN "destroy_platform" ELSE "advance"
    BY <1>3, <1>9 DEF AfterPhase, Tombstoned, Checkpointed, Complete
  <2>2. PICK k \in Call : k = [caller[c] EXCEPT !.phase = n, !.pc = AfterPhase(op, n)]
    <3>1. AfterPhase(op, n) \in {"tombstone", "destroy_platform", "advance"}
      BY <2>1
    <3>2. n \in 0 .. Complete
      BY <1>3 DEF Complete
    <3>3. [caller[c] EXCEPT !.phase = n, !.pc = AfterPhase(op, n)] \in Call
      BY <1>0, <3>1, <3>2 DEF Call
    <3> QED BY <3>3
  <2>3. caller' = [caller EXCEPT ![c] = k]
    BY <1>0, <1>1, <1>9, <2>2 DEF AdvancePhase, TypeOK
  <2>4. CallKnows(k)'
    <3>1. k.op = op /\ k.pc = AfterPhase(op, n) /\ k.a = a /\ k.d = d /\ k.phase = n
      BY <1>0, <1>1, <2>2 DEF Call
    <3>2. k.pc = "tombstone" => n = 2
      BY <2>1, <3>1 DEF Tombstoned
    <3>3. k.pc = "destroy_platform" => n = Checkpointed
      BY <2>1, <3>1
    <3>4. k.pc # "tombstone" /\ (op = "resume" \/ n >= 2) => a \in tombs'
      BY <1>2, <1>3, <1>4, <2>1, <3>1 DEF Tombstoned, Complete
    <3>5. k.pc = "advance" /\ n >= Checkpointed => Shredded(a)'
      BY <1>2, <1>3, <1>4, <2>1, <3>1 DEF Tombstoned, Checkpointed, Complete, Shredded, keys
    <3>6. k.pc \in {"tombstone", "destroy_platform", "advance"}
      BY <2>1, <3>1
    <3>7. n \in 1 .. Complete - 1
      BY <1>3, <1>9 DEF Complete
    <3> HIDE DEF n
    <3> QED BY <3>1, <3>2, <3>3, <3>4, <3>5, <3>6, <3>7
            DEF CallKnows, Deleting, KeysDestroyed
  <2> QED BY <1>5, <1>6, <1>7, <2>3, <2>4, OneCallStep
<1> QED BY <1>8, <1>9

\* A deletion begins in the phase that claims nothing.
LEMMA FirstPhase ==
  ASSUME PhaseInvariant, Forward, NEW a \in Artifacts, NEW d \in Deletions,
         phase' = [phase EXCEPT ![a][d] = 1]
  PROVE  PhaseIsTrue' /\ phase' \in [Artifacts -> [Deletions -> 0 .. Complete]]
<1>1. phase' \in [Artifacts -> [Deletions -> 0 .. Complete]]
  BY DEF PhaseInvariant, TypeOK, Complete
<1>2. ASSUME NEW b \in Artifacts, NEW e \in Deletions
      PROVE  phase'[b][e] = phase[b][e] \/ phase'[b][e] = 1
  BY DEF PhaseInvariant, TypeOK
<1>3. PhaseIsTrue'
  BY <1>2 DEF PhaseInvariant, PhaseIsTrue, Forward, Tombstoned, KeysDestroyed
<1> QED BY <1>1, <1>3

\* The transaction of forget.
LEMMA RequestStep ==
  ASSUME PhaseInvariant, NEW c \in Callers, Request(c)
  PROVE  PhaseInvariant'
<1>0. /\ TypeOK /\ caller[c] \in Call /\ CallKnows(caller[c]) /\ caller[c].pc = "request"
  BY DEF PhaseInvariant, TypeOK, CallersKnow, Request, At
<1>1. PICK a \in Artifacts, d \in Deletions :
        a = caller[c].a /\ d = caller[c].d /\ caller[c].op = "forget"
  BY <1>0 DEF CallKnows
<1>2. Forward
  BY <1>0, UnchangedForward DEF Request, TypeOK
<1>3. CASE Return(c) /\ phase' = phase
  BY <1>2, <1>3, ReturnStep
<1>4. CASE /\ phase' = [phase EXCEPT ![a][d] = 1]
           /\ caller' = [caller EXCEPT ![c].pc = "advance", ![c].phase = 1]
  <2>1. PICK k \in Call : k = [caller[c] EXCEPT !.pc = "advance", !.phase = 1]
    <3>1. 1 \in 0 .. Complete
      BY DEF Complete
    <3>2. [caller[c] EXCEPT !.pc = "advance", !.phase = 1] \in Call
      BY <1>0, <3>1 DEF Call
    <3> QED BY <3>2
  <2>2. caller' = [caller EXCEPT ![c] = k]
    BY <1>0, <1>4, <2>1 DEF TypeOK
  <2>3. k.op = "forget" /\ k.pc = "advance" /\ k.a = a /\ k.d = d /\ k.phase = 1
    BY <1>0, <1>1, <2>1 DEF Call
  <2>4. CallKnows(k)'
    BY <2>3 DEF CallKnows, Deleting, Checkpointed, KeysDestroyed, Complete
  <2> QED BY <1>2, <1>4, <2>2, <2>4, FirstPhase, OneCallStep
<1> QED BY <1>1, <1>3, <1>4 DEF Request

\* Recalls, accepted consents and crashes change none of the stores that the
\* phases speak of.
LEMMA OtherStep ==
  ASSUME PhaseInvariant, NEW c \in Callers,
         \/ AcceptConsent(c) \/ ReadBlob(c) \/ Decrypt(c) \/ KeyUnavailable(c)
         \/ Crash(c)
  PROVE  PhaseInvariant'
<1>0. /\ TypeOK /\ caller[c] \in Call /\ CallKnows(caller[c])
      /\ ~At(c, "idle") => caller[c].a \in Artifacts
  BY DEF PhaseInvariant, TypeOK, CallersKnow, CallKnows, At
<1>1. Forward /\ phase' = phase
  <2>1. /\ stored' \subseteq Artifacts /\ UNCHANGED <<tombs, keys, phase>>
        /\ crashes' \in 0 .. MaxCrashes
    BY <1>0, LifecycleAssumption
       DEF AcceptConsent, ReadBlob, Decrypt, KeyUnavailable, Crash, TypeOK, At, db
  <2> QED BY <1>0, <2>1, UnchangedForward
<1>2. CASE Return(c)
  BY <1>1, <1>2, ReturnStep
<1>3. CASE Goto(c, "dek") /\ At(c, "blob")
  <2>1. [caller[c] EXCEPT !.pc = "dek"] \in Call
    BY <1>0 DEF Call
  <2>2. ASSUME NEW j \in Call, j = [caller[c] EXCEPT !.pc = "dek"]
        PROVE  CallKnows(j)'
    <3>1. j.pc = "dek" /\ j.a \in Artifacts
      BY <1>0, <1>3, <2>2 DEF Call, At
    <3> QED BY <3>1 DEF CallKnows, Deleting
  <2> QED BY <1>1, <1>3, <2>1, <2>2, GotoStep
<1> QED BY <1>2, <1>3 DEF AcceptConsent, ReadBlob, Decrypt, KeyUnavailable, Crash

\* A deletion requested by a source.
LEMMA SourceStep ==
  ASSUME PhaseInvariant, NEW a \in Artifacts, MapSourceDeletion(a)
  PROVE  PhaseInvariant'
<1>1. TypeOK /\ Source \in Deletions
  BY DEF PhaseInvariant, Deletions
<1>2. Forward /\ caller' = caller
  BY <1>1, UnchangedForward DEF MapSourceDeletion, TypeOK
<1>3. PhaseIsTrue' /\ phase' \in [Artifacts -> [Deletions -> 0 .. Complete]]
  BY <1>1, <1>2, FirstPhase DEF MapSourceDeletion
<1>4. TypeOK'
  BY <1>1, <1>2, <1>3 DEF TypeOK, Forward
<1>5. ASSUME NEW c \in Callers
      PROVE  CallKnows(caller[c])'
  <2>1. caller[c] \in Call /\ CallKnows(caller[c]) /\ caller'[c] = caller[c]
    BY <1>1, <1>2 DEF PhaseInvariant, TypeOK, CallersKnow
  <2>2. ASSUME NEW j \in Call, CallKnows(j), caller'[c] = j
        PROVE  CallKnows(caller[c])'
    BY <1>2, <2>2, KnowledgeStays DEF CallKnows, Shredded
  <2> QED BY <2>1, <2>2
<1> QED BY <1>3, <1>4, <1>5 DEF PhaseInvariant, CallersKnow

\* The inductive invariant of the deletion machine (forget, resume_deletion):
\* types, the truth of the committed phases, and what calls in flight know.
THEOREM PhaseInvariantHolds == Spec => []PhaseInvariant
<1>1. Init => PhaseInvariant
  <2> SUFFICES ASSUME Init PROVE PhaseInvariant
    OBVIOUS
  <2>1. TypeOK
    BY IdleKnows, LifecycleAssumption DEF Init, TypeOK, Ark, Complete
  <2>2. PhaseIsTrue
    BY DEF Init, PhaseIsTrue, Tombstoned, KeysDestroyed
  <2>3. CallersKnow
    BY IdleKnows DEF Init, CallersKnow
  <2> QED BY <2>1, <2>2, <2>3 DEF PhaseInvariant
<1>2. PhaseInvariant /\ [Next]_vars => PhaseInvariant'
  <2> SUFFICES ASSUME PhaseInvariant, [Next]_vars PROVE PhaseInvariant'
    OBVIOUS
  <2>1. CASE \E c \in Callers : Step(c) \/ Crash(c)
    BY <2>1, RegisterStep, TombstoneStep, DestroyStep, AdvancePhaseStep, RequestStep,
       OtherStep DEF Step
  <2>2. CASE \E c \in Callers, a \in Artifacts : Start(c, a)
    BY <2>2, StartStep
  <2>3. CASE \E a \in Artifacts : MapSourceDeletion(a)
    BY <2>3, SourceStep
  <2>4. CASE UNCHANGED vars
    BY <2>4 DEF vars, db, keys, PhaseInvariant, TypeOK, PhaseIsTrue, CallersKnow,
                CallKnows, Shredded
  <2> QED BY <2>1, <2>2, <2>3, <2>4 DEF Next
<1> QED BY <1>1, <1>2, PTL DEF Spec

\* The stores, the phases and the calls keep their types.
THEOREM LifecycleTypeCorrect == Spec => []TypeOK
BY PhaseInvariantHolds, PTL DEF PhaseInvariant

\* The phase committed by forget and resume_deletion is true of the content
\* store and of both key stores, with any number of concurrent and
\* interrupted calls.
THEOREM CommittedPhaseIsTrue == Spec => []PhaseIsTrue
BY PhaseInvariantHolds, PTL DEF PhaseInvariant

\* _decrypt_cas_blob gets no key once a deletion has committed
\* REVOCATION_KEYS_DESTROYED.
THEOREM ShreddedIsUnreadable == Spec => NoPlaintextAfterShred
<1>1. ASSUME PhaseInvariant, NEW c \in Callers, Decrypt(c), NEW d \in Deletions
      PROVE  phase[caller[c].a][d] < KeysDestroyed
  <2>1. caller[c].a \in Artifacts /\ platform[caller[c].a] = "live"
    BY <1>1 DEF PhaseInvariant, CallersKnow, CallKnows, Decrypt, At
  <2>2. phase[caller[c].a][d] \in 0 .. Complete
    BY <1>1, <2>1 DEF PhaseInvariant, TypeOK
  <2> QED BY <1>1, <2>1, <2>2 DEF PhaseInvariant, PhaseIsTrue, KeysDestroyed, Complete
<1>2. PhaseInvariant =>
        \A c \in Callers : Decrypt(c) =>
          \A d \in Deletions : phase[caller[c].a][d] < KeysDestroyed
  BY <1>1
<1> QED BY <1>2, PhaseInvariantHolds, PTL DEF NoPlaintextAfterShred

-----------------------------------------------------------------------------
(* LifecycleFloor: calls.                                                  *)

\* A call that does not run has its type.
LEMMA FloorIdle ==
  ASSUME Floor!FloorAssumption
  PROVE  Floor!NoFloor \in Floor!Row /\ Floor!Idle \in Floor!Call
<1>1. Floor!NoFloor \in Floor!Row
  BY DEF Floor!NoFloor, Floor!Row, Floor!FloorAssumption
<1> QED BY <1>1 DEF Floor!Idle, Floor!Call

\* One call moves, and the others do not.
FloorCallStep(c) ==
  /\ floorCaller' = [floorCaller EXCEPT ![c] = floorCaller'[c]]
  /\ floorCaller'[c] \in Floor!Call

\* The step of a call that keeps its own record and takes no event away keeps
\* every call's.
LEMMA FloorCallsRecorded ==
  ASSUME Floor!FloorInvariant, log \subseteq log',
         NEW c \in Callers, FloorCallStep(c), Floor!CallIsRecorded(c)'
  PROVE  floorCaller' \in [Callers -> Floor!Call] /\ \A d \in Callers : Floor!CallIsRecorded(d)'
<1>1. floorCaller \in [Callers -> Floor!Call]
  BY DEF Floor!FloorInvariant, Floor!FloorIsHonest, Floor!TypeOK
<1>2. floorCaller' \in [Callers -> Floor!Call] /\ \A d \in Callers \ {c} : floorCaller'[d] = floorCaller[d]
  BY <1>1 DEF FloorCallStep
<1>3. ASSUME NEW d \in Callers \ {c} PROVE Floor!CallIsRecorded(d)'
  BY <1>2, <1>3 DEF Floor!FloorInvariant, Floor!CallIsRecorded
<1> QED BY <1>2, <1>3

\* No call moves.
LEMMA FloorCallsKept ==
  ASSUME Floor!FloorInvariant, log \subseteq log', UNCHANGED floorCaller
  PROVE  floorCaller' \in [Callers -> Floor!Call] /\ \A d \in Callers : Floor!CallIsRecorded(d)'
<1>1. floorCaller' \in [Callers -> Floor!Call]
  BY DEF Floor!FloorInvariant, Floor!FloorIsHonest, Floor!TypeOK
<1>2. ASSUME NEW d \in Callers PROVE Floor!CallIsRecorded(d)'
  BY DEF Floor!FloorInvariant, Floor!CallIsRecorded
<1> QED BY <1>1, <1>2

\* A call that returns or is given up.
LEMMA FloorReturn ==
  ASSUME Floor!FloorAssumption, Floor!FloorInvariant, log \subseteq log',
         NEW c \in Callers, Floor!Return(c)
  PROVE  floorCaller' \in [Callers -> Floor!Call] /\ \A d \in Callers : Floor!CallIsRecorded(d)'
<1>1. floorCaller' = [floorCaller EXCEPT ![c] = floorCaller'[c]] /\ floorCaller'[c] = Floor!Idle
  BY DEF Floor!Return, Floor!FloorInvariant, Floor!FloorIsHonest, Floor!TypeOK
<1>2. FloorCallStep(c)
  BY <1>1, FloorIdle DEF FloorCallStep
<1>3. Floor!CallIsRecorded(c)'
  BY <1>1 DEF Floor!Idle, Floor!CallIsRecorded
<1> QED BY <1>2, <1>3, FloorCallsRecorded

\* A call that goes on to another label with the locals it has.
LEMMA FloorGoto ==
  ASSUME Floor!FloorInvariant, log \subseteq log', NEW c \in Callers,
         NEW pc \in {"readback", "bootstrap", "activate"}, Floor!Goto(c, pc),
         pc = "readback" => floorCaller[c].pc = "prepare",
         pc # "readback" => floorCaller[c].pc \in {"gate", "bootstrap"}
  PROVE  floorCaller' \in [Callers -> Floor!Call] /\ \A d \in Callers : Floor!CallIsRecorded(d)'
<1>0. floorCaller \in [Callers -> Floor!Call] /\ floorCaller[c] \in Floor!Call
  BY DEF Floor!FloorInvariant, Floor!FloorIsHonest, Floor!TypeOK
<1>1. floorCaller' = [floorCaller EXCEPT ![c] = floorCaller'[c]] /\ floorCaller'[c] = [floorCaller[c] EXCEPT !.pc = pc]
  BY <1>0 DEF Floor!Goto
<1>2. /\ floorCaller'[c] \in Floor!Call /\ floorCaller'[c].pc = pc /\ floorCaller'[c].a = floorCaller[c].a
      /\ floorCaller'[c].row = floorCaller[c].row /\ floorCaller'[c].new = floorCaller[c].new
      /\ floorCaller'[c].t = floorCaller[c].t
  BY <1>0, <1>1 DEF Floor!Call
<1>3. Floor!CallIsRecorded(c)
  BY DEF Floor!FloorInvariant
<1>4. Floor!CallIsRecorded(c)'
  BY <1>2, <1>3 DEF Floor!CallIsRecorded
<1> QED BY <1>1, <1>2, <1>4, FloorCallsRecorded DEF FloorCallStep
-----------------------------------------------------------------------------
(* LifecycleFloor: every step keeps the invariant.                         *)

\* What FloorIsHonest says of the rows and of the log.
FloorRowsHonest ==
  /\ floor \in Floor!Row
  /\ gate \in {"none", "CLEAR", "FRESH_CHALLENGE_REQUIRED"}
  /\ tried \subseteq Attempts
  /\ Floor!QuarantineWithholds
  /\ floor.ck \in Floors => <<"FLOOR_STABILIZED", floor.ck>> \in log
  /\ floor.st = Floor!Quarantined => \E t \in Attempts : <<"FLOOR_QUARANTINED", t>> \in log

\* What it says of the artifacts and of the log.
FloorArtifactsHonest ==
  /\ custody \in [FloorArtifacts -> {"none", "PREPARED", "APPROVED", "ACTIVE"}]
  /\ deleted \subseteq {a \in FloorArtifacts : custody[a] # "none"}
  /\ \A a \in FloorArtifacts :
       /\ custody[a] = "ACTIVE" => <<"ARTIFACT_ACTIVATED", a>> \in log
       /\ custody[a] = "APPROVED" => <<"APPROVED", a>> \in log
       /\ a \in deleted => <<"FORGET_REQUESTED", a>> \in log

\* The invariant in its three parts.
LEMMA FloorParts ==
  Floor!FloorInvariant <=>
    /\ FloorRowsHonest /\ FloorArtifactsHonest
    /\ floorCaller \in [Callers -> Floor!Call]
    /\ \A c \in Callers : Floor!CallIsRecorded(c)
BY DEF Floor!FloorInvariant, Floor!FloorIsHonest, Floor!TypeOK, Floor!EventsComplete,
       FloorRowsHonest, FloorArtifactsHonest

\* The same in the next state.
LEMMA FloorPartsNext ==
  ASSUME FloorRowsHonest', FloorArtifactsHonest', floorCaller' \in [Callers -> Floor!Call],
         \A c \in Callers : Floor!CallIsRecorded(c)'
  PROVE  Floor!FloorInvariant'
BY DEF Floor!FloorInvariant, Floor!FloorIsHonest, Floor!TypeOK, Floor!EventsComplete,
       FloorRowsHonest, FloorArtifactsHonest

\* Rows that do not change stay honest while the log grows.
LEMMA FloorRowsKept ==
  ASSUME FloorRowsHonest, log \subseteq log', UNCHANGED <<floor, gate, tried>>
  PROVE  FloorRowsHonest'
BY DEF FloorRowsHonest, Floor!QuarantineWithholds, Floor!AllowsServing

\* So do the artifacts.
LEMMA FloorArtifactsKept ==
  ASSUME FloorArtifactsHonest, log \subseteq log', UNCHANGED <<custody, deleted>>
  PROVE  FloorArtifactsHonest'
BY DEF FloorArtifactsHonest

\* A custody state that is written with its event.
LEMMA FloorCustody ==
  ASSUME FloorArtifactsHonest, log \subseteq log', UNCHANGED deleted, NEW a \in FloorArtifacts,
         NEW s \in {"PREPARED", "APPROVED", "ACTIVE"}, Floor!SetCustody(a, s),
         s = "APPROVED" => <<"APPROVED", a>> \in log',
         s = "ACTIVE" => <<"ARTIFACT_ACTIVATED", a>> \in log'
  PROVE  FloorArtifactsHonest'
<1>1. /\ custody' \in [FloorArtifacts -> {"none", "PREPARED", "APPROVED", "ACTIVE"}]
      /\ custody'[a] = s /\ \A b \in FloorArtifacts \ {a} : custody'[b] = custody[b]
  BY DEF Floor!SetCustody, FloorArtifactsHonest
<1> QED BY <1>1 DEF FloorArtifactsHonest

\* An artifact is added, put under deletion or reviewed.
LEMMA FloorReview ==
  ASSUME Floor!FloorInvariant, Floor!Review
  PROVE  Floor!FloorInvariant'
<1>0. FloorRowsHonest /\ FloorArtifactsHonest
  BY FloorParts
<1>1. PICK a \in FloorArtifacts :
        \/ Floor!AddArtifact(a) \/ Floor!RequestDeletion(a)
        \/ \E v \in {"APPROVED", "REJECTED"} : Floor!ReviewCandidate(a, v)
  BY DEF Floor!Review
<1>2. log \subseteq log' /\ UNCHANGED <<floor, gate, tried, floorCaller>>
  BY <1>1 DEF Floor!AddArtifact, Floor!RequestDeletion, Floor!ReviewCandidate,
              Floor!AppendEvent
<1>3. FloorArtifactsHonest'
  <2>1. CASE Floor!AddArtifact(a)
    BY <1>0, <1>2, <2>1, FloorCustody DEF Floor!AddArtifact
  <2>2. CASE Floor!RequestDeletion(a)
    BY <1>0, <1>2, <2>2 DEF Floor!RequestDeletion, Floor!AppendEvent, FloorArtifactsHonest
  <2>3. ASSUME NEW v \in {"APPROVED", "REJECTED"}, Floor!ReviewCandidate(a, v)
        PROVE  FloorArtifactsHonest'
    <3>1. <<v, a>> \in log' /\ UNCHANGED deleted
      BY <2>3 DEF Floor!ReviewCandidate, Floor!AppendEvent
    <3>2. CASE v = "APPROVED"
      BY <1>0, <1>2, <2>3, <3>1, <3>2, FloorCustody DEF Floor!ReviewCandidate
    <3>3. CASE v # "APPROVED"
      BY <1>0, <1>2, <2>3, <3>1, <3>3, FloorArtifactsKept DEF Floor!ReviewCandidate
    <3> QED BY <3>2, <3>3
  <2> QED BY <1>1, <2>1, <2>2, <2>3
<1> QED BY <1>0, <1>2, <1>3, FloorRowsKept, FloorCallsKept, FloorPartsNext

\* The genesis rows serve, whatever was there before.
LEMMA FloorGenesis ==
  ASSUME Floor!FloorAssumption, FloorRowsHonest, Floor!GenesisRows, log \subseteq log',
         UNCHANGED tried
  PROVE  FloorRowsHonest'
<1>1. /\ floor' = [gen |-> 1, ck |-> Genesis, st |-> Floor!Stable]
      /\ gate' = "CLEAR"
  BY DEF Floor!GenesisRows, Floor!WriteFloor, Floor!WriteGate
<1>2. floor' \in Floor!Row /\ floor'.st = Floor!Stable /\ floor'.ck = Genesis
  BY <1>1 DEF Floor!Row, Floor!FloorAssumption
<1> QED BY <1>1, <1>2 DEF FloorRowsHonest, Floor!QuarantineWithholds, Floor!AllowsServing,
                Floor!Stable, Floor!Quarantined, Floor!FloorAssumption

\* An update of the floor: the row it read may be old, and its checkpoint is
\* recorded all the same.
LEMMA FloorAdvance ==
  ASSUME Floor!FloorAssumption, Floor!FloorInvariant, NEW c \in Callers, Floor!Advance(c)
  PROVE  Floor!FloorInvariant'
<1>0. /\ FloorRowsHonest /\ FloorArtifactsHonest
      /\ floorCaller \in [Callers -> Floor!Call] /\ floorCaller[c] \in Floor!Call
      /\ Floor!CallIsRecorded(c) /\ floorCaller[c].row \in Floor!Row
  BY FloorParts DEF Floor!Call
<1> DEFINE row == floorCaller[c].row
<1>r. row.gen \in 0 .. MaxGen /\ row.ck \in Floors \cup {Genesis, None}
  BY <1>0 DEF Floor!Row
<1>1. ASSUME NEW t \in Attempts, NEW new \in Floors, NEW back \in Floors,
             Floor!AdvanceFloor(c, t, new, back)
      PROVE  Floor!FloorInvariant'
  <2>1. /\ floorCaller' = [floorCaller EXCEPT ![c] = floorCaller'[c]]
        /\ floorCaller'[c] = [floorCaller[c] EXCEPT !.pc = "prepare", !.row = floor, !.t = t,
                                          !.new = new, !.back = back]
        /\ floor.st = Floor!Stable /\ floor.gen < MaxGen
        /\ UNCHANGED <<floor, gate, tried, custody, deleted, log>>
    BY <1>0, <1>1 DEF Floor!AdvanceFloor, Floor!artifacts
  <2>2. floor \in Floor!Row
    BY <1>0 DEF FloorRowsHonest
  <2>3. /\ floorCaller'[c] \in Floor!Call /\ floorCaller'[c].pc = "prepare" /\ floorCaller'[c].row = floor
        /\ floorCaller'[c].t = t /\ floorCaller'[c].new = new
    BY <1>0, <2>1, <2>2 DEF Floor!Call
  <2>4. Floor!CallIsRecorded(c)'
    BY <1>0, <2>1, <2>3 DEF Floor!CallIsRecorded, FloorRowsHonest
  <2>5. floorCaller' \in [Callers -> Floor!Call] /\ \A d \in Callers : Floor!CallIsRecorded(d)'
    BY <2>1, <2>3, <2>4, FloorCallsRecorded DEF FloorCallStep
  <2> QED BY <1>0, <2>1, <2>5, FloorRowsKept, FloorArtifactsKept, FloorPartsNext
<1>2. CASE Floor!PrepareFloor(c)
  <2>1. /\ floorCaller[c].pc = "prepare" /\ row.st = Floor!Stable
        /\ UNCHANGED <<gate, custody, deleted, log>>
    BY <1>0, <1>2 DEF Floor!PrepareFloor, Floor!At, Floor!artifacts, Floor!CallIsRecorded
  <2>2. CASE floorCaller[c].t \in tried
    <3>1. Floor!Return(c) /\ UNCHANGED <<floor, tried>>
      BY <1>2, <2>2 DEF Floor!PrepareFloor
    <3> QED BY <1>0, <2>1, <3>1, FloorReturn, FloorRowsKept, FloorArtifactsKept,
               FloorPartsNext
  <2>3. CASE floorCaller[c].t \notin tried
    <3>1. /\ tried' = tried \cup {floorCaller[c].t} /\ Floor!Goto(c, "readback")
          /\ floor' = [gen |-> row.gen, ck |-> row.ck, st |-> Floor!Prepared]
      BY <1>2, <2>3 DEF Floor!PrepareFloor, Floor!WriteFloor
    <3>2. floor' \in Floor!Row /\ floor'.st = Floor!Prepared /\ floor'.ck = row.ck
      BY <1>r, <3>1 DEF Floor!Row
    <3>3. /\ floorCaller[c].t \in Attempts
          /\ row.ck \in Floors => <<"FLOOR_STABILIZED", row.ck>> \in log
      BY <1>0, <2>1 DEF Floor!CallIsRecorded
    <3>4. FloorRowsHonest'
      BY <1>0, <2>1, <3>1, <3>2, <3>3 DEF FloorRowsHonest, Floor!QuarantineWithholds,
         Floor!AllowsServing, Floor!Prepared, Floor!Quarantined, Floor!Stable
    <3> QED BY <1>0, <2>1, <3>1, <3>4, FloorGoto, FloorArtifactsKept, FloorPartsNext
  <2> QED BY <2>2, <2>3
<1>3. CASE Floor!CommitFloor(c)
  <2> DEFINE new == floorCaller[c].new
  <2>1. /\ floorCaller[c].pc = "readback" /\ Floor!Return(c) /\ gate' = "CLEAR"
        /\ floor' = [gen |-> row.gen + 1, ck |-> new, st |-> Floor!Stable]
        /\ log' = log \cup {<<"FLOOR_STABILIZED", new>>}
        /\ UNCHANGED <<tried, custody, deleted>>
    BY <1>3 DEF Floor!CommitFloor, Floor!At, Floor!artifacts, Floor!WriteFloor,
                Floor!WriteGate, Floor!AppendEvent
  <2>2. new \in Floors /\ row.gen < MaxGen
    BY <1>0, <2>1 DEF Floor!CallIsRecorded
  <2>3. row.gen + 1 \in 0 .. MaxGen
    BY <1>r, <2>2 DEF Floor!FloorAssumption
  <2>4. floor' \in Floor!Row /\ floor'.st = Floor!Stable /\ floor'.ck = new
    BY <2>1, <2>2, <2>3 DEF Floor!Row
  <2>5. FloorRowsHonest'
    BY <1>0, <2>1, <2>4 DEF FloorRowsHonest, Floor!QuarantineWithholds,
       Floor!AllowsServing, Floor!Quarantined, Floor!Stable
  <2> QED BY <1>0, <2>1, <2>5, FloorReturn, FloorArtifactsKept, FloorPartsNext
<1>4. CASE Floor!QuarantineFloor(c)
  <2>1. /\ floorCaller[c].pc = "readback" /\ Floor!Return(c)
        /\ gate' = "FRESH_CHALLENGE_REQUIRED"
        /\ floor' = [gen |-> row.gen, ck |-> row.ck, st |-> Floor!Quarantined]
        /\ log' = log \cup {<<"FLOOR_QUARANTINED", floorCaller[c].t>>}
        /\ UNCHANGED <<tried, custody, deleted>>
    BY <1>4 DEF Floor!QuarantineFloor, Floor!At, Floor!artifacts, Floor!WriteFloor,
                Floor!WriteGate, Floor!AppendEvent
  <2>2. /\ floorCaller[c].t \in Attempts
        /\ row.ck \in Floors => <<"FLOOR_STABILIZED", row.ck>> \in log
    BY <1>0, <2>1 DEF Floor!CallIsRecorded
  <2>3. floor' \in Floor!Row /\ floor'.ck = row.ck
    BY <1>r, <2>1 DEF Floor!Row
  <2>4. FloorRowsHonest'
    BY <1>0, <2>1, <2>2, <2>3 DEF FloorRowsHonest, Floor!QuarantineWithholds,
       Floor!AllowsServing
  <2> QED BY <1>0, <2>1, <2>4, FloorReturn, FloorArtifactsKept, FloorPartsNext
<1> QED BY <1>1, <1>2, <1>3, <1>4 DEF Floor!Advance

\* An activation: it reads the veto and the gate in transactions of their own,
\* and the event goes with the state it writes.
LEMMA FloorActivation ==
  ASSUME Floor!FloorAssumption, Floor!FloorInvariant, NEW c \in Callers, Floor!Activation(c)
  PROVE  Floor!FloorInvariant'
<1>0. /\ FloorRowsHonest /\ FloorArtifactsHonest
      /\ floorCaller \in [Callers -> Floor!Call] /\ floorCaller[c] \in Floor!Call
      /\ Floor!CallIsRecorded(c)
  BY FloorParts
<1>1. ASSUME NEW a \in FloorArtifacts, Floor!Activate(c, a)
      PROVE  Floor!FloorInvariant'
  <2>1. /\ floorCaller' = [floorCaller EXCEPT ![c] = floorCaller'[c]]
        /\ floorCaller'[c] = [floorCaller[c] EXCEPT !.pc = "gate", !.a = a]
        /\ UNCHANGED <<floor, gate, tried, custody, deleted, log>>
    BY <1>0, <1>1 DEF Floor!Activate, Floor!artifacts
  <2>2. floorCaller'[c] \in Floor!Call /\ floorCaller'[c].pc = "gate" /\ floorCaller'[c].a = a
    BY <1>0, <2>1 DEF Floor!Call
  <2>3. Floor!CallIsRecorded(c)'
    BY <2>2 DEF Floor!CallIsRecorded
  <2>4. floorCaller' \in [Callers -> Floor!Call] /\ \A d \in Callers : Floor!CallIsRecorded(d)'
    BY <2>1, <2>2, <2>3, FloorCallsRecorded DEF FloorCallStep
  <2> QED BY <1>0, <2>1, <2>4, FloorRowsKept, FloorArtifactsKept, FloorPartsNext
<1>2. CASE Floor!ReadGate(c)
  <2>1. /\ floorCaller[c].pc = "gate" /\ UNCHANGED <<floor, gate, tried, custody, deleted, log>>
        /\ Floor!Goto(c, "bootstrap") \/ Floor!Goto(c, "activate") \/ Floor!Return(c)
    BY <1>2 DEF Floor!ReadGate, Floor!At, Floor!artifacts
  <2>2. floorCaller' \in [Callers -> Floor!Call] /\ \A d \in Callers : Floor!CallIsRecorded(d)'
    BY <2>1, FloorGoto, FloorReturn
  <2> QED BY <1>0, <2>1, <2>2, FloorRowsKept, FloorArtifactsKept, FloorPartsNext
<1>3. CASE Floor!LazyBootstrap(c)
  <2>1. /\ floorCaller[c].pc = "bootstrap" /\ Floor!GenesisRows /\ Floor!Goto(c, "activate")
        /\ UNCHANGED <<tried, custody, deleted, log>>
    BY <1>3 DEF Floor!LazyBootstrap, Floor!At, Floor!artifacts
  <2> QED BY <1>0, <2>1, FloorGenesis, FloorGoto, FloorArtifactsKept, FloorPartsNext
<1>4. CASE Floor!ActivateArtifact(c)
  <2> DEFINE a == floorCaller[c].a
  <2>1. /\ floorCaller[c].pc = "activate" /\ Floor!Return(c)
        /\ UNCHANGED <<floor, gate, tried, deleted>>
        /\ \/ Floor!SetCustody(a, "ACTIVE") /\ log' = log \cup {<<"ARTIFACT_ACTIVATED", a>>}
           \/ UNCHANGED <<custody, log>>
    BY <1>4 DEF Floor!ActivateArtifact, Floor!At, Floor!AppendEvent
  <2>2. a \in FloorArtifacts
    BY <1>0, <2>1 DEF Floor!CallIsRecorded
  <2>3. log \subseteq log'
    BY <2>1
  <2>4. FloorArtifactsHonest'
    BY <1>0, <2>1, <2>2, <2>3, FloorCustody, FloorArtifactsKept
  <2> QED BY <1>0, <2>1, <2>3, <2>4, FloorReturn, FloorRowsKept, FloorPartsNext
<1> QED BY <1>1, <1>2, <1>3, <1>4 DEF Floor!Activation

\* Nothing is served while the floor is quarantined, and no artifact or floor
\* changed without the event that says so, however updates of the floor,
\* activations, bootstraps and crashes interleave (advance_floor,
\* bootstrap_workspace, activate_artifact, review_candidate).
THEOREM FloorStaysHonest ==
  ASSUME Floor!FloorAssumption
  PROVE  Floor!Spec => []FloorIsHonest
<1>1. Floor!Init => Floor!FloorInvariant
  <2> SUFFICES ASSUME Floor!Init PROVE Floor!FloorInvariant
    OBVIOUS
  <2>1. FloorRowsHonest
    BY FloorIdle DEF Floor!Init, Floor!NoFloor, FloorRowsHonest, Floor!QuarantineWithholds,
       Floor!AllowsServing, Floor!Quarantined, Floor!FloorAssumption
  <2>2. FloorArtifactsHonest
    BY DEF Floor!Init, FloorArtifactsHonest
  <2>3. floorCaller \in [Callers -> Floor!Call] /\ \A c \in Callers : floorCaller[c] = Floor!Idle
    BY FloorIdle DEF Floor!Init
  <2>4. \A c \in Callers : Floor!CallIsRecorded(c)
    BY <2>3 DEF Floor!CallIsRecorded, Floor!Idle
  <2> QED BY <2>1, <2>2, <2>3, <2>4, FloorParts
<1>2. Floor!FloorInvariant /\ [Floor!Next]_Floor!vars => Floor!FloorInvariant'
  <2> SUFFICES ASSUME Floor!FloorInvariant, [Floor!Next]_Floor!vars
               PROVE  Floor!FloorInvariant'
    OBVIOUS
  <2>0. FloorRowsHonest /\ FloorArtifactsHonest
    BY FloorParts
  <2>1. CASE Floor!Review
    BY <2>1, FloorReview
  <2>2. CASE Floor!BootstrapWorkspace
    <3>1. Floor!GenesisRows /\ UNCHANGED <<tried, custody, deleted, log, floorCaller>>
      BY <2>2 DEF Floor!BootstrapWorkspace, Floor!artifacts
    <3> QED BY <2>0, <3>1, FloorGenesis, FloorArtifactsKept, FloorCallsKept, FloorPartsNext
  <2>3. ASSUME NEW c \in Callers, Floor!Advance(c) PROVE Floor!FloorInvariant'
    BY <2>3, FloorAdvance
  <2>4. ASSUME NEW c \in Callers, Floor!Activation(c) PROVE Floor!FloorInvariant'
    BY <2>4, FloorActivation
  <2>5. ASSUME NEW c \in Callers, Floor!Crash(c) PROVE Floor!FloorInvariant'
    <3>1. Floor!Return(c) /\ UNCHANGED <<floor, gate, tried, custody, deleted, log>>
      BY <2>5 DEF Floor!Crash, Floor!artifacts
    <3> QED BY <2>0, <3>1, FloorReturn, FloorRowsKept, FloorArtifactsKept, FloorPartsNext
  <2>6. CASE UNCHANGED Floor!vars
    <3>1. UNCHANGED <<floor, gate, tried, custody, deleted, log, floorCaller>>
      BY <2>6 DEF Floor!vars, Floor!artifacts
    <3> QED BY <2>0, <3>1, FloorRowsKept, FloorArtifactsKept, FloorCallsKept, FloorPartsNext
  <2> QED BY <2>1, <2>2, <2>3, <2>4, <2>5, <2>6 DEF Floor!Next
<1>3. Floor!FloorInvariant => FloorIsHonest
  BY DEF Floor!FloorInvariant, FloorIsHonest
<1> QED BY <1>1, <1>2, <1>3, PTL DEF Floor!Spec

-----------------------------------------------------------------------------
(* BindingRegistry: generations and recovery proofs.                       *)

\* A call that does not run has its type and nothing to be bound to.
LEMMA RegistryIdle == Registry!Idle \in Registry!Call /\ Registry!Idle.pc = "idle"
BY DEF Registry!Idle, Registry!Call

\* A leaf that is appended joins the leaves that are there.
LEMMA RegistryLeaves ==
  ASSUME history \in Seq(FloorArtifacts), NEW a \in FloorArtifacts, history' = Append(history, a)
  PROVE  /\ history' \in Seq(FloorArtifacts) /\ a \in Registry!ToSet(history')
         /\ Registry!ToSet(history) \subseteq Registry!ToSet(history')
<1>1. /\ history' \in Seq(FloorArtifacts) /\ DOMAIN history' = 1 .. Len(history) + 1
      /\ Len(history) \in Nat /\ DOMAIN history = 1 .. Len(history)
      /\ history'[Len(history) + 1] = a
      /\ \A i \in 1 .. Len(history) : history'[i] = history[i]
  OBVIOUS
<1>2. Len(history) + 1 \in DOMAIN history'
  BY <1>1
<1>3. a \in Registry!ToSet(history')
  BY <1>1, <1>2 DEF Registry!ToSet
<1>4. ASSUME NEW i \in DOMAIN history PROVE history[i] \in Registry!ToSet(history')
  <2>1. i \in DOMAIN history' /\ history'[i] = history[i]
    BY <1>1
  <2> QED BY <2>1 DEF Registry!ToSet
<1> QED BY <1>1, <1>3, <1>4 DEF Registry!ToSet

\* Change sets and signatures are only added: a generation stays bound.
LEMMA RegistryRowsKept ==
  ASSUME Registry!RegistryInvariant, changesets \subseteq changesets',
         signed \subseteq signed', UNCHANGED generations
  PROVE  Registry!GenerationIsBound'
<1>1. Registry!GenerationIsBound
  BY DEF Registry!RegistryInvariant, Registry!RegistryIsSound
<1> SUFFICES ASSUME NEW g \in generations
             PROVE  /\ Registry!AcceptedChangeset(g.cs) \in changesets'
                    /\ g.cs \in Registry!ToSet(g.ck)
                    /\ [kind |-> "checkpoint", hist |-> g.ck] \in signed'
  BY DEF Registry!GenerationIsBound, Registry!AcceptedChangeset, Registry!BuildChangeset,
         Registry!StateDelta, Registry!ExpectedActive, Registry!ToSet
<1> QED BY <1>1 DEF Registry!GenerationIsBound

\* No recovery is accepted, and the process goes on.
LEMMA RegistryRecoveriesKept ==
  ASSUME Registry!RegistryInvariant, UNCHANGED <<recovered, epoch>>,
         consumed \subseteq consumed'
  PROVE  Registry!RecoveryIsSound' /\ Registry!NoncesAreConsumed'
<1>1. Registry!RecoveryIsSound /\ Registry!NoncesAreConsumed
  BY DEF Registry!RegistryInvariant, Registry!RegistryIsSound
<1>2. Registry!RecoveryIsSound'
  BY <1>1 DEF Registry!RecoveryIsSound, Registry!IsPrefix
<1>3. Registry!NoncesAreConsumed'
  BY <1>1 DEF Registry!NoncesAreConsumed
<1> QED BY <1>2, <1>3

\* One call moves, and keeps what it is bound to; nothing is taken away from
\* the change sets, the signatures and the leaves that the others rely on.
LEMMA RegistryCallMoves ==
  ASSUME Registry!RegistryInvariant, changesets \subseteq changesets',
         signed \subseteq signed', Registry!ToSet(history) \subseteq Registry!ToSet(history'),
         NEW c \in Callers, NEW q \in Registry!Call,
         registryCaller' = [registryCaller EXCEPT ![c] = q], Registry!CallIsBound(c)'
  PROVE  /\ registryCaller' \in [Callers -> Registry!Call]
         /\ \A d \in Callers : Registry!CallIsBound(d)'
<1>1. registryCaller \in [Callers -> Registry!Call]
  BY DEF Registry!RegistryInvariant, Registry!RegistryIsSound, Registry!TypeOK
<1>2. /\ registryCaller' \in [Callers -> Registry!Call]
      /\ \A d \in Callers \ {c} : registryCaller'[d] = registryCaller[d]
  BY <1>1
<1>3. ASSUME NEW d \in Callers \ {c} PROVE Registry!CallIsBound(d)'
  <2>1. Registry!CallIsBound(d) /\ registryCaller'[d] = registryCaller[d]
    BY <1>2, <1>3 DEF Registry!RegistryInvariant
  <2> QED BY <2>1 DEF Registry!CallIsBound, Registry!AcceptedChangeset,
             Registry!BuildChangeset, Registry!StateDelta, Registry!ExpectedActive,
             Registry!ToSet
<1> QED BY <1>2, <1>3

\* The same when no call moves.
LEMMA RegistryCallsKept ==
  ASSUME Registry!RegistryInvariant, changesets \subseteq changesets',
         signed \subseteq signed', UNCHANGED <<history, registryCaller>>
  PROVE  /\ registryCaller' \in [Callers -> Registry!Call]
         /\ \A d \in Callers : Registry!CallIsBound(d)'
<1>1. registryCaller' \in [Callers -> Registry!Call]
  BY DEF Registry!RegistryInvariant, Registry!RegistryIsSound, Registry!TypeOK
<1>2. ASSUME NEW d \in Callers PROVE Registry!CallIsBound(d)'
  <2>1. Registry!CallIsBound(d)
    BY DEF Registry!RegistryInvariant
  <2> QED BY <2>1 DEF Registry!CallIsBound, Registry!AcceptedChangeset,
             Registry!BuildChangeset, Registry!StateDelta, Registry!ExpectedActive,
             Registry!ToSet
<1> QED BY <1>1, <1>2

-----------------------------------------------------------------------------
(* Generations.                                                            *)

\* persist_changeset and attest add a row and a signature.
LEMMA RegistryAdds ==
  ASSUME Registry!RegistryInvariant,
         \/ \E a \in FloorArtifacts : Registry!PersistChangeset(a)
         \/ \E n \in Nonces, ck \in Floors : Registry!Attest(n, ck)
         \/ Registry!MoveFloor
  PROVE  Registry!RegistryInvariant'
<1>1. /\ changesets \subseteq changesets' /\ signed \subseteq signed'
      /\ UNCHANGED <<generations, history, consumed, epoch, recovered, registryCaller>>
  BY DEF Registry!PersistChangeset, Registry!Attest, Registry!MoveFloor, Registry!rows,
         Registry!registry
<1>2. \A s \in signed' : s \in signed \/ s.hist = history
  BY DEF Registry!PersistChangeset, Registry!Attest, Registry!MoveFloor, Registry!rows,
         Registry!registry
<1>3. Registry!TypeOK'
  BY <1>1, <1>2, RegistryCallsKept
     DEF Registry!RegistryInvariant, Registry!RegistryIsSound, Registry!TypeOK
<1> QED BY <1>1, <1>3, RegistryCallsKept, RegistryRowsKept, RegistryRecoveriesKept
        DEF Registry!RegistryInvariant, Registry!RegistryIsSound

\* create_generation: from the leaf over the checkpoint to the row.
LEMMA RegistryGeneration ==
  ASSUME Registry!RegistryInvariant, NEW c \in Callers,
         \/ \E a \in FloorArtifacts : Registry!CreateGeneration(c, a)
         \/ Registry!Checkpoint(c) \/ Registry!InsertGeneration(c)
  PROVE  Registry!RegistryInvariant'
<1>0. /\ Registry!TypeOK /\ Registry!GenerationIsBound /\ Registry!CallIsBound(c)
      /\ history \in Seq(FloorArtifacts) /\ \A s \in signed : s.hist \in Seq(FloorArtifacts)
      /\ registryCaller \in [Callers -> Registry!Call] /\ registryCaller[c] \in Registry!Call
  BY DEF Registry!RegistryInvariant, Registry!RegistryIsSound, Registry!TypeOK
<1>1. ASSUME NEW a \in FloorArtifacts, Registry!CreateGeneration(c, a)
      PROVE  Registry!RegistryInvariant'
  <2> DEFINE q == [registryCaller[c] EXCEPT !.pc = "checkpoint", !.a = a]
  <2>1. /\ history' = Append(history, a) /\ Registry!AcceptedChangeset(a) \in changesets
        /\ registryCaller' = [registryCaller EXCEPT ![c] = q]
        /\ UNCHANGED <<changesets, generations, consumed, signed, epoch, recovered>>
    BY <1>0, <1>1 DEF Registry!CreateGeneration, Registry!AppendLeaf, Registry!rows
  <2>2. q \in Registry!Call /\ q.pc = "checkpoint" /\ q.a = a
    BY <1>0 DEF Registry!Call
  <2> HIDE DEF q
  <2>3. /\ history' \in Seq(FloorArtifacts) /\ a \in Registry!ToSet(history')
        /\ Registry!ToSet(history) \subseteq Registry!ToSet(history')
    BY <1>0, <2>1, RegistryLeaves
  <2>4. registryCaller'[c] = q
    BY <1>0, <2>1
  <2>5. Registry!CallIsBound(c)'
    BY <2>1, <2>2, <2>3, <2>4 DEF Registry!CallIsBound
  <2>6. registryCaller' \in [Callers -> Registry!Call] /\ \A d \in Callers : Registry!CallIsBound(d)'
    BY <2>1, <2>2, <2>3, <2>5, RegistryCallMoves
  <2> QED BY <1>0, <2>1, <2>3, <2>6, RegistryRowsKept, RegistryRecoveriesKept
          DEF Registry!RegistryInvariant, Registry!RegistryIsSound, Registry!TypeOK
<1>2. CASE Registry!Checkpoint(c)
  <2> DEFINE q == [registryCaller[c] EXCEPT !.pc = "sign", !.hist = history]
             s == [kind |-> "checkpoint", hist |-> history]
  <2>1. /\ signed' = signed \cup {s} /\ registryCaller' = [registryCaller EXCEPT ![c] = q]
        /\ registryCaller[c].pc = "checkpoint"
        /\ UNCHANGED <<changesets, generations, history, consumed, epoch, recovered>>
    BY <1>0, <1>2 DEF Registry!Checkpoint, Registry!At, Registry!rows
  <2>2. /\ q \in Registry!Call /\ q.pc = "sign" /\ q.a = registryCaller[c].a /\ q.hist = history
        /\ s.hist = history /\ s = [kind |-> "checkpoint", hist |-> q.hist]
    BY <1>0 DEF Registry!Call
  <2> HIDE DEF q, s
  <2>3. registryCaller'[c] = q
    BY <1>0, <2>1
  <2>4. /\ Registry!AcceptedChangeset(registryCaller[c].a) \in changesets
        /\ registryCaller[c].a \in Registry!ToSet(history)
    BY <1>0, <2>1 DEF Registry!CallIsBound
  <2>5. Registry!CallIsBound(c)'
    BY <2>1, <2>2, <2>3, <2>4 DEF Registry!CallIsBound
  <2>6. registryCaller' \in [Callers -> Registry!Call] /\ \A d \in Callers : Registry!CallIsBound(d)'
    BY <2>1, <2>2, <2>5, RegistryCallMoves
  <2> QED BY <1>0, <2>1, <2>2, <2>6, RegistryRowsKept, RegistryRecoveriesKept
          DEF Registry!RegistryInvariant, Registry!RegistryIsSound, Registry!TypeOK
<1>3. CASE Registry!InsertGeneration(c)
  <2> DEFINE g == [cs |-> registryCaller[c].a, ck |-> registryCaller[c].hist]
  <2>1. /\ generations' \in {generations, generations \cup {g}}
        /\ registryCaller[c].pc = "sign" /\ registryCaller' = [registryCaller EXCEPT ![c] = Registry!Idle]
        /\ UNCHANGED <<changesets, history, consumed, signed, epoch, recovered>>
    BY <1>3 DEF Registry!InsertGeneration, Registry!Return, Registry!At, Registry!registry
  <2>2. /\ Registry!AcceptedChangeset(g.cs) \in changesets /\ g.cs \in Registry!ToSet(g.ck)
        /\ [kind |-> "checkpoint", hist |-> g.ck] \in signed
    BY <1>0, <2>1 DEF Registry!CallIsBound
  <2> HIDE DEF g
  <2>3. Registry!GenerationIsBound'
    BY <1>0, <2>1, <2>2 DEF Registry!GenerationIsBound
  <2>4. Registry!CallIsBound(c)'
    BY <1>0, <2>1, RegistryIdle DEF Registry!CallIsBound
  <2>5. registryCaller' \in [Callers -> Registry!Call] /\ \A d \in Callers : Registry!CallIsBound(d)'
    BY <2>1, <2>4, RegistryIdle, RegistryCallMoves
  <2> QED BY <1>0, <2>1, <2>3, <2>5, RegistryRecoveriesKept
          DEF Registry!RegistryInvariant, Registry!RegistryIsSound, Registry!TypeOK
<1> QED BY <1>1, <1>2, <1>3

-----------------------------------------------------------------------------
(* Recovery.                                                               *)

\* What a verified proof says: attestation, checkpoint and floor agree, and by
\* continuity the signed history properly extends the local one.
LEMMA VerifiedProof ==
  ASSUME NEW p, NEW local \in Seq(FloorArtifacts), NEW asked, NEW fresh,
         p.ck \in Seq(FloorArtifacts), p.hist \in Seq(FloorArtifacts), p.old \in Nat,
         Registry!VerifyAttestation(p, asked, fresh), Registry!VerifyHistory(p)
  PROVE  /\ p.att.hist = p.ck /\ p.att.floor = asked /\ p.att.nonce \notin consumed
         /\ Registry!DeltaContinuity(p, local) => local # p.ck /\ Registry!IsPrefix(local, p.ck)
<1>1. p.att.hist = p.ck /\ p.att.floor = asked /\ p.att.nonce \notin consumed
  BY DEF Registry!VerifyAttestation
<1>2. ASSUME Registry!DeltaContinuity(p, local)
      PROVE  local # p.ck /\ Registry!IsPrefix(local, p.ck)
  <2>1. /\ p.old = Len(local) /\ p.old \in 1 .. Len(p.hist) - 1
        /\ SubSeq(p.hist, 1, p.old) = local
    BY <1>2 DEF Registry!DeltaContinuity
  <2>2. p.hist = p.ck
    BY <2>1 DEF Registry!VerifyHistory
  <2>3. Len(local) < Len(p.ck)
    BY <2>1, <2>2
  <2>4. SubSeq(local, 1, Len(local)) = local
    OBVIOUS
  <2> QED BY <2>1, <2>2, <2>3, <2>4 DEF Registry!IsPrefix
<1> QED BY <1>1, <1>2

\* recover: an accepted proof is sound, and its nonce is consumed with it.
LEMMA RegistryRecover ==
  ASSUME Registry!RegistryInvariant, NEW c \in Callers, Registry!StartRecovery(c)
  PROVE  Registry!RegistryInvariant'
<1>0. /\ Registry!TypeOK /\ Registry!RecoveryIsSound
      /\ Registry!NoncesAreConsumed /\ epoch \in Nat
      /\ history \in Seq(FloorArtifacts) /\ \A s \in signed : s.hist \in Seq(FloorArtifacts)
      /\ registryCaller \in [Callers -> Registry!Call] /\ registryCaller[c] \in Registry!Call
  BY DEF Registry!RegistryInvariant, Registry!RegistryIsSound, Registry!TypeOK
<1>1. PICK a \in FloorArtifacts, att \in Registry!Attestations, ck \in Registry!Checkpoints,
           start \in Registry!Anchors, fresh \in Registry!Freshness, old \in 0 .. Len(history) :
        Registry!Recover(c, a, Registry!ProofSet(att, ck, old), start[1], start[2],
                         localFloor, fresh)
  BY DEF Registry!StartRecovery
<1> DEFINE p == Registry!ProofSet(att, ck, old)
           mode == start[1]
           local == start[2]
           ok == Registry!VerifyAttestation(p, localFloor, fresh) /\ Registry!VerifyHistory(p)
           yes == ok /\ IF mode = "DELTA_CONTINUITY" THEN Registry!DeltaContinuity(p, local)
                        ELSE Registry!AuthoritativeSnapshot(p)
           r == [mode |-> mode, local |-> local, proof |-> p, floor |-> localFloor,
                 by |-> epoch]
           n == p.att.nonce
           nx == IF yes THEN "serve" ELSE "idle"
           q == [registryCaller[c] EXCEPT !.pc = "record", !.a = a, !.next = nx]
<1>2. local \in Seq(FloorArtifacts)
  <2>1. CASE start \in {<<"DELTA_CONTINUITY", h>> : h \in Registry!Locals}
    <3>1. PICK h \in Registry!Locals : start = <<"DELTA_CONTINUITY", h>>
      BY <2>1
    <3>2. h \in Seq(FloorArtifacts)
      BY <1>0 DEF Registry!Locals
    <3> QED BY <3>1, <3>2
  <2>2. CASE start = <<"AUTHORITATIVE_SNAPSHOT", <<>>>>
    <3>1. local = <<>>
      BY <2>2
    <3> QED BY <3>1
  <2> QED BY <2>1, <2>2 DEF Registry!Anchors
<1>3. p.ck \in Seq(FloorArtifacts) /\ p.hist \in Seq(FloorArtifacts) /\ p.old \in Nat
  BY <1>0 DEF Registry!ProofSet, Registry!Checkpoints
<1>4. /\ consumed' = IF ok THEN consumed \cup {n} ELSE consumed
      /\ recovered' = IF yes THEN recovered \cup {r} ELSE recovered
      /\ registryCaller' = [registryCaller EXCEPT ![c] = q] /\ registryCaller[c].pc = "idle"
      /\ UNCHANGED <<changesets, generations, history, signed, epoch>>
  BY <1>0, <1>1 DEF Registry!Recover, Registry!At, Registry!rows
<1>5. q \in Registry!Call /\ q.pc = "record"
  BY <1>0 DEF Registry!Call
<1>6. /\ r.mode = mode /\ r.local = local /\ r.proof = p /\ r.floor = localFloor
      /\ r.by = epoch
  OBVIOUS
<1>7. yes => /\ p.att.hist = p.ck /\ p.att.floor = localFloor /\ n \notin consumed
             /\ mode = "DELTA_CONTINUITY" => local # p.ck /\ Registry!IsPrefix(local, p.ck)
  <2> HIDE DEF p, mode, local
  <2> QED BY <1>2, <1>3, VerifiedProof
<1>8. yes => consumed' = consumed \cup {n}
  BY <1>4
<1>9. consumed \subseteq consumed'
  BY <1>4
<1> HIDE DEF q, r, p, mode, local, yes, ok, nx
<1>10. registryCaller'[c] = q
  BY <1>0, <1>4
<1>11. Registry!CallIsBound(c)'
  BY <1>5, <1>10 DEF Registry!CallIsBound
<1>12. registryCaller' \in [Callers -> Registry!Call] /\ \A d \in Callers : Registry!CallIsBound(d)'
  BY <1>4, <1>5, <1>11, RegistryCallMoves
<1>13. Registry!RecoveryIsSound' /\ Registry!NoncesAreConsumed'
  <2>1. CASE ~yes
    BY <1>4, <1>9, <2>1, RegistryRecoveriesKept
  <2>2. CASE yes
    <3>1. \A x \in recovered' : x \in recovered \/ x = r
      BY <1>4, <2>2
    <3>2. ASSUME NEW x \in recovered, NEW y \in recovered', y.by = x.by,
                 y.proof.att.nonce = x.proof.att.nonce
          PROVE  y = x
      <4>1. CASE y \in recovered
        BY <1>0, <3>2, <4>1 DEF Registry!RecoveryIsSound
      <4>2. CASE y = r
        <5>1. x.by = epoch /\ x.proof.att.nonce = n
          BY <1>6, <3>2, <4>2
        <5>2. n \in consumed
          BY <1>0, <5>1 DEF Registry!NoncesAreConsumed
        <5> QED BY <1>7, <2>2, <5>2
      <4> QED BY <3>1, <4>1, <4>2
    <3>3. Registry!RecoveryIsSound'
      <4> SUFFICES ASSUME NEW x \in recovered'
                   PROVE  /\ x.proof.att.hist = x.proof.ck /\ x.proof.att.floor = x.floor
                          /\ x.mode = "DELTA_CONTINUITY" =>
                               x.local # x.proof.ck /\ Registry!IsPrefix(x.local, x.proof.ck)
                          /\ \A y \in recovered' :
                               y.by = x.by /\ y.proof.att.nonce = x.proof.att.nonce => y = x
        BY DEF Registry!RecoveryIsSound
      <4>1. CASE x \in recovered
        BY <1>0, <3>2, <4>1 DEF Registry!RecoveryIsSound
      <4>2. CASE x = r
        <5>1. ASSUME NEW y \in recovered', y.by = x.by,
                     y.proof.att.nonce = x.proof.att.nonce
              PROVE  y = x
          BY <3>1, <3>2, <4>2, <5>1
        <5> QED BY <1>6, <1>7, <2>2, <4>2, <5>1
      <4> QED BY <3>1, <4>1, <4>2
    <3>4. Registry!NoncesAreConsumed'
      BY <1>0, <1>4, <1>6, <1>8, <2>2, <3>1 DEF Registry!NoncesAreConsumed
    <3> QED BY <3>3, <3>4
  <2> QED BY <2>1, <2>2
<1> QED BY <1>0, <1>4, <1>12, <1>13, RegistryRowsKept
        DEF Registry!RegistryInvariant, Registry!RegistryIsSound, Registry!TypeOK

\* The decision is recorded, the serve gate asked and the artifact released.
LEMMA RegistryRestore ==
  ASSUME Registry!RegistryInvariant, NEW c \in Callers,
         Registry!RecordDecision(c) \/ Registry!CanServe(c) \/ Registry!Restore(c)
  PROVE  Registry!RegistryInvariant'
<1>0. /\ Registry!TypeOK /\ registryCaller \in [Callers -> Registry!Call] /\ registryCaller[c] \in Registry!Call
  BY DEF Registry!RegistryInvariant, Registry!RegistryIsSound, Registry!TypeOK
<1>1. /\ UNCHANGED <<changesets, generations, history, consumed, signed, epoch, recovered>>
      /\ \E pc \in {"serve", "restore"} :
           \/ registryCaller' = [registryCaller EXCEPT ![c] = Registry!Idle]
           \/ registryCaller' = [registryCaller EXCEPT ![c] = [registryCaller[c] EXCEPT !.pc = pc]]
  BY <1>0
     DEF Registry!RecordDecision, Registry!CanServe, Registry!Restore, Registry!Return,
         Registry!Goto, Registry!registry, Registry!rows
<1>2. ASSUME NEW q \in Registry!Call, registryCaller' = [registryCaller EXCEPT ![c] = q],
             q.pc \notin {"checkpoint", "sign"}
      PROVE  Registry!RegistryInvariant'
  <2>1. Registry!CallIsBound(c)'
    BY <1>0, <1>2 DEF Registry!CallIsBound
  <2>2. registryCaller' \in [Callers -> Registry!Call] /\ \A d \in Callers : Registry!CallIsBound(d)'
    BY <1>1, <1>2, <2>1, RegistryCallMoves
  <2> QED BY <1>0, <1>1, <2>2, RegistryRowsKept, RegistryRecoveriesKept
          DEF Registry!RegistryInvariant, Registry!RegistryIsSound, Registry!TypeOK
<1>3. ASSUME NEW pc \in {"serve", "restore"},
             registryCaller' = [registryCaller EXCEPT ![c] = [registryCaller[c] EXCEPT !.pc = pc]]
      PROVE  Registry!RegistryInvariant'
  <2> DEFINE q == [registryCaller[c] EXCEPT !.pc = pc]
  <2>1. q \in Registry!Call /\ q.pc \notin {"checkpoint", "sign"}
    BY <1>0 DEF Registry!Call
  <2> HIDE DEF q
  <2> QED BY <1>2, <1>3, <2>1 DEF q
<1> QED BY <1>1, <1>2, <1>3, RegistryIdle

\* A restart: the calls are gone with the history, and every recovery so far is
\* one of an earlier process.
LEMMA RegistryRestart ==
  ASSUME Registry!RegistryInvariant, Registry!Restart
  PROVE  Registry!RegistryInvariant'
<1>0. /\ Registry!TypeOK /\ Registry!GenerationIsBound /\ Registry!RecoveryIsSound
      /\ Registry!NoncesAreConsumed /\ epoch \in Nat
  BY DEF Registry!RegistryInvariant, Registry!RegistryIsSound, Registry!TypeOK
<1>1. /\ epoch' = epoch + 1 /\ history' = <<>> /\ registryCaller' = [c \in Callers |-> Registry!Idle]
      /\ UNCHANGED <<changesets, generations, signed, recovered>>
  BY DEF Registry!Restart, Registry!rows
<1>2. Registry!TypeOK'
  BY <1>0, <1>1, RegistryIdle DEF Registry!TypeOK
<1>3. \A c \in Callers : Registry!CallIsBound(c)'
  BY <1>1, RegistryIdle DEF Registry!CallIsBound
<1>4. Registry!NoncesAreConsumed'
  BY <1>0, <1>1 DEF Registry!NoncesAreConsumed
<1>5. Registry!RecoveryIsSound'
  BY <1>0, <1>1 DEF Registry!RecoveryIsSound
<1> QED BY <1>1, <1>2, <1>3, <1>4, <1>5, RegistryRowsKept
        DEF Registry!RegistryInvariant, Registry!RegistryIsSound

\* A signed generation names a checkpoint over its own leaves, whatever other
\* callers append meanwhile; and a recovery is accepted only for a signed
\* history under the local floor, by continuity only for one that properly
\* extends the trusted one, and once per nonce of a process, with any number of
\* callers and restarts (create_generation, RecoveryVerifier.recover).
THEOREM RegistryStaysSound == Registry!Spec => []RegistryIsSound
<1>1. Registry!Init => Registry!RegistryInvariant
  <2> SUFFICES ASSUME Registry!Init PROVE Registry!RegistryInvariant
    OBVIOUS
  <2>1. Registry!TypeOK
    BY RegistryIdle DEF Registry!Init, Registry!TypeOK
  <2>2. Registry!GenerationIsBound /\ Registry!RecoveryIsSound /\ Registry!NoncesAreConsumed
    BY DEF Registry!Init, Registry!GenerationIsBound, Registry!RecoveryIsSound,
           Registry!NoncesAreConsumed
  <2>3. \A c \in Callers : Registry!CallIsBound(c)
    BY RegistryIdle DEF Registry!Init, Registry!CallIsBound
  <2> QED BY <2>1, <2>2, <2>3 DEF Registry!RegistryInvariant, Registry!RegistryIsSound
<1>2. Registry!RegistryInvariant /\ [Registry!Next]_Registry!vars => Registry!RegistryInvariant'
  <2> SUFFICES ASSUME Registry!RegistryInvariant, [Registry!Next]_Registry!vars
               PROVE  Registry!RegistryInvariant'
    OBVIOUS
  <2>1. CASE \/ \E a \in FloorArtifacts : Registry!PersistChangeset(a)
             \/ \E n \in Nonces, ck \in Floors : Registry!Attest(n, ck)
             \/ Registry!MoveFloor
    BY <2>1, RegistryAdds
  <2>2. ASSUME NEW c \in Callers,
               \/ \E a \in FloorArtifacts : Registry!CreateGeneration(c, a)
               \/ Registry!Checkpoint(c) \/ Registry!InsertGeneration(c)
        PROVE  Registry!RegistryInvariant'
    BY <2>2, RegistryGeneration
  <2>3. ASSUME NEW c \in Callers,
               \/ Registry!StartRecovery(c) \/ Registry!RecordDecision(c)
               \/ Registry!CanServe(c) \/ Registry!Restore(c)
        PROVE  Registry!RegistryInvariant'
    BY <2>3, RegistryRecover, RegistryRestore
  <2>4. CASE Registry!Restart
    BY <2>4, RegistryRestart
  <2>5. CASE UNCHANGED Registry!vars
    BY <2>5, RegistryCallsKept, RegistryRowsKept, RegistryRecoveriesKept
       DEF Registry!vars, Registry!rows, Registry!registry, Registry!RegistryInvariant,
           Registry!RegistryIsSound, Registry!TypeOK
  <2> QED BY <2>1, <2>2, <2>3, <2>4, <2>5 DEF Registry!Next
<1>3. Registry!RegistryInvariant => RegistryIsSound
  BY DEF Registry!RegistryInvariant, RegistryIsSound
<1> QED BY <1>1, <1>2, <1>3, PTL DEF Registry!Spec

-----------------------------------------------------------------------------
(* The Merkle proofs.                                                      *)

\* A nonempty set of numbers has a least one.
LEMMA LeastNumber ==
  ASSUME NEW T, T \subseteq Nat, T # {}
  PROVE  \E x \in T : \A y \in T : x <= y
<1> DEFINE Less == {ss \in Nat \X Nat : ss[1] < ss[2]}
<1>1. IsWellFoundedOn(Less, Nat)
  <2>1. OpToRel(<, Nat) = Less
    BY Zenon DEF OpToRel
  <2> QED BY <2>1, NatLessThanWellFounded, Zenon
<1>2. PICK x \in T : \A y \in T : ~(<<y, x>> \in Less)
  <2> HIDE DEF Less
  <2> QED BY <1>1, WFMin
<1>3. ASSUME NEW y \in T PROVE x <= y
  <2>1. ~(y < x) BY <1>2 DEF Less
  <2> QED BY <2>1
<1> QED BY <1>3

-----------------------------------------------------------------------------
\* The recursive functions. What one has at n is computed from what it has
(* at smaller numbers; a and b are the parameters of a verifier.           *)

SplitAt(f, n, i) ==
  IF i = 0 THEN 1 ELSE LET s == f[i - 1] IN IF 2 * s < n THEN 2 * s ELSE s

RootAt(f, n) ==
  [lo \in Merkle!Starts(n) |->
     IF n = 1 THEN Merkle!Leaf(lo)
     ELSE LET k == Merkle!Split(n) IN Merkle!Node(f[k][lo], f[n - k][lo + k])]

\* A path with one more element.
Longer(path, hash) == Append(path, hash)

IncludeAt(f, n) ==
  [lo \in Merkle!Starts(n) |-> [i \in 1 .. n |->
     IF n = 1 THEN <<>>
     ELSE LET k == Merkle!Split(n)
          IN IF i <= k THEN Longer(f[k][lo][i], Merkle!Root[n - k][lo + k])
             ELSE Longer(f[n - k][lo + k][i - k], Merkle!Root[k][lo])]]

ConsistAt(f, n) ==
  [lo \in Merkle!Starts(n) |-> [m \in 1 .. n |->
     IF m = n THEN <<Merkle!Root[n][lo]>>
     ELSE LET k == Merkle!Split(n)
          IN IF m <= k THEN Longer(f[k][lo][m], Merkle!Root[n - k][lo + k])
             ELSE Longer(f[n - k][lo + k][m - k], Merkle!Root[k][lo])]]

IncludedAt(f, leaf, path, k) ==
        [x \in 1 .. k |-> [j \in 0 .. Len(path) |->
           IF k = 1 THEN IF j = 0 THEN leaf ELSE Merkle!Failed
           ELSE IF j = 0 THEN Merkle!Failed
           ELSE LET s == Merkle!Split(k)
                    inner == IF x <= s THEN f[s][x][j - 1]
                             ELSE f[k - s][x - s][j - 1]
                IN IF inner = Merkle!Failed THEN Merkle!Failed
                   ELSE IF x <= s THEN Merkle!Node(inner, path[j]) ELSE Merkle!Node(path[j], inner)]]

ConsistentAt(f, path, k) ==
        [x \in 1 .. k |-> [j \in 0 .. Len(path) |->
           IF j = 0 THEN Merkle!NoRoots
           ELSE IF x = k
                THEN IF j = 1 THEN [new |-> path[1], old |-> path[1]] ELSE Merkle!NoRoots
           ELSE LET s == Merkle!Split(k)
                    inner == IF x <= s THEN f[s][x][j - 1]
                             ELSE f[k - s][x - s][j - 1]
                IN IF inner = Merkle!NoRoots THEN Merkle!NoRoots
                   ELSE IF x <= s
                        THEN [new |-> Merkle!Node(inner.new, path[j]), old |-> inner.old]
                        ELSE [new |-> Merkle!Node(path[j], inner.new),
                              old |-> Merkle!ReplayOld(inner, path[j])]]]

DefaultAt(f, height) ==
  IF height = 0 THEN <<"empty">> ELSE Merkle!Node(f[height - 1], f[height - 1])

MapAt(f, height) ==
  [held \in SUBSET Merkle!Keys |->
     IF held = {} THEN Merkle!Default[height]
     ELSE IF height = 0 THEN LET k == CHOOSE k \in held : TRUE IN Merkle!SmtLeaf(k, k)
     ELSE LET d == Depth - height
          IN Merkle!Node(f[height - 1][{k \in held : Merkle!Bit(k, d) = 0}],
                  f[height - 1][{k \in held : Merkle!Bit(k, d) = 1}])]

UpAt(f, key, value, siblings, height) ==
        IF height = 0 THEN value
        ELSE LET d == Depth - height
             IN IF Merkle!Bit(key, d) = 0 THEN Merkle!Node(f[height - 1], siblings[d])
                ELSE Merkle!Node(siblings[d], f[height - 1])

Loops == {"split", "default", "map", "up"}
Trees == {"root", "include", "consist", "included", "consistent"}
Least(t) == IF t \in Loops THEN 0 ELSE 1

ValueAt(t, a, b, c, f, n) ==
  CASE t = "split" -> SplitAt(f, a, n)
    [] t = "default" -> DefaultAt(f, n)
    [] t = "map" -> MapAt(f, n)
    [] t = "up" -> UpAt(f, a, b, c, n)
    [] t = "root" -> RootAt(f, n)
    [] t = "include" -> IncludeAt(f, n)
    [] t = "consist" -> ConsistAt(f, n)
    [] t = "included" -> IncludedAt(f, a, b, n)
    [] t = "consistent" -> ConsistentAt(f, a, n)

Computes(t, a, b, c, f, m) == f = [n \in Least(t) .. m |-> ValueAt(t, a, b, c, f, n)]

\* At n only smaller numbers are looked up.
LooksDown(t, a, b, c) ==
  \A f, g : \A n \in Nat :
    n >= Least(t) /\ (\A i \in Least(t) .. (n - 1) : f[i] = g[i])
      => ValueAt(t, a, b, c, f, n) = ValueAt(t, a, b, c, g, n)

\* Such a function exists.
LEMMA FunctionExists ==
  ASSUME NEW t, NEW a, NEW b, NEW c, LooksDown(t, a, b, c), NEW k \in Nat
  PROVE  \E f : Computes(t, a, b, c, f, k)
<1> DEFINE T == {m \in Nat : ~(\E f : Computes(t, a, b, c, f, m))}
           l == Least(t)
           V(f, n) == ValueAt(t, a, b, c, f, n)
<1>0. l \in Nat BY DEF Least
<1>1. SUFFICES ASSUME T # {} PROVE FALSE
  OBVIOUS
<1>2. PICK m \in T : \A y \in T : m <= y
  <2>1. T \subseteq Nat OBVIOUS
  <2> HIDE DEF T
  <2> QED BY <1>1, <2>1, LeastNumber
<1>3. m \in Nat /\ ~(\E f : Computes(t, a, b, c, f, m)) OBVIOUS
<1>d. \A f, g : \A n \in Nat :
        n >= l /\ (\A i \in l .. (n - 1) : f[i] = g[i]) => V(f, n) = V(g, n)
  BY DEF LooksDown
<1>c. \A f : Computes(t, a, b, c, f, m) <=> f = [n \in l .. m |-> V(f, n)]
  BY DEF Computes
<1>4. PICK f : \A n \in l .. (m - 1) : f[n] = V(f, n)
  <2>1. CASE m = 0
    <3>1. l .. (m - 1) = {} BY <2>1, <1>0
    <3> QED BY <3>1
  <2>2. CASE m # 0
    <3>1. m - 1 \in Nat /\ ~(m <= m - 1) BY <1>3, <2>2
    <3>2. PICK f : Computes(t, a, b, c, f, m - 1) BY <3>1, <1>2
    <3>3. f = [n \in l .. (m - 1) |-> V(f, n)] BY <3>2 DEF Computes
    <3> HIDE DEF V, l
    <3>4. \A n \in l .. (m - 1) : f[n] = V(f, n) BY <3>3
    <3> QED BY <3>4
  <2> QED BY <2>1, <2>2
<1> HIDE DEF V, l, T
<1> DEFINE g == [n \in l .. m |-> IF n = m THEN V(f, m) ELSE f[n]]
<1>5. \A n \in l .. m : g[n] = IF n = m THEN V(f, m) ELSE f[n] OBVIOUS
<1>6. g = [n \in l .. m |-> g[n]] OBVIOUS
<1> HIDE DEF g
<1>7. ASSUME NEW n \in l .. m PROVE g[n] = V(g, n)
  <2>1. n \in Nat /\ n >= l BY <1>0, <1>3
  <2>2. ASSUME NEW i \in l .. (n - 1) PROVE g[i] = f[i]
    <3>1. i \in l .. m /\ i # m BY <1>0, <1>3, <2>1
    <3> QED BY <3>1, <1>5
  <2>3. V(g, n) = V(f, n) BY <2>1, <2>2, <1>d
  <2>4. CASE n = m BY <2>3, <2>4, <1>5
  <2>5. CASE n # m
    <3>1. n \in l .. (m - 1) BY <2>5, <1>0, <1>3
    <3> QED BY <3>1, <2>3, <2>5, <1>4, <1>5
  <2> QED BY <2>4, <2>5
<1>8. g = [n \in l .. m |-> V(g, n)] BY <1>6, <1>7
<1> QED BY <1>8, <1>c, <1>3

-----------------------------------------------------------------------------
(* Where a tree is split.                                                  *)

\* The doubling looks at the turn before.
LEMMA SplitLooksDown == ASSUME NEW n PROVE LooksDown("split", n, 0, 0)
<1>1. Least("split") = 0 BY DEF Least, Loops
<1>2. \A f, i : ValueAt("split", n, 0, 0, f, i) = SplitAt(f, n, i) BY DEF ValueAt
<1> SUFFICES ASSUME NEW f, NEW g, NEW i \in Nat, \A x \in 0 .. (i - 1) : f[x] = g[x]
             PROVE  SplitAt(f, n, i) = SplitAt(g, n, i)
  BY <1>1, <1>2 DEF LooksDown
<1>3. i # 0 => i - 1 \in 0 .. (i - 1) OBVIOUS
<1> QED BY <1>3 DEF SplitAt

\* What Split computes.
LEMMA SplitComputes ==
  ASSUME Merkle!MerkleAssumption, NEW n
  PROVE  \E f : /\ \A i \in 0 .. MaxLeaves : f[i] = SplitAt(f, n, i)
                /\ Merkle!Split(n) = f[MaxLeaves]
<1> DEFINE D(f) == f = [i \in 0 .. MaxLeaves |-> SplitAt(f, n, i)]
<1>1. Merkle!Split(n) = (CHOOSE f : D(f))[MaxLeaves] BY Zenon DEF Merkle!Split, SplitAt
<1>2. \E f : D(f)
  <2>1. PICK f : Computes("split", n, 0, 0, f, MaxLeaves)
    BY SplitLooksDown, FunctionExists DEF Merkle!MerkleAssumption
  <2>2. Least("split") = 0 BY DEF Least, Loops
  <2>3. \A i : ValueAt("split", n, 0, 0, f, i) = SplitAt(f, n, i) BY DEF ValueAt
  <2>4. D(f) BY <2>1, <2>2, <2>3 DEF Computes
  <2> QED BY <2>4
<1> HIDE DEF D
<1>3. D(CHOOSE f : D(f)) BY <1>2, Zenon
<1>4. PICK f : f = (CHOOSE g : D(g)) OBVIOUS
<1>5. D(f) /\ Merkle!Split(n) = f[MaxLeaves] BY <1>1, <1>3, <1>4
<1>6. \A i \in 0 .. MaxLeaves : f[i] = SplitAt(f, n, i)
  <2>1. f = [i \in 0 .. MaxLeaves |-> SplitAt(f, n, i)] BY <1>5 DEF D
  <2> QED BY <2>1
<1> QED BY <1>5, <1>6

\* Both parts have a leaf.
LEMMA SplitIsInside ==
  ASSUME Merkle!MerkleAssumption, NEW n \in Nat, n >= 2 PROVE Merkle!Split(n) \in 1 .. (n - 1)
<1>1. PICK f : /\ \A i \in 0 .. MaxLeaves : f[i] = SplitAt(f, n, i)
               /\ Merkle!Split(n) = f[MaxLeaves]
  BY SplitComputes
<1>2. MaxLeaves \in Nat BY DEF Merkle!MerkleAssumption
<1> DEFINE T == {i \in 0 .. MaxLeaves : f[i] \notin 1 .. (n - 1)}
<1>3. T = {}
  <2> SUFFICES ASSUME T # {} PROVE FALSE OBVIOUS
  <2>1. T \subseteq Nat BY <1>2
  <2>2. PICK i \in T : \A y \in T : i <= y
    <3> HIDE DEF T
    <3> QED BY <2>1, LeastNumber
  <2>3. i \in 0 .. MaxLeaves /\ f[i] \notin 1 .. (n - 1) OBVIOUS
  <2>4. f[i] = SplitAt(f, n, i) BY <2>3, <1>1
  <2>5. CASE i = 0
    <3>1. f[i] = 1 BY <2>4, <2>5 DEF SplitAt
    <3> QED BY <3>1, <2>3
  <2>6. CASE i # 0
    <3>1. i - 1 \in 0 .. MaxLeaves /\ ~(i <= i - 1) BY <2>3, <2>6, <1>2
    <3>2. f[i-1] \in 1 .. (n - 1) BY <3>1, <2>2
    <3>3. PICK s : s = f[i-1] OBVIOUS
    <3>4. f[i] = IF 2 * s < n THEN 2 * s ELSE s BY <2>4, <2>6, <3>3 DEF SplitAt
    <3>5. s \in 1 .. (n - 1) BY <3>2, <3>3
    <3> QED BY <3>4, <3>5, <2>3
  <2> QED BY <2>5, <2>6
<1>4. MaxLeaves \in 0 .. MaxLeaves BY <1>2
<1> QED BY <1>1, <1>3, <1>4

\* The trees between two splits are split at the same place.
LEMMA SplitsAgree ==
  ASSUME Merkle!MerkleAssumption, NEW n \in Nat, NEW m \in Nat, 2 <= m, m <= n, Merkle!Split(n) < m
  PROVE  Merkle!Split(m) = Merkle!Split(n)
<1>1. PICK f : /\ \A i \in 0 .. MaxLeaves : f[i] = SplitAt(f, n, i)
               /\ Merkle!Split(n) = f[MaxLeaves]
  BY SplitComputes
<1>2. PICK g : /\ \A i \in 0 .. MaxLeaves : g[i] = SplitAt(g, m, i)
               /\ Merkle!Split(m) = g[MaxLeaves]
  BY SplitComputes
<1>3. MaxLeaves \in Nat BY DEF Merkle!MerkleAssumption
<1>p. \A i \in 1 .. MaxLeaves :
        /\ f[i] = IF 2 * f[i-1] < n THEN 2 * f[i-1] ELSE f[i-1]
        /\ g[i] = IF 2 * g[i-1] < m THEN 2 * g[i-1] ELSE g[i-1]
  BY <1>1, <1>2, <1>3 DEF SplitAt
<1>z. f[0] = 1 /\ g[0] = 1
  <2>1. 0 \in 0 .. MaxLeaves BY <1>3
  <2> QED BY <2>1, <1>1, <1>2 DEF SplitAt
<1>n. \A i \in 0 .. MaxLeaves : f[i] \in Nat
  <2> DEFINE T == {i \in 0 .. MaxLeaves : f[i] \notin Nat}
  <2> SUFFICES ASSUME T # {} PROVE FALSE OBVIOUS
  <2>1. T \subseteq Nat BY <1>3
  <2>2. PICK i \in T : \A y \in T : i <= y
    <3> HIDE DEF T
    <3> QED BY <2>1, LeastNumber
  <2>3. i \in 0 .. MaxLeaves /\ f[i] \notin Nat OBVIOUS
  <2>4. i # 0 BY <2>3, <1>z
  <2>5. i - 1 \in 0 .. MaxLeaves /\ ~(i <= i - 1) /\ i \in 1 .. MaxLeaves BY <2>3, <2>4, <1>3
  <2>6. f[i-1] \in Nat BY <2>5, <2>2
  <2> QED BY <2>3, <2>5, <2>6, <1>p
<1>4. \A i \in 0 .. MaxLeaves : f[i] <= f[MaxLeaves]
  <2> DEFINE T == {k \in 0 .. MaxLeaves : ~(f[MaxLeaves - k] <= f[MaxLeaves])}
  <2>1. T = {}
    <3> SUFFICES ASSUME T # {} PROVE FALSE OBVIOUS
    <3>1. T \subseteq Nat BY <1>3
    <3>2. PICK k \in T : \A y \in T : k <= y
      <4> HIDE DEF T
      <4> QED BY <3>1, LeastNumber
    <3>3. k \in 0 .. MaxLeaves /\ ~(f[MaxLeaves - k] <= f[MaxLeaves]) OBVIOUS
    <3>4. k # 0
      <4>1. f[MaxLeaves] \in Nat /\ MaxLeaves - 0 = MaxLeaves BY <1>3, <1>n
      <4> QED BY <4>1, <3>3
    <3>5. k - 1 \in 0 .. MaxLeaves /\ ~(k <= k - 1) BY <3>3, <3>4, <1>3
    <3>6. f[MaxLeaves - (k - 1)] <= f[MaxLeaves] BY <3>5, <3>2
    <3>7. PICK i : i = MaxLeaves - (k - 1) OBVIOUS
    <3>8. i \in 1 .. MaxLeaves /\ i - 1 = MaxLeaves - k /\ i - 1 \in 0 .. MaxLeaves
          /\ i \in 0 .. MaxLeaves /\ MaxLeaves \in 0 .. MaxLeaves
      BY <3>3, <3>4, <3>7, <1>3
    <3>9. f[i-1] <= f[i] BY <3>8, <1>p, <1>n
    <3>10. f[i-1] \in Nat /\ f[i] \in Nat /\ f[MaxLeaves] \in Nat BY <3>8, <1>n
    <3> QED BY <3>3, <3>6, <3>7, <3>8, <3>9, <3>10
  <2>2. ASSUME NEW i \in 0 .. MaxLeaves PROVE f[i] <= f[MaxLeaves]
    <3>1. MaxLeaves - i \in 0 .. MaxLeaves /\ MaxLeaves - (MaxLeaves - i) = i BY <1>3
    <3> QED BY <3>1, <2>1
  <2> QED BY <2>2
<1>5. \A i \in 0 .. MaxLeaves : g[i] = f[i]
  <2> DEFINE T == {i \in 0 .. MaxLeaves : g[i] # f[i]}
  <2> SUFFICES ASSUME T # {} PROVE FALSE OBVIOUS
  <2>1. T \subseteq Nat BY <1>3
  <2>2. PICK i \in T : \A y \in T : i <= y
    <3> HIDE DEF T
    <3> QED BY <2>1, LeastNumber
  <2>3. i \in 0 .. MaxLeaves /\ g[i] # f[i] OBVIOUS
  <2>4. i # 0 BY <2>3, <1>z
  <2>5. i - 1 \in 0 .. MaxLeaves /\ ~(i <= i - 1) /\ i \in 1 .. MaxLeaves BY <2>3, <2>4, <1>3
  <2>6. PICK s : s = f[i-1] OBVIOUS
  <2>7. s \in Nat /\ g[i-1] = s BY <2>2, <2>5, <2>6, <1>n
  <2>8. f[i] = IF 2 * s < n THEN 2 * s ELSE s BY <2>5, <2>6, <1>p
  <2>9. g[i] = IF 2 * s < m THEN 2 * s ELSE s BY <2>5, <2>7, <1>p
  <2>10. f[i] < m
    <3>1. f[i] <= f[MaxLeaves] /\ f[i] \in Nat /\ f[MaxLeaves] \in Nat BY <2>3, <1>3, <1>4, <1>n
    <3> QED BY <3>1, <1>1
  <2> QED BY <2>3, <2>7, <2>8, <2>9, <2>10
<1>6. MaxLeaves \in 0 .. MaxLeaves BY <1>3
<1> QED BY <1>1, <1>2, <1>5, <1>6

\* The runs of leaves of both parts.
LEMMA PartsAreRuns ==
  ASSUME Merkle!MerkleAssumption, NEW n \in 1 .. MaxLeaves, n # 1, NEW lo \in Merkle!Starts(n)
  PROVE  /\ Merkle!Split(n) \in 1 .. (n - 1) /\ Merkle!Split(n) \in 1 .. MaxLeaves /\ lo \in Merkle!Starts(Merkle!Split(n))
         /\ n - Merkle!Split(n) \in 1 .. (n - 1) /\ n - Merkle!Split(n) \in 1 .. MaxLeaves
         /\ lo + Merkle!Split(n) \in Merkle!Starts(n - Merkle!Split(n))
<1>1. MaxLeaves \in Nat /\ n \in Nat /\ n >= 2 BY DEF Merkle!MerkleAssumption
<1>2. Merkle!Split(n) \in 1 .. (n - 1) BY <1>1, SplitIsInside
<1>3. PICK k : k = Merkle!Split(n) OBVIOUS
<1> QED BY <1>1, <1>2, <1>3 DEF Merkle!Starts

-----------------------------------------------------------------------------
(* The trees and their proofs.                                             *)

\* Hashes are equal when they hash the same tree.
LEMMA Terms ==
  /\ \A x, y : Merkle!Leaf(x) = Merkle!Leaf(y) => x = y
  /\ \A x : Merkle!Leaf(x) # Merkle!Failed
  /\ \A l, r : Merkle!Node(l, r) # Merkle!Failed
<1>1. \A x, y : Merkle!Leaf(x) = Merkle!Leaf(y) => x = y BY DEF Merkle!Leaf
<1>3. \A x : Merkle!Leaf(x)[1] = "leaf" BY DEF Merkle!Leaf
<1>4. \A l, r : Merkle!Node(l, r)[1] = "node" BY DEF Merkle!Node
<1>5. Merkle!Failed[1] = "failed" BY DEF Merkle!Failed
<1>6. "leaf" # "failed" /\ "node" # "failed" OBVIOUS
<1> QED BY <1>1, <1>3, <1>4, <1>5, <1>6, Zenon

\* A node binds both of its children.
LEMMA NodeBinds ==
  ASSUME NEW l, NEW r, NEW k, NEW q, Merkle!Node(l, r) = Merkle!Node(k, q) PROVE l = k /\ r = q
BY DEF Merkle!Node

\* A tree, its proofs and their replays look at its two parts.
LEMMA TreesLookDown ==
  ASSUME Merkle!MerkleAssumption, NEW t \in Trees, NEW a, NEW b PROVE LooksDown(t, a, b, 0)
<1>1. Least(t) = 1 BY DEF Least, Loops, Trees
<1> SUFFICES ASSUME NEW f, NEW g, NEW n \in Nat, n >= 1, \A x \in 1 .. (n - 1) : f[x] = g[x]
             PROVE  ValueAt(t, a, b, 0, f, n) = ValueAt(t, a, b, 0, g, n)
  BY <1>1 DEF LooksDown
<1>2. n # 1 => f[Merkle!Split(n)] = g[Merkle!Split(n)] /\ f[n - Merkle!Split(n)] = g[n - Merkle!Split(n)]
  <2> SUFFICES ASSUME n # 1 PROVE f[Merkle!Split(n)] = g[Merkle!Split(n)] /\ f[n - Merkle!Split(n)] = g[n - Merkle!Split(n)]
    OBVIOUS
  <2>1. Merkle!Split(n) \in 1 .. (n - 1) BY SplitIsInside
  <2>2. n - Merkle!Split(n) \in 1 .. (n - 1) BY <2>1
  <2> QED BY <2>1, <2>2
<1>3. CASE t = "root"
  <2>1. RootAt(f, n) = RootAt(g, n) BY <1>2 DEF RootAt
  <2> QED BY <2>1, <1>3 DEF ValueAt
<1>4. CASE t = "include"
  <2>1. IncludeAt(f, n) = IncludeAt(g, n) BY <1>2 DEF IncludeAt
  <2> QED BY <2>1, <1>4 DEF ValueAt
<1>5. CASE t = "consist"
  <2>0. \A m \in 1 .. 1 : m = 1 OBVIOUS
  <2>1. ConsistAt(f, n) = ConsistAt(g, n) BY <1>2, <2>0 DEF ConsistAt
  <2> QED BY <2>1, <1>5 DEF ValueAt
<1>6. CASE t = "included"
  <2>1. IncludedAt(f, a, b, n) = IncludedAt(g, a, b, n) BY <1>2 DEF IncludedAt
  <2> QED BY <2>1, <1>6 DEF ValueAt
<1>7. CASE t = "consistent"
  <2>0. \A m \in 1 .. 1 : m = 1 OBVIOUS
  <2>1. ConsistentAt(f, a, n) = ConsistentAt(g, a, n) BY <1>2, <2>0 DEF ConsistentAt
  <2> QED BY <2>1, <1>7 DEF ValueAt
<1> QED BY <1>3, <1>4, <1>5, <1>6, <1>7 DEF Trees

\* What the recursive functions compute.
LEMMA RootComputes ==
  ASSUME Merkle!MerkleAssumption PROVE \A n \in 1 .. MaxLeaves : Merkle!Root[n] = RootAt(Merkle!Root, n)
<1> DEFINE D(f) == f = [n \in 1 .. MaxLeaves |-> RootAt(f, n)]
<1>1. Merkle!Root = CHOOSE f : D(f) BY Zenon DEF Merkle!Root, RootAt
<1>2. \E f : D(f)
  <2>0. "root" \in Trees /\ MaxLeaves \in Nat BY DEF Trees, Merkle!MerkleAssumption
  <2>1. PICK f : Computes("root", 0, 0, 0, f, MaxLeaves)
    BY <2>0, TreesLookDown, FunctionExists
  <2>2. Least("root") = 1 BY DEF Least, Loops
  <2>3. \A i : ValueAt("root", 0, 0, 0, f, i) = RootAt(f, i) BY DEF ValueAt
  <2>4. D(f) BY <2>1, <2>2, <2>3 DEF Computes
  <2> QED BY <2>4
<1> HIDE DEF D
<1>3. D(Merkle!Root) BY <1>1, <1>2, Zenon
<1>4. PICK f : f = Merkle!Root OBVIOUS
<1>5. f = [n \in 1 .. MaxLeaves |-> RootAt(f, n)] BY <1>3, <1>4 DEF D
<1>6. \A n \in 1 .. MaxLeaves : f[n] = RootAt(f, n) BY <1>5
<1> QED BY <1>4, <1>6

\* The same of merkle_inclusion_proof,
LEMMA InclusionComputes ==
  ASSUME Merkle!MerkleAssumption PROVE \A n \in 1 .. MaxLeaves : Merkle!InclusionProof[n] = IncludeAt(Merkle!InclusionProof, n)
<1> DEFINE D(f) == f = [n \in 1 .. MaxLeaves |-> IncludeAt(f, n)]
<1>1. Merkle!InclusionProof = CHOOSE f : D(f) BY Zenon DEF Merkle!InclusionProof, IncludeAt, Longer
<1>2. \E f : D(f)
  <2>0. "include" \in Trees /\ MaxLeaves \in Nat BY DEF Trees, Merkle!MerkleAssumption
  <2>1. PICK f : Computes("include", 0, 0, 0, f, MaxLeaves)
    BY <2>0, TreesLookDown, FunctionExists
  <2>2. Least("include") = 1 BY DEF Least, Loops
  <2>3. \A i : ValueAt("include", 0, 0, 0, f, i) = IncludeAt(f, i) BY DEF ValueAt
  <2>4. D(f) BY <2>1, <2>2, <2>3 DEF Computes
  <2> QED BY <2>4
<1> HIDE DEF D
<1>3. D(Merkle!InclusionProof) BY <1>1, <1>2, Zenon
<1>4. PICK f : f = Merkle!InclusionProof OBVIOUS
<1>5. f = [n \in 1 .. MaxLeaves |-> IncludeAt(f, n)] BY <1>3, <1>4 DEF D
<1>6. \A n \in 1 .. MaxLeaves : f[n] = IncludeAt(f, n) BY <1>5
<1> QED BY <1>4, <1>6

\* and of merkle_consistency_proof.
LEMMA ConsistencyComputes ==
  ASSUME Merkle!MerkleAssumption PROVE \A n \in 1 .. MaxLeaves : Merkle!ConsistencyProof[n] = ConsistAt(Merkle!ConsistencyProof, n)
<1> DEFINE D(f) == f = [n \in 1 .. MaxLeaves |-> ConsistAt(f, n)]
<1>1. Merkle!ConsistencyProof = CHOOSE f : D(f) BY Zenon DEF Merkle!ConsistencyProof, ConsistAt, Longer
<1>2. \E f : D(f)
  <2>0. "consist" \in Trees /\ MaxLeaves \in Nat BY DEF Trees, Merkle!MerkleAssumption
  <2>1. PICK f : Computes("consist", 0, 0, 0, f, MaxLeaves)
    BY <2>0, TreesLookDown, FunctionExists
  <2>2. Least("consist") = 1 BY DEF Least, Loops
  <2>3. \A i : ValueAt("consist", 0, 0, 0, f, i) = ConsistAt(f, i) BY DEF ValueAt
  <2>4. D(f) BY <2>1, <2>2, <2>3 DEF Computes
  <2> QED BY <2>4
<1> HIDE DEF D
<1>3. D(Merkle!ConsistencyProof) BY <1>1, <1>2, Zenon
<1>4. PICK f : f = Merkle!ConsistencyProof OBVIOUS
<1>5. f = [n \in 1 .. MaxLeaves |-> ConsistAt(f, n)] BY <1>3, <1>4 DEF D
<1>6. \A n \in 1 .. MaxLeaves : f[n] = ConsistAt(f, n) BY <1>5
<1> QED BY <1>4, <1>6

\* The functions that the verifiers compute.
ReplaysInclusion(f, leaf, path) == \A k \in 1 .. MaxLeaves : f[k] = IncludedAt(f, leaf, path, k)
ReplaysConsistency(f, path) == \A k \in 1 .. MaxLeaves : f[k] = ConsistentAt(f, path, k)
ReplaysMap(f, key, value, siblings) ==
  \A h \in 0 .. Depth : f[h] = UpAt(f, key, value, siblings, h)

\* There is such a function for a path of _verify_inclusion,
LEMMA InclusionReplays ==
  ASSUME Merkle!MerkleAssumption, NEW leaf, NEW path, NEW i, NEW n
  PROVE  \E f : /\ ReplaysInclusion(f, leaf, path)
                /\ Merkle!ReplayInclusion(leaf, i, n, path) = f[n][i][Len(path)]
<1> DEFINE D(f) == f = [k \in 1 .. MaxLeaves |-> IncludedAt(f, leaf, path, k)]
<1>1. Merkle!ReplayInclusion(leaf, i, n, path) = (CHOOSE f : D(f))[n][i][Len(path)]
  BY Zenon DEF Merkle!ReplayInclusion, IncludedAt
<1>2. \E f : D(f)
  <2>0. "included" \in Trees /\ MaxLeaves \in Nat BY DEF Trees, Merkle!MerkleAssumption
  <2>1. PICK f : Computes("included", leaf, path, 0, f, MaxLeaves)
    BY <2>0, TreesLookDown, FunctionExists
  <2>2. Least("included") = 1 BY DEF Least, Loops
  <2>3. \A k : ValueAt("included", leaf, path, 0, f, k) = IncludedAt(f, leaf, path, k) BY DEF ValueAt
  <2>4. D(f) BY <2>1, <2>2, <2>3 DEF Computes
  <2> QED BY <2>4
<1> HIDE DEF D
<1>3. D(CHOOSE f : D(f)) BY <1>2, Zenon
<1>4. PICK f : f = (CHOOSE g : D(g)) OBVIOUS
<1>5. D(f) /\ Merkle!ReplayInclusion(leaf, i, n, path) = f[n][i][Len(path)] BY <1>1, <1>3, <1>4
<1>6. ReplaysInclusion(f, leaf, path)
  <2>1. f = [k \in 1 .. MaxLeaves |-> IncludedAt(f, leaf, path, k)] BY <1>5 DEF D
  <2> QED BY <2>1 DEF ReplaysInclusion
<1> QED BY <1>5, <1>6

\* and for one of _verify_consistency.
LEMMA ConsistencyReplays ==
  ASSUME Merkle!MerkleAssumption, NEW path, NEW i, NEW n
  PROVE  \E f : /\ ReplaysConsistency(f, path)
                /\ Merkle!ReplayConsistency(i, n, path) = f[n][i][Len(path)]
<1> DEFINE D(f) == f = [k \in 1 .. MaxLeaves |-> ConsistentAt(f, path, k)]
<1>1. Merkle!ReplayConsistency(i, n, path) = (CHOOSE f : D(f))[n][i][Len(path)]
  BY Zenon DEF Merkle!ReplayConsistency, ConsistentAt
<1>2. \E f : D(f)
  <2>0. "consistent" \in Trees /\ MaxLeaves \in Nat BY DEF Trees, Merkle!MerkleAssumption
  <2>1. PICK f : Computes("consistent", path, 0, 0, f, MaxLeaves)
    BY <2>0, TreesLookDown, FunctionExists
  <2>2. Least("consistent") = 1 BY DEF Least, Loops
  <2>3. \A k : ValueAt("consistent", path, 0, 0, f, k) = ConsistentAt(f, path, k) BY DEF ValueAt
  <2>4. D(f) BY <2>1, <2>2, <2>3 DEF Computes
  <2> QED BY <2>4
<1> HIDE DEF D
<1>3. D(CHOOSE f : D(f)) BY <1>2, Zenon
<1>4. PICK f : f = (CHOOSE g : D(g)) OBVIOUS
<1>5. D(f) /\ Merkle!ReplayConsistency(i, n, path) = f[n][i][Len(path)] BY <1>1, <1>3, <1>4
<1>6. ReplaysConsistency(f, path)
  <2>1. f = [k \in 1 .. MaxLeaves |-> ConsistentAt(f, path, k)] BY <1>5 DEF D
  <2> QED BY <2>1 DEF ReplaysConsistency
<1> QED BY <1>5, <1>6

\* The root of a run of leaves.
LEMMA RootIs ==
  ASSUME Merkle!MerkleAssumption, NEW n \in 1 .. MaxLeaves, NEW lo \in Merkle!Starts(n)
  PROVE  /\ n = 1 => Merkle!Root[n][lo] = Merkle!Leaf(lo)
         /\ n # 1 => Merkle!Root[n][lo] = Merkle!Node(Merkle!Root[Merkle!Split(n)][lo], Merkle!Root[n - Merkle!Split(n)][lo + Merkle!Split(n)])
         /\ Merkle!Root[n][lo] # Merkle!Failed
<1>1. Merkle!Root[n] = RootAt(Merkle!Root, n) BY RootComputes
<1>2. /\ n = 1 => Merkle!Root[n][lo] = Merkle!Leaf(lo)
      /\ n # 1 => Merkle!Root[n][lo] = Merkle!Node(Merkle!Root[Merkle!Split(n)][lo], Merkle!Root[n - Merkle!Split(n)][lo + Merkle!Split(n)])
  BY <1>1 DEF RootAt
<1> QED BY <1>2, Terms

\* The hashes of runs of leaves.
RunHashes == {Merkle!Root[p[1]][p[2]] : p \in (1 .. MaxLeaves) \X (1 .. MaxLeaves)}

\* The root of a run is one of them.
LEMMA RunsAreHashed ==
  ASSUME Merkle!MerkleAssumption, NEW n \in 1 .. MaxLeaves, NEW lo \in Merkle!Starts(n)
  PROVE  Merkle!Root[n][lo] \in RunHashes
<1>1. lo \in 1 .. MaxLeaves BY DEF Merkle!MerkleAssumption, Merkle!Starts
<1>2. <<n, lo>> \in (1 .. MaxLeaves) \X (1 .. MaxLeaves) BY <1>1
<1>3. <<n, lo>>[1] = n /\ <<n, lo>>[2] = lo OBVIOUS
<1> QED BY <1>2, <1>3, Zenon DEF RunHashes

\* The audit path of the i-th leaf of a run.
LEMMA InclusionProofIs ==
  ASSUME Merkle!MerkleAssumption, NEW n \in 1 .. MaxLeaves, NEW lo \in Merkle!Starts(n), NEW i \in 1 .. n,
         NEW k, k = Merkle!Split(n)
  PROVE  /\ n = 1 => Merkle!InclusionProof[n][lo][i] = <<>>
         /\ n # 1 /\ i <= k =>
              Merkle!InclusionProof[n][lo][i] = Longer(Merkle!InclusionProof[k][lo][i], Merkle!Root[n - k][lo + k])
         /\ n # 1 /\ ~(i <= k) =>
              Merkle!InclusionProof[n][lo][i] = Longer(Merkle!InclusionProof[n - k][lo + k][i - k], Merkle!Root[k][lo])
<1>1. Merkle!InclusionProof[n] = IncludeAt(Merkle!InclusionProof, n) BY InclusionComputes
<1> QED BY <1>1 DEF IncludeAt

\* The consistency proof of the first m leaves of a run.
LEMMA ConsistencyProofIs ==
  ASSUME Merkle!MerkleAssumption, NEW n \in 1 .. MaxLeaves, NEW lo \in Merkle!Starts(n), NEW m \in 1 .. n,
         NEW k, k = Merkle!Split(n)
  PROVE  /\ m = n => Merkle!ConsistencyProof[n][lo][m] = <<Merkle!Root[n][lo]>>
         /\ m # n /\ m <= k =>
              Merkle!ConsistencyProof[n][lo][m]
                = Longer(Merkle!ConsistencyProof[k][lo][m], Merkle!Root[n - k][lo + k])
         /\ m # n /\ ~(m <= k) =>
              Merkle!ConsistencyProof[n][lo][m]
                = Longer(Merkle!ConsistencyProof[n - k][lo + k][m - k], Merkle!Root[k][lo])
<1>1. Merkle!ConsistencyProof[n] = ConsistAt(Merkle!ConsistencyProof, n) BY ConsistencyComputes
<1> QED BY <1>1 DEF ConsistAt

\* Both kinds of proof are sequences of such hashes.
LEMMA PathsAreHashes ==
  ASSUME Merkle!MerkleAssumption
  PROVE  \A n \in 1 .. MaxLeaves : \A lo \in Merkle!Starts(n) : \A i \in 1 .. n :
           /\ Merkle!InclusionProof[n][lo][i] \in Seq(RunHashes)
           /\ Merkle!ConsistencyProof[n][lo][i] \in Seq(RunHashes)
           /\ Merkle!ConsistencyProof[n][lo][i] # <<>>
<1> DEFINE Good(n) == \A lo \in Merkle!Starts(n) : \A i \in 1 .. n :
                        /\ Merkle!InclusionProof[n][lo][i] \in Seq(RunHashes)
                        /\ Merkle!ConsistencyProof[n][lo][i] \in Seq(RunHashes)
                        /\ Merkle!ConsistencyProof[n][lo][i] # <<>>
           T == {n \in 1 .. MaxLeaves : ~Good(n)}
<1>0. MaxLeaves \in Nat BY DEF Merkle!MerkleAssumption
<1>1. SUFFICES ASSUME T # {} PROVE FALSE OBVIOUS
<1>2. PICK n \in T : \A y \in T : n <= y
  <2>1. T \subseteq Nat BY <1>0
  <2> HIDE DEF T
  <2> QED BY <1>1, <2>1, LeastNumber
<1>3. n \in 1 .. MaxLeaves /\ ~Good(n) OBVIOUS
<1>4. \A k \in 1 .. (n - 1) : Good(k)
  <2> SUFFICES ASSUME NEW k \in 1 .. (n - 1) PROVE Good(k) OBVIOUS
  <2>1. k \in 1 .. MaxLeaves /\ ~(n <= k) BY <1>0, <1>3
  <2> HIDE DEF Good
  <2> QED BY <2>1, <1>2
<1>5. ASSUME NEW lo \in Merkle!Starts(n), NEW i \in 1 .. n
      PROVE  /\ Merkle!InclusionProof[n][lo][i] \in Seq(RunHashes)
             /\ Merkle!ConsistencyProof[n][lo][i] \in Seq(RunHashes)
             /\ Merkle!ConsistencyProof[n][lo][i] # <<>>
  <2>a. \A q \in Seq(RunHashes) : \A x \in RunHashes :
          Longer(q, x) \in Seq(RunHashes) /\ Longer(q, x) # <<>>
    BY DEF Longer
  <2>b. \A x \in RunHashes : <<x>> \in Seq(RunHashes) /\ <<x>> # <<>> OBVIOUS
  <2>1. Merkle!Root[n][lo] \in RunHashes BY <1>3, RunsAreHashed
  <2>2. CASE n = 1
    <3>1. i = n BY <2>2
    <3>2. Merkle!InclusionProof[n][lo][i] = <<>> /\ Merkle!ConsistencyProof[n][lo][i] = <<Merkle!Root[n][lo]>>
      BY <3>1, <2>2, <1>3, InclusionProofIs, ConsistencyProofIs
    <3>3. <<>> \in Seq(RunHashes) OBVIOUS
    <3> QED BY <3>2, <3>3, <2>1, <2>b
  <2>3. CASE n # 1
    <3>1. PICK k : k = Merkle!Split(n) OBVIOUS
    <3>2. /\ k \in 1 .. (n - 1) /\ k \in 1 .. MaxLeaves /\ lo \in Merkle!Starts(k)
          /\ n - k \in 1 .. (n - 1) /\ n - k \in 1 .. MaxLeaves /\ lo + k \in Merkle!Starts(n - k)
      BY <3>1, <2>3, <1>3, PartsAreRuns
    <3>3. Merkle!Root[k][lo] \in RunHashes /\ Merkle!Root[n - k][lo + k] \in RunHashes
      BY <3>2, RunsAreHashed
    <3>4. Good(k) /\ Good(n - k) BY <3>2, <1>4
    <3>5. i <= k => i \in 1 .. k BY <3>2
    <3>6. ~(i <= k) => i - k \in 1 .. (n - k) BY <3>2, <1>3, <1>0
    <3> DEFINE P == Merkle!InclusionProof[n][lo][i]
               C == Merkle!ConsistencyProof[n][lo][i]
    <3>7. CASE i <= k
      <4>1. /\ Merkle!InclusionProof[k][lo][i] \in Seq(RunHashes)
            /\ Merkle!ConsistencyProof[k][lo][i] \in Seq(RunHashes)
        BY <3>2, <3>4, <3>5, <3>7
      <4>2. P = Longer(Merkle!InclusionProof[k][lo][i], Merkle!Root[n - k][lo + k])
        BY <3>1, <3>7, <2>3, <1>3, InclusionProofIs
      <4>3. i # n BY <3>2, <3>7, <1>3
      <4>4. C = Longer(Merkle!ConsistencyProof[k][lo][i], Merkle!Root[n - k][lo + k])
        BY <3>1, <3>7, <4>3, <1>3, ConsistencyProofIs
      <4> HIDE DEF P, C, Good
      <4>5. P \in Seq(RunHashes) /\ C \in Seq(RunHashes) /\ C # <<>>
        BY <4>1, <4>2, <4>4, <3>3, <2>a
      <4> QED BY <4>5 DEF P, C
    <3>8. CASE ~(i <= k)
      <4>1. /\ Merkle!InclusionProof[n - k][lo + k][i - k] \in Seq(RunHashes)
            /\ Merkle!ConsistencyProof[n - k][lo + k][i - k] \in Seq(RunHashes)
        BY <3>2, <3>4, <3>6, <3>8
      <4>2. P = Longer(Merkle!InclusionProof[n - k][lo + k][i - k], Merkle!Root[k][lo])
        BY <3>1, <3>8, <2>3, <1>3, InclusionProofIs
      <4>3. IF i = n THEN C = <<Merkle!Root[n][lo]>>
            ELSE C = Longer(Merkle!ConsistencyProof[n - k][lo + k][i - k], Merkle!Root[k][lo])
        BY <3>1, <3>8, <1>3, ConsistencyProofIs
      <4> HIDE DEF P, C, Good
      <4>5. P \in Seq(RunHashes) BY <4>1, <4>2, <3>3, <2>a
      <4>6. C \in Seq(RunHashes) /\ C # <<>> BY <4>1, <4>3, <3>3, <2>1, <2>a, <2>b
      <4> QED BY <4>5, <4>6 DEF P, C
    <3> QED BY <3>7, <3>8
  <2> QED BY <2>2, <2>3
<1> QED BY <1>3, <1>5

\* Only the leaf at its index leads to the root of a run.
BindsLeaf(f, leaf, path) ==
  \A n \in 1 .. MaxLeaves : \A lo \in Merkle!Starts(n) : \A i \in 1 .. n :
    \A j \in 0 .. Len(path) : f[n][i][j] = Merkle!Root[n][lo] => leaf = Merkle!Leaf(lo + i - 1)

(* A path that reproduces the root of a run starts from the leaf at its    *)
(* index: every step up compares both halves.                              *)
LEMMA InclusionBinds ==
  ASSUME Merkle!MerkleAssumption, NEW leaf, NEW path, Len(path) \in Nat, NEW f,
         ReplaysInclusion(f, leaf, path)
  PROVE  BindsLeaf(f, leaf, path)
<1> DEFINE Good(n) == \A lo \in Merkle!Starts(n) : \A i \in 1 .. n : \A j \in 0 .. Len(path) :
                        f[n][i][j] = Merkle!Root[n][lo] => leaf = Merkle!Leaf(lo + i - 1)
           T == {n \in 1 .. MaxLeaves : ~Good(n)}
<1>0. MaxLeaves \in Nat BY DEF Merkle!MerkleAssumption
<1>1. SUFFICES ASSUME T # {} PROVE FALSE BY DEF BindsLeaf
<1>2. PICK n \in T : \A y \in T : n <= y
  <2>1. T \subseteq Nat BY <1>0
  <2> HIDE DEF T
  <2> QED BY <1>1, <2>1, LeastNumber
<1>3. n \in 1 .. MaxLeaves /\ ~Good(n) OBVIOUS
<1>4. \A k \in 1 .. (n - 1) : Good(k)
  <2> SUFFICES ASSUME NEW k \in 1 .. (n - 1) PROVE Good(k) OBVIOUS
  <2>1. k \in 1 .. MaxLeaves /\ ~(n <= k) BY <1>0, <1>3
  <2> HIDE DEF Good
  <2> QED BY <2>1, <1>2
<1>g. \A k \in 1 .. (n - 1) : 
        \A lo \in Merkle!Starts(k) : \A i \in 1 .. k : \A j \in 0 .. Len(path) :
          f[k][i][j] = Merkle!Root[k][lo] => leaf = Merkle!Leaf(lo + i - 1)
  BY <1>4
<1> HIDE DEF Good, T
<1>5. ASSUME NEW lo \in Merkle!Starts(n), NEW i \in 1 .. n, NEW j \in 0 .. Len(path),
             f[n][i][j] = Merkle!Root[n][lo]
      PROVE  leaf = Merkle!Leaf(lo + i - 1)
  <2>r. f[n] = IncludedAt(f, leaf, path, n) BY <1>3 DEF ReplaysInclusion
  <2>1. Merkle!Root[n][lo] # Merkle!Failed BY <1>3, RootIs
  <2>l. lo \in Nat BY <1>0, <1>3 DEF Merkle!Starts
  <2>2. CASE n = 1
    <3>1. Merkle!Root[n][lo] = Merkle!Leaf(lo) BY <2>2, <1>3, RootIs
    <3>2. f[n][i][j] = leaf BY <2>1, <2>2, <1>5, <1>3, <2>r DEF IncludedAt
    <3>3. lo + i - 1 = lo BY <2>2, <2>l
    <3> QED BY <3>1, <3>2, <3>3, <1>5
  <2>3. CASE n # 1
    <3>1. PICK k : k = Merkle!Split(n) OBVIOUS
    <3>2. /\ k \in 1 .. (n - 1) /\ k \in 1 .. MaxLeaves /\ lo \in Merkle!Starts(k)
          /\ n - k \in 1 .. (n - 1) /\ n - k \in 1 .. MaxLeaves /\ lo + k \in Merkle!Starts(n - k)
      BY <3>1, <2>3, <1>3, PartsAreRuns
    <3>3. Merkle!Root[n][lo] = Merkle!Node(Merkle!Root[k][lo], Merkle!Root[n - k][lo + k]) BY <3>1, <2>3, <1>3, RootIs
    <3>4. j # 0 BY <2>1, <2>3, <1>5, <1>3, <2>r DEF IncludedAt
    <3>5. j - 1 \in 0 .. Len(path) BY <3>4
    <3>6. CASE i <= k
      <4>1. f[n][i][j] = IF f[k][i][j - 1] = Merkle!Failed THEN Merkle!Failed
                         ELSE Merkle!Node(f[k][i][j - 1], path[j])
        BY <3>1, <3>4, <3>6, <2>3, <1>3, <2>r DEF IncludedAt
      <4>a. Merkle!Node(f[k][i][j - 1], path[j]) = Merkle!Node(Merkle!Root[k][lo], Merkle!Root[n - k][lo + k])
        BY <4>1, <3>3, <2>1, <1>5
      <4>2. f[k][i][j - 1] = Merkle!Root[k][lo] BY ONLY <4>a, NodeBinds
      <4>3. i \in 1 .. k BY <3>2, <3>6
      <4> QED BY <4>2, <4>3, <3>2, <3>5, <1>g
    <3>7. CASE ~(i <= k)
      <4>1. f[n][i][j] = IF f[n - k][i - k][j - 1] = Merkle!Failed THEN Merkle!Failed
                         ELSE Merkle!Node(path[j], f[n - k][i - k][j - 1])
        BY <3>1, <3>4, <3>7, <2>3, <1>3, <2>r DEF IncludedAt
      <4>a. Merkle!Node(path[j], f[n - k][i - k][j - 1]) = Merkle!Node(Merkle!Root[k][lo], Merkle!Root[n - k][lo + k])
        BY <4>1, <3>3, <2>1, <1>5
      <4>2. f[n - k][i - k][j - 1] = Merkle!Root[n - k][lo + k] BY ONLY <4>a, NodeBinds
      <4>3. i - k \in 1 .. (n - k) BY <3>2, <3>7, <1>3, <1>0
      <4>4. (lo + k) + (i - k) - 1 = lo + i - 1 BY <2>l, <3>2
      <4> QED BY <4>2, <4>3, <4>4, <3>2, <3>5, <1>g
    <3> QED BY <3>6, <3>7
  <2> QED BY <2>2, <2>3
<1>6. Good(n) BY <1>5 DEF Good
<1> QED BY <1>3, <1>6

(* A path that reproduces the new root gives the root of the first i leaves. *)
LEMMA ConsistencyBinds ==
  ASSUME Merkle!MerkleAssumption, NEW path, Len(path) \in Nat, NEW f,
         ReplaysConsistency(f, path)
  PROVE  \A n \in 1 .. MaxLeaves : \A lo \in Merkle!Starts(n) : \A i \in 1 .. n :
           \A j \in 0 .. Len(path) :
             f[n][i][j].new = Merkle!Root[n][lo] => f[n][i][j].old = Merkle!Root[i][lo]
<1> DEFINE Good(n) == \A lo \in Merkle!Starts(n) : \A i \in 1 .. n : \A j \in 0 .. Len(path) :
                        f[n][i][j].new = Merkle!Root[n][lo] => f[n][i][j].old = Merkle!Root[i][lo]
           T == {n \in 1 .. MaxLeaves : ~Good(n)}
<1>0. MaxLeaves \in Nat BY DEF Merkle!MerkleAssumption
<1>1. SUFFICES ASSUME T # {} PROVE FALSE OBVIOUS
<1>2. PICK n \in T : \A y \in T : n <= y
  <2>1. T \subseteq Nat BY <1>0
  <2> HIDE DEF T
  <2> QED BY <1>1, <2>1, LeastNumber
<1>3. n \in 1 .. MaxLeaves /\ ~Good(n) OBVIOUS
<1>4. \A k \in 1 .. (n - 1) : Good(k)
  <2> SUFFICES ASSUME NEW k \in 1 .. (n - 1) PROVE Good(k) OBVIOUS
  <2>1. k \in 1 .. MaxLeaves /\ ~(n <= k) BY <1>0, <1>3
  <2> HIDE DEF Good
  <2> QED BY <2>1, <1>2
<1>g. \A k \in 1 .. (n - 1) : 
        \A lo \in Merkle!Starts(k) : \A i \in 1 .. k : \A j \in 0 .. Len(path) :
          f[k][i][j].new = Merkle!Root[k][lo] => f[k][i][j].old = Merkle!Root[i][lo]
  BY <1>4
<1> HIDE DEF Good, T
<1>5. ASSUME NEW lo \in Merkle!Starts(n), NEW i \in 1 .. n, NEW j \in 0 .. Len(path),
             f[n][i][j].new = Merkle!Root[n][lo]
      PROVE  f[n][i][j].old = Merkle!Root[i][lo]
  <2>r. f[n] = ConsistentAt(f, path, n) BY <1>3 DEF ReplaysConsistency
  <2>1. Merkle!Root[n][lo] # Merkle!Failed BY <1>3, RootIs
  <2>n. Merkle!NoRoots.new = Merkle!Failed BY DEF Merkle!NoRoots
  <2>2. j # 0 BY <2>1, <2>n, <1>5, <1>3, <2>r DEF ConsistentAt, Merkle!ReplayOld
  <2>3. CASE i = n
    <3>1. j = 1 BY <2>1, <2>2, <2>3, <2>n, <1>5, <1>3, <2>r DEF ConsistentAt, Merkle!ReplayOld
    <3>2. f[n][i][j] = [new |-> path[1], old |-> path[1]]
      BY <3>1, <2>3, <1>3, <2>r DEF ConsistentAt, Merkle!ReplayOld
    <3> QED BY <3>2, <2>3, <1>5
  <2>4. CASE i # n
    <3>0. n # 1 BY <2>4
    <3>1. PICK k : k = Merkle!Split(n) OBVIOUS
    <3>2. /\ k \in 1 .. (n - 1) /\ k \in 1 .. MaxLeaves /\ lo \in Merkle!Starts(k)
          /\ n - k \in 1 .. (n - 1) /\ n - k \in 1 .. MaxLeaves /\ lo + k \in Merkle!Starts(n - k)
      BY <3>0, <3>1, <1>3, PartsAreRuns
    <3>3. Merkle!Root[n][lo] = Merkle!Node(Merkle!Root[k][lo], Merkle!Root[n - k][lo + k]) BY <3>0, <3>1, <1>3, RootIs
    <3>5. j - 1 \in 0 .. Len(path) BY <2>2
    <3>6. CASE i <= k
      <4>1. f[n][i][j] = IF f[k][i][j - 1] = Merkle!NoRoots THEN Merkle!NoRoots
                         ELSE [new |-> Merkle!Node(f[k][i][j - 1].new, path[j]),
                               old |-> f[k][i][j - 1].old]
        BY <3>1, <3>6, <2>2, <2>4, <1>3, <2>r DEF ConsistentAt, Merkle!ReplayOld
      <4>2. /\ f[n][i][j].new = Merkle!Node(f[k][i][j - 1].new, path[j])
            /\ f[n][i][j].old = f[k][i][j - 1].old
        BY <4>1, <2>1, <2>n, <1>5
      <4>a. Merkle!Node(f[k][i][j - 1].new, path[j]) = Merkle!Node(Merkle!Root[k][lo], Merkle!Root[n - k][lo + k])
        BY <4>2, <3>3, <1>5
      <4>3. f[k][i][j - 1].new = Merkle!Root[k][lo] BY ONLY <4>a, NodeBinds
      <4>4. i \in 1 .. k BY <3>2, <3>6
      <4> QED BY <4>2, <4>3, <4>4, <3>2, <3>5, <1>g
    <3>7. CASE ~(i <= k)
      <4> DEFINE r == f[n - k][i - k][j - 1]
      <4>1. f[n][i][j] = IF r = Merkle!NoRoots THEN Merkle!NoRoots
                         ELSE [new |-> Merkle!Node(path[j], r.new), old |-> Merkle!Node(path[j], r.old)]
        BY <3>1, <3>7, <2>2, <2>4, <1>3, <2>r DEF ConsistentAt, Merkle!ReplayOld
      <4>2. /\ f[n][i][j].new = Merkle!Node(path[j], r.new)
            /\ f[n][i][j].old = Merkle!Node(path[j], r.old)
        BY <4>1, <2>1, <2>n, <1>5
      <4>a. Merkle!Node(path[j], r.new) = Merkle!Node(Merkle!Root[k][lo], Merkle!Root[n - k][lo + k])
        BY <4>2, <3>3, <1>5
      <4>3. r.new = Merkle!Root[n - k][lo + k] /\ path[j] = Merkle!Root[k][lo] BY ONLY <4>a, NodeBinds
      <4>4. i - k \in 1 .. (n - k) BY <3>2, <3>7, <1>3, <1>0
      <4>5. r.old = Merkle!Root[i - k][lo + k] BY <4>3, <4>4, <3>2, <3>5, <1>g
      <4>6. Merkle!Root[i][lo] = Merkle!Node(Merkle!Root[k][lo], Merkle!Root[i - k][lo + k])
        <5>1. i \in 1 .. MaxLeaves /\ i # 1 /\ lo \in Merkle!Starts(i) /\ i \in Nat /\ 2 <= i /\ i <= n
              /\ n \in Nat /\ k < i
          BY <3>2, <3>7, <1>3, <1>0 DEF Merkle!Starts
        <5>2. Merkle!Split(i) = k BY <5>1, <3>1, SplitsAgree
        <5> QED BY <5>1, <5>2, RootIs
      <4> QED BY <4>2, <4>3, <4>5, <4>6
    <3> QED BY <3>6, <3>7
  <2> QED BY <2>3, <2>4
<1>6. Good(n) BY <1>5 DEF Good
<1> QED BY <1>3, <1>6

\* The first j elements of a path are those of q.
Begins(path, q, j) == Len(q) = j /\ \A x \in 1 .. j : path[x] = q[x]

\* Then all but the last of them are those of the shorter path.
LEMMA BeginsBefore ==
  ASSUME NEW q \in Seq(RunHashes), NEW h \in RunHashes, NEW path, NEW j \in Nat,
         Begins(path, Longer(q, h), j)
  PROVE  j # 0 /\ path[j] = h /\ Begins(path, q, j - 1)
<1>1. PICK p : p = Longer(q, h) OBVIOUS
<1>2. Len(q) \in Nat OBVIOUS
<1>3. /\ Len(p) = Len(q) + 1 /\ p[Len(q) + 1] = h
      /\ \A x \in 1 .. Len(q) : p[x] = q[x]
  BY <1>1 DEF Longer
<1>4. Len(p) = j /\ \A x \in 1 .. j : path[x] = p[x] BY <1>1 DEF Begins
<1>5. Len(q) = j - 1 /\ j # 0 BY <1>2, <1>3, <1>4
<1>6. path[j] = h BY <1>3, <1>4, <1>5
<1>7. \A x \in 1 .. (j - 1) : path[x] = q[x] BY <1>3, <1>4, <1>5
<1> QED BY <1>5, <1>6, <1>7 DEF Begins

\* The audit path of a leaf leads to the root of its run.
ReproducesRoot(f, leaf, path) ==
  \A n \in 1 .. MaxLeaves : \A lo \in Merkle!Starts(n) : \A i \in 1 .. n :
    \A j \in 0 .. Len(path) :
      leaf = Merkle!Leaf(lo + i - 1) /\ Begins(path, Merkle!InclusionProof[n][lo][i], j)
        => f[n][i][j] = Merkle!Root[n][lo]

\* The audit path of a leaf reproduces the root.
LEMMA InclusionReproduces ==
  ASSUME Merkle!MerkleAssumption, NEW leaf, NEW path, Len(path) \in Nat, NEW f,
         ReplaysInclusion(f, leaf, path)
  PROVE  ReproducesRoot(f, leaf, path)
<1> DEFINE Good(n) == \A lo \in Merkle!Starts(n) : \A i \in 1 .. n : \A j \in 0 .. Len(path) :
                        leaf = Merkle!Leaf(lo + i - 1) /\ Begins(path, Merkle!InclusionProof[n][lo][i], j)
                          => f[n][i][j] = Merkle!Root[n][lo]
           T == {n \in 1 .. MaxLeaves : ~Good(n)}
<1>0. MaxLeaves \in Nat BY DEF Merkle!MerkleAssumption
<1>1. SUFFICES ASSUME T # {} PROVE FALSE BY DEF ReproducesRoot
<1>2. PICK n \in T : \A y \in T : n <= y
  <2>1. T \subseteq Nat BY <1>0
  <2> HIDE DEF T
  <2> QED BY <1>1, <2>1, LeastNumber
<1>3. n \in 1 .. MaxLeaves /\ ~Good(n) OBVIOUS
<1>4. \A k \in 1 .. (n - 1) : Good(k)
  <2> SUFFICES ASSUME NEW k \in 1 .. (n - 1) PROVE Good(k) OBVIOUS
  <2>1. k \in 1 .. MaxLeaves /\ ~(n <= k) BY <1>0, <1>3
  <2> HIDE DEF Good
  <2> QED BY <2>1, <1>2
<1>g. \A k \in 1 .. (n - 1) :
        \A lo \in Merkle!Starts(k) : \A i \in 1 .. k : \A j \in 0 .. Len(path) :
          leaf = Merkle!Leaf(lo + i - 1) /\ Begins(path, Merkle!InclusionProof[k][lo][i], j)
            => f[k][i][j] = Merkle!Root[k][lo]
  BY <1>4
<1> HIDE DEF Good, T
<1>5. ASSUME NEW lo \in Merkle!Starts(n), NEW i \in 1 .. n, NEW j \in 0 .. Len(path),
             leaf = Merkle!Leaf(lo + i - 1), Begins(path, Merkle!InclusionProof[n][lo][i], j)
      PROVE  f[n][i][j] = Merkle!Root[n][lo]
  <2>r. f[n] = IncludedAt(f, leaf, path, n) BY <1>3 DEF ReplaysInclusion
  <2>l. lo \in Nat BY <1>0, <1>3 DEF Merkle!Starts
  <2>2. CASE n = 1
    <3>1. Merkle!Root[n][lo] = Merkle!Leaf(lo) BY <2>2, <1>3, RootIs
    <3>2. Merkle!InclusionProof[n][lo][i] = <<>> BY <2>2, <1>3, InclusionProofIs
    <3>3. j = 0 BY <3>2, <1>5 DEF Begins
    <3>4. f[n][i][j] = leaf BY <3>3, <2>2, <2>r, <1>3 DEF IncludedAt
    <3>5. lo + i - 1 = lo BY <2>2, <2>l
    <3> QED BY <3>1, <3>4, <3>5, <1>5
  <2>3. CASE n # 1
    <3>0. n # 1 BY <2>3
    <3>1. PICK k : k = Merkle!Split(n) OBVIOUS
    <3>2. /\ k \in 1 .. (n - 1) /\ k \in 1 .. MaxLeaves /\ lo \in Merkle!Starts(k)
          /\ n - k \in 1 .. (n - 1) /\ n - k \in 1 .. MaxLeaves /\ lo + k \in Merkle!Starts(n - k)
      BY <3>0, <3>1, <1>3, PartsAreRuns
    <3>3. Merkle!Root[n][lo] = Merkle!Node(Merkle!Root[k][lo], Merkle!Root[n - k][lo + k]) BY <3>0, <3>1, <1>3, RootIs
    <3>4. /\ Merkle!Root[k][lo] \in RunHashes /\ Merkle!Root[k][lo] # Merkle!Failed
          /\ Merkle!Root[n - k][lo + k] \in RunHashes /\ Merkle!Root[n - k][lo + k] # Merkle!Failed
      BY <3>2, RunsAreHashed, RootIs
    <3>6. CASE i <= k
      <4>1. i \in 1 .. k BY <3>2, <3>6
      <4>2. Merkle!InclusionProof[n][lo][i] = Longer(Merkle!InclusionProof[k][lo][i], Merkle!Root[n - k][lo + k])
        BY <3>1, <3>6, <2>3, <1>3, InclusionProofIs
      <4>3. Merkle!InclusionProof[k][lo][i] \in Seq(RunHashes) BY <4>1, <3>2, PathsAreHashes
      <4>4. j # 0 /\ path[j] = Merkle!Root[n - k][lo + k]
            /\ Begins(path, Merkle!InclusionProof[k][lo][i], j - 1)
        BY <4>2, <4>3, <3>4, <1>5, BeginsBefore
      <4>5. j - 1 \in 0 .. Len(path) BY <4>4
      <4>6. f[k][i][j - 1] = Merkle!Root[k][lo] BY <4>1, <4>4, <4>5, <3>2, <1>5, <1>g
      <4>7. f[n][i][j] = IF f[k][i][j - 1] = Merkle!Failed THEN Merkle!Failed
                         ELSE Merkle!Node(f[k][i][j - 1], path[j])
        BY <3>1, <4>4, <3>6, <2>3, <1>3, <2>r DEF IncludedAt
      <4> QED BY <4>4, <4>6, <4>7, <3>3, <3>4
    <3>7. CASE ~(i <= k)
      <4>1. i - k \in 1 .. (n - k) BY <3>2, <3>7, <1>3, <1>0
      <4>2. Merkle!InclusionProof[n][lo][i] = Longer(Merkle!InclusionProof[n - k][lo + k][i - k], Merkle!Root[k][lo])
        BY <3>1, <3>7, <2>3, <1>3, InclusionProofIs
      <4>3. Merkle!InclusionProof[n - k][lo + k][i - k] \in Seq(RunHashes)
        BY <4>1, <3>2, PathsAreHashes
      <4>4. j # 0 /\ path[j] = Merkle!Root[k][lo]
            /\ Begins(path, Merkle!InclusionProof[n - k][lo + k][i - k], j - 1)
        BY <4>2, <4>3, <3>4, <1>5, BeginsBefore
      <4>5. j - 1 \in 0 .. Len(path) /\ (lo + k) + (i - k) - 1 = lo + i - 1
        BY <4>4, <2>l, <3>2
      <4>6. f[n - k][i - k][j - 1] = Merkle!Root[n - k][lo + k]
        BY <4>1, <4>4, <4>5, <3>2, <1>5, <1>g
      <4>7. f[n][i][j] = IF f[n - k][i - k][j - 1] = Merkle!Failed THEN Merkle!Failed
                         ELSE Merkle!Node(path[j], f[n - k][i - k][j - 1])
        BY <3>1, <4>4, <3>7, <2>3, <1>3, <2>r DEF IncludedAt
      <4> QED BY <4>4, <4>6, <4>7, <3>3, <3>4
    <3> QED BY <3>6, <3>7
  <2> QED BY <2>2, <2>3
<1>6. Good(n) BY <1>5 DEF Good
<1> QED BY <1>3, <1>6

\* The consistency proof reproduces both roots.
LEMMA ConsistencyReproduces ==
  ASSUME Merkle!MerkleAssumption, NEW path, Len(path) \in Nat, NEW f,
         ReplaysConsistency(f, path)
  PROVE  \A n \in 1 .. MaxLeaves : \A lo \in Merkle!Starts(n) : \A i \in 1 .. n :
           \A j \in 0 .. Len(path) :
             Begins(path, Merkle!ConsistencyProof[n][lo][i], j)
               => f[n][i][j] = [new |-> Merkle!Root[n][lo], old |-> Merkle!Root[i][lo]]
<1> DEFINE Good(n) == \A lo \in Merkle!Starts(n) : \A i \in 1 .. n : \A j \in 0 .. Len(path) :
                        Begins(path, Merkle!ConsistencyProof[n][lo][i], j)
                          => f[n][i][j] = [new |-> Merkle!Root[n][lo], old |-> Merkle!Root[i][lo]]
           T == {n \in 1 .. MaxLeaves : ~Good(n)}
<1>0. MaxLeaves \in Nat BY DEF Merkle!MerkleAssumption
<1>1. SUFFICES ASSUME T # {} PROVE FALSE OBVIOUS
<1>2. PICK n \in T : \A y \in T : n <= y
  <2>1. T \subseteq Nat BY <1>0
  <2> HIDE DEF T
  <2> QED BY <1>1, <2>1, LeastNumber
<1>3. n \in 1 .. MaxLeaves /\ ~Good(n) OBVIOUS
<1>4. \A k \in 1 .. (n - 1) : Good(k)
  <2> SUFFICES ASSUME NEW k \in 1 .. (n - 1) PROVE Good(k) OBVIOUS
  <2>1. k \in 1 .. MaxLeaves /\ ~(n <= k) BY <1>0, <1>3
  <2> HIDE DEF Good
  <2> QED BY <2>1, <1>2
<1>g. \A k \in 1 .. (n - 1) :
        \A lo \in Merkle!Starts(k) : \A i \in 1 .. k : \A j \in 0 .. Len(path) :
          Begins(path, Merkle!ConsistencyProof[k][lo][i], j)
            => f[k][i][j] = [new |-> Merkle!Root[k][lo], old |-> Merkle!Root[i][lo]]
  BY <1>4
<1> HIDE DEF Good, T
<1>5. ASSUME NEW lo \in Merkle!Starts(n), NEW i \in 1 .. n, NEW j \in 0 .. Len(path),
             Begins(path, Merkle!ConsistencyProof[n][lo][i], j)
      PROVE  f[n][i][j] = [new |-> Merkle!Root[n][lo], old |-> Merkle!Root[i][lo]]
  <2>r. f[n] = ConsistentAt(f, path, n) BY <1>3 DEF ReplaysConsistency
  <2>n. Merkle!NoRoots.new = Merkle!Failed BY DEF Merkle!NoRoots
  <2>2. CASE i = n
    <3>1. Merkle!ConsistencyProof[n][lo][i] = <<Merkle!Root[n][lo]>> BY <2>2, <1>3, ConsistencyProofIs
    <3>2. j = 1 /\ path[1] = Merkle!Root[n][lo] BY <3>1, <1>5 DEF Begins
    <3>3. f[n][i][j] = [new |-> path[1], old |-> path[1]]
      BY <3>2, <2>2, <2>r, <1>3 DEF ConsistentAt
    <3> QED BY <3>2, <3>3, <2>2
  <2>3. CASE i # n
    <3>0. n # 1 BY <2>3
    <3>1. PICK k : k = Merkle!Split(n) OBVIOUS
    <3>2. /\ k \in 1 .. (n - 1) /\ k \in 1 .. MaxLeaves /\ lo \in Merkle!Starts(k)
          /\ n - k \in 1 .. (n - 1) /\ n - k \in 1 .. MaxLeaves /\ lo + k \in Merkle!Starts(n - k)
      BY <3>0, <3>1, <1>3, PartsAreRuns
    <3>3. Merkle!Root[n][lo] = Merkle!Node(Merkle!Root[k][lo], Merkle!Root[n - k][lo + k]) BY <3>0, <3>1, <1>3, RootIs
    <3>4. /\ Merkle!Root[k][lo] \in RunHashes /\ Merkle!Root[k][lo] # Merkle!Failed
          /\ Merkle!Root[n - k][lo + k] \in RunHashes /\ Merkle!Root[n - k][lo + k] # Merkle!Failed
      BY <3>2, RunsAreHashed, RootIs
    <3>6. CASE i <= k
      <4>1. i \in 1 .. k BY <3>2, <3>6
      <4>2. Merkle!ConsistencyProof[n][lo][i]
              = Longer(Merkle!ConsistencyProof[k][lo][i], Merkle!Root[n - k][lo + k])
        BY <3>1, <3>6, <2>3, <1>3, ConsistencyProofIs
      <4>3. Merkle!ConsistencyProof[k][lo][i] \in Seq(RunHashes) BY <4>1, <3>2, PathsAreHashes
      <4>4. j # 0 /\ path[j] = Merkle!Root[n - k][lo + k]
            /\ Begins(path, Merkle!ConsistencyProof[k][lo][i], j - 1)
        BY <4>2, <4>3, <3>4, <1>5, BeginsBefore
      <4>5. j - 1 \in 0 .. Len(path) BY <4>4
      <4>6. f[k][i][j - 1] = [new |-> Merkle!Root[k][lo], old |-> Merkle!Root[i][lo]]
        BY <4>1, <4>4, <4>5, <3>2, <1>g
      <4>7. f[n][i][j] = IF f[k][i][j - 1] = Merkle!NoRoots THEN Merkle!NoRoots
                         ELSE [new |-> Merkle!Node(f[k][i][j - 1].new, path[j]),
                               old |-> f[k][i][j - 1].old]
        BY <3>1, <4>4, <3>6, <2>3, <1>3, <2>r DEF ConsistentAt
      <4>8. f[k][i][j - 1] # Merkle!NoRoots BY <4>6, <3>4, <2>n
      <4> QED BY <4>4, <4>6, <4>7, <4>8, <3>3
    <3>7. CASE ~(i <= k)
      <4>1. i - k \in 1 .. (n - k) BY <3>2, <3>7, <1>3, <1>0
      <4>2. Merkle!ConsistencyProof[n][lo][i]
              = Longer(Merkle!ConsistencyProof[n - k][lo + k][i - k], Merkle!Root[k][lo])
        BY <3>1, <3>7, <2>3, <1>3, ConsistencyProofIs
      <4>3. Merkle!ConsistencyProof[n - k][lo + k][i - k] \in Seq(RunHashes)
        BY <4>1, <3>2, PathsAreHashes
      <4>4. j # 0 /\ path[j] = Merkle!Root[k][lo]
            /\ Begins(path, Merkle!ConsistencyProof[n - k][lo + k][i - k], j - 1)
        BY <4>2, <4>3, <3>4, <1>5, BeginsBefore
      <4>5. j - 1 \in 0 .. Len(path) BY <4>4
      <4> DEFINE r == f[n - k][i - k][j - 1]
      <4>6. r = [new |-> Merkle!Root[n - k][lo + k], old |-> Merkle!Root[i - k][lo + k]]
        BY <4>1, <4>4, <4>5, <3>2, <1>g
      <4>7. f[n][i][j] = IF r = Merkle!NoRoots THEN Merkle!NoRoots
                         ELSE [new |-> Merkle!Node(path[j], r.new), old |-> Merkle!Node(path[j], r.old)]
        BY <3>1, <4>4, <3>7, <2>3, <1>3, <2>r DEF ConsistentAt, Merkle!ReplayOld
      <4> HIDE DEF r
      <4>8. r # Merkle!NoRoots BY <4>6, <3>4, <2>n
      <4>9. Merkle!Root[i][lo] = Merkle!Node(Merkle!Root[k][lo], Merkle!Root[i - k][lo + k])
        <5>1. i \in 1 .. MaxLeaves /\ i # 1 /\ lo \in Merkle!Starts(i) /\ i \in Nat /\ 2 <= i /\ i <= n
              /\ n \in Nat /\ k < i
          BY <3>2, <3>7, <1>3, <1>0 DEF Merkle!Starts
        <5>2. Merkle!Split(i) = k BY <5>1, <3>1, SplitsAgree
        <5> QED BY <5>1, <5>2, RootIs
      <4> QED BY <4>4, <4>6, <4>7, <4>8, <4>9, <3>3
    <3> QED BY <3>6, <3>7
  <2> QED BY <2>2, <2>3
<1>6. Good(n) BY <1>5 DEF Good
<1> QED BY <1>3, <1>6

-----------------------------------------------------------------------------
(* The sparse map.                                                         *)

\* The sparse map looks at the height below.
LEMMA MapLooksDown ==
  ASSUME NEW t \in Loops \ {"split"}, NEW a, NEW b, NEW c PROVE LooksDown(t, a, b, c)
<1>1. Least(t) = 0 BY DEF Least
<1> SUFFICES ASSUME NEW f, NEW g, NEW n \in Nat, \A x \in 0 .. (n - 1) : f[x] = g[x]
             PROVE  ValueAt(t, a, b, c, f, n) = ValueAt(t, a, b, c, g, n)
  BY <1>1 DEF LooksDown
<1>2. n # 0 => f[n - 1] = g[n - 1] OBVIOUS
<1>3. CASE t = "default"
  <2>1. DefaultAt(f, n) = DefaultAt(g, n) BY <1>2 DEF DefaultAt
  <2> QED BY <2>1, <1>3 DEF ValueAt
<1>4. CASE t = "map"
  <2>1. MapAt(f, n) = MapAt(g, n) BY <1>2 DEF MapAt
  <2> QED BY <2>1, <1>4 DEF ValueAt
<1>5. CASE t = "up"
  <2>1. UpAt(f, a, b, c, n) = UpAt(g, a, b, c, n) BY <1>2 DEF UpAt
  <2> QED BY <2>1, <1>5 DEF ValueAt
<1> QED BY <1>3, <1>4, <1>5 DEF Loops

\* What an empty subtree hashes to,
LEMMA DefaultComputes ==
  ASSUME Merkle!MerkleAssumption PROVE \A h \in 0 .. Depth : Merkle!Default[h] = DefaultAt(Merkle!Default, h)
<1> DEFINE D(f) == f = [h \in 0 .. Depth |-> DefaultAt(f, h)]
<1>1. Merkle!Default = CHOOSE f : D(f) BY Zenon DEF Merkle!Default, DefaultAt
<1>2. \E f : D(f)
  <2>0. "default" \in Loops /\ Depth \in Nat BY DEF Loops, Merkle!MerkleAssumption
  <2>1. PICK f : Computes("default", 0, 0, 0, f, Depth)
    BY <2>0, MapLooksDown, FunctionExists
  <2>2. Least("default") = 0 BY DEF Least, Loops
  <2>3. \A i : ValueAt("default", 0, 0, 0, f, i) = DefaultAt(f, i) BY DEF ValueAt
  <2>4. D(f) BY <2>1, <2>2, <2>3 DEF Computes
  <2> QED BY <2>4
<1> HIDE DEF D
<1>3. D(Merkle!Default) BY <1>1, <1>2, Zenon
<1>4. PICK f : f = Merkle!Default OBVIOUS
<1>5. f = [h \in 0 .. Depth |-> DefaultAt(f, h)] BY <1>3, <1>4 DEF D
<1>6. \A h \in 0 .. Depth : f[h] = DefaultAt(f, h) BY <1>5
<1> QED BY <1>4, <1>6

\* what a subtree hashes to,
LEMMA MapComputes ==
  ASSUME Merkle!MerkleAssumption PROVE \A h \in 0 .. Depth : Merkle!SmtNode[h] = MapAt(Merkle!SmtNode, h)
<1> DEFINE D(f) == f = [h \in 0 .. Depth |-> MapAt(f, h)]
<1>1. Merkle!SmtNode = CHOOSE f : D(f) BY Zenon DEF Merkle!SmtNode, MapAt
<1>2. \E f : D(f)
  <2>0. "map" \in Loops /\ Depth \in Nat BY DEF Loops, Merkle!MerkleAssumption
  <2>1. PICK f : Computes("map", 0, 0, 0, f, Depth)
    BY <2>0, MapLooksDown, FunctionExists
  <2>2. Least("map") = 0 BY DEF Least, Loops
  <2>3. \A i : ValueAt("map", 0, 0, 0, f, i) = MapAt(f, i) BY DEF ValueAt
  <2>4. D(f) BY <2>1, <2>2, <2>3 DEF Computes
  <2> QED BY <2>4
<1> HIDE DEF D
<1>3. D(Merkle!SmtNode) BY <1>1, <1>2, Zenon
<1>4. PICK f : f = Merkle!SmtNode OBVIOUS
<1>5. f = [h \in 0 .. Depth |-> MapAt(f, h)] BY <1>3, <1>4 DEF D
<1>6. \A h \in 0 .. Depth : f[h] = MapAt(f, h) BY <1>5
<1> QED BY <1>4, <1>6

\* and what _reconstruct_smt_root computes.
LEMMA UpComputes ==
  ASSUME Merkle!MerkleAssumption, NEW key, NEW value, NEW siblings
  PROVE  \E f : /\ ReplaysMap(f, key, value, siblings)
                /\ Merkle!SmtUp(key, value, siblings) = f[Depth]
<1> DEFINE D(f) == f = [h \in 0 .. Depth |-> UpAt(f, key, value, siblings, h)]
<1>1. Merkle!SmtUp(key, value, siblings) = (CHOOSE f : D(f))[Depth] BY Zenon DEF Merkle!SmtUp, UpAt
<1>2. \E f : D(f)
  <2>0. "up" \in Loops /\ Depth \in Nat BY DEF Loops, Merkle!MerkleAssumption
  <2>1. PICK f : Computes("up", key, value, siblings, f, Depth)
    BY <2>0, MapLooksDown, FunctionExists
  <2>2. Least("up") = 0 BY DEF Least, Loops
  <2>3. \A h : ValueAt("up", key, value, siblings, f, h) = UpAt(f, key, value, siblings, h) BY DEF ValueAt
  <2>4. D(f) BY <2>1, <2>2, <2>3 DEF Computes
  <2> QED BY <2>4
<1> HIDE DEF D
<1>3. D(CHOOSE f : D(f)) BY <1>2, Zenon
<1>4. PICK f : f = (CHOOSE g : D(g)) OBVIOUS
<1>5. D(f) /\ Merkle!SmtUp(key, value, siblings) = f[Depth] BY <1>1, <1>3, <1>4
<1>6. ReplaysMap(f, key, value, siblings)
  <2>1. f = [h \in 0 .. Depth |-> UpAt(f, key, value, siblings, h)] BY <1>5 DEF D
  <2> QED BY <2>1 DEF ReplaysMap
<1> QED BY <1>5, <1>6

\* The keys below one side of a node at depth d.
Side(held, d, bit) == {k \in held : Merkle!Bit(k, d) = bit}

\* A node hashes both of its sides, an empty one too.
LEMMA MapNodeIs ==
  ASSUME Merkle!MerkleAssumption, NEW h \in 1 .. Depth, NEW held \in SUBSET Merkle!Keys
  PROVE  Merkle!SmtNode[h][held]
           = Merkle!Node(Merkle!SmtNode[h - 1][Side(held, Depth - h, 0)],
                  Merkle!SmtNode[h - 1][Side(held, Depth - h, 1)])
<1>0. Depth \in Nat /\ h \in 0 .. Depth /\ h - 1 \in 0 .. Depth /\ h # 0
  BY DEF Merkle!MerkleAssumption
<1>1. Merkle!SmtNode[h] = MapAt(Merkle!SmtNode, h) /\ Merkle!SmtNode[h - 1] = MapAt(Merkle!SmtNode, h - 1)
  BY <1>0, MapComputes
<1>2. CASE held = {}
  <2>1. Merkle!SmtNode[h][held] = Merkle!Default[h] BY <1>1, <1>2 DEF MapAt
  <2>2. Side(held, Depth - h, 0) = {} /\ Side(held, Depth - h, 1) = {} BY <1>2 DEF Side
  <2>3. {} \in SUBSET Merkle!Keys OBVIOUS
  <2>4. Merkle!SmtNode[h - 1][{}] = Merkle!Default[h - 1] BY <1>1, <2>3 DEF MapAt
  <2>5. Merkle!Default[h] = DefaultAt(Merkle!Default, h) BY <1>0, DefaultComputes
  <2>6. Merkle!Default[h] = Merkle!Node(Merkle!Default[h - 1], Merkle!Default[h - 1]) BY <2>5, <1>0 DEF DefaultAt
  <2> QED BY <2>1, <2>2, <2>4, <2>6
<1>3. CASE held # {}
  <2>1. Merkle!SmtNode[h][held]
          = Merkle!Node(Merkle!SmtNode[h - 1][{k \in held : Merkle!Bit(k, Depth - h) = 0}],
                 Merkle!SmtNode[h - 1][{k \in held : Merkle!Bit(k, Depth - h) = 1}])
    BY <1>0, <1>1, <1>3 DEF MapAt
  <2> QED BY <2>1 DEF Side
<1> QED BY <1>2, <1>3

\* Below the last bit of a key there is at most the key.
LEMMA MapLeafIs ==
  ASSUME Merkle!MerkleAssumption, NEW held \in SUBSET Merkle!Keys, NEW key \in Merkle!Keys
  PROVE  Merkle!SmtNode[0][Merkle!Under(held, key, Depth)]
           = IF key \in held THEN Merkle!SmtLeaf(key, key) ELSE Merkle!Default[0]
<1>0. Depth \in Nat /\ 0 \in 0 .. Depth BY DEF Merkle!MerkleAssumption
<1>1. Merkle!SmtNode[0] = MapAt(Merkle!SmtNode, 0) BY <1>0, MapComputes
<1>2. ASSUME NEW k \in Merkle!Under(held, key, Depth) PROVE k = key /\ k \in held
  <2>1. k \in held /\ \A e \in 0 .. Depth - 1 : k[e] = key[e] BY DEF Merkle!Under, Merkle!Bit
  <2>2. k \in [0 .. Depth - 1 -> {0, 1}] /\ key \in [0 .. Depth - 1 -> {0, 1}]
    BY <2>1 DEF Merkle!Keys
  <2>a. k = [e \in 0 .. Depth - 1 |-> k[e]] /\ key = [e \in 0 .. Depth - 1 |-> key[e]]
    BY <2>2, Zenon
  <2>b. [e \in 0 .. Depth - 1 |-> k[e]] = [e \in 0 .. Depth - 1 |-> key[e]] BY <2>1, Zenon
  <2>3. k = key BY <2>a, <2>b, Zenon
  <2> QED BY <2>1, <2>3
<1>3. key \in held => key \in Merkle!Under(held, key, Depth) BY DEF Merkle!Under
<1>4. CASE key \in held
  <2>1. Merkle!Under(held, key, Depth) = {key} BY <1>2, <1>3, <1>4
  <2>2. {key} \in SUBSET Merkle!Keys /\ {key} # {} OBVIOUS
  <2>3. Merkle!SmtNode[0][{key}] = LET k == CHOOSE k \in {key} : TRUE IN Merkle!SmtLeaf(k, k)
    BY <1>1, <2>2 DEF MapAt
  <2>4. (CHOOSE k \in {key} : TRUE) = key OBVIOUS
  <2> QED BY <2>1, <2>3, <2>4, <1>4
<1>5. CASE key \notin held
  <2>1. Merkle!Under(held, key, Depth) = {} BY <1>2, <1>5
  <2>2. {} \in SUBSET Merkle!Keys OBVIOUS
  <2>3. Merkle!SmtNode[0][{}] = Merkle!Default[0] BY <1>1, <2>2 DEF MapAt
  <2> QED BY <2>1, <2>3, <1>5
<1> QED BY <1>4, <1>5

(* The siblings of a key's path reproduce the node above at every height   *)
(* for the value that the map has, and for no other.                       *)
LEMMA MapReproduces ==
  ASSUME Merkle!MerkleAssumption, NEW held \in SUBSET Merkle!Keys, NEW key \in Merkle!Keys, NEW value, NEW f,
         ReplaysMap(f, key, value, Merkle!SmtProof(held, key))
  PROVE  \A h \in 0 .. Depth :
           f[h] = Merkle!SmtNode[h][Merkle!Under(held, key, Depth - h)]
             <=> value = IF key \in held THEN Merkle!SmtLeaf(key, key) ELSE Merkle!Default[0]
<1> DEFINE Good(h) == f[h] = Merkle!SmtNode[h][Merkle!Under(held, key, Depth - h)]
                        <=> value = IF key \in held THEN Merkle!SmtLeaf(key, key) ELSE Merkle!Default[0]
           T == {h \in 0 .. Depth : ~Good(h)}
<1>0. Depth \in Nat BY DEF Merkle!MerkleAssumption
<1>1. SUFFICES ASSUME T # {} PROVE FALSE OBVIOUS
<1>2. PICK h \in T : \A y \in T : h <= y
  <2>1. T \subseteq Nat BY <1>0
  <2> HIDE DEF T
  <2> QED BY <1>1, <2>1, LeastNumber
<1>3. h \in 0 .. Depth /\ ~Good(h) OBVIOUS
<1>4. h # 0 => Good(h - 1)
  <2> SUFFICES ASSUME h # 0 PROVE Good(h - 1) OBVIOUS
  <2>1. h - 1 \in 0 .. Depth /\ ~(h <= h - 1) BY <1>0, <1>3
  <2> HIDE DEF Good
  <2> QED BY <2>1, <1>2
<1>r. f[h] = UpAt(f, key, value, Merkle!SmtProof(held, key), h) BY <1>3 DEF ReplaysMap
<1> HIDE DEF Good, T
<1>5. CASE h = 0
  <2>1. f[h] = value BY <1>5, <1>r DEF UpAt
  <2>2. Depth - h = Depth BY <1>0, <1>5
  <2>3. Merkle!SmtNode[h][Merkle!Under(held, key, Depth - h)]
          = IF key \in held THEN Merkle!SmtLeaf(key, key) ELSE Merkle!Default[0]
    BY <1>5, <2>2, MapLeafIs
  <2>4. Good(h) BY <2>1, <2>3 DEF Good
  <2> QED BY <2>4, <1>3
<1>6. CASE h # 0
  <2>1. PICK d : d = Depth - h OBVIOUS
  <2>2. h \in 1 .. Depth /\ d \in 0 .. Depth - 1 /\ Depth - d - 1 = h - 1 /\ Depth - (h - 1) = d + 1
    BY <2>1, <1>0, <1>3, <1>6
  <2>3. PICK u : u = Merkle!Under(held, key, d) OBVIOUS
  <2>4. u \in SUBSET Merkle!Keys BY <2>3 DEF Merkle!Under
  <2>5. Merkle!SmtNode[h][u] = Merkle!Node(Merkle!SmtNode[h - 1][Side(u, d, 0)], Merkle!SmtNode[h - 1][Side(u, d, 1)])
    BY <2>1, <2>2, <2>4, MapNodeIs
  <2>6. Merkle!Bit(key, d) \in {0, 1} /\ \A k \in u : Merkle!Bit(k, d) \in {0, 1}
    BY <2>2, <2>4 DEF Merkle!Bit, Merkle!Keys
  <2>7. Side(u, d, Merkle!Bit(key, d)) = Merkle!Under(held, key, Depth - (h - 1))
    <3>1. \A e : e \in 0 .. (d + 1) - 1 <=> e \in 0 .. d - 1 \/ e = d BY <2>2
    <3>2. \A k : (\A e \in 0 .. (d + 1) - 1 : Merkle!Bit(k, e) = Merkle!Bit(key, e))
                   <=> (\A e \in 0 .. d - 1 : Merkle!Bit(k, e) = Merkle!Bit(key, e)) /\ Merkle!Bit(k, d) = Merkle!Bit(key, d)
      BY <3>1
    <3> QED BY <3>2, <2>2, <2>3 DEF Merkle!Under, Side
  <2>8. PICK b : b = 1 - Merkle!Bit(key, d) OBVIOUS
  <2>9. Merkle!SmtProof(held, key)[d] = Merkle!SmtNode[h - 1][Side(u, d, b)]
    <3>1. {k \in u : Merkle!Bit(k, d) # Merkle!Bit(key, d)} = Side(u, d, b) BY <2>6, <2>8 DEF Side
    <3>2. Merkle!SmtProof(held, key)[d]
            = Merkle!SmtNode[Depth - d - 1][{k \in Merkle!Under(held, key, d) : Merkle!Bit(k, d) # Merkle!Bit(key, d)}]
      BY <2>2 DEF Merkle!SmtProof
    <3> QED BY <3>1, <3>2, <2>2, <2>3
  <2>10. PICK sibling : sibling = Merkle!SmtProof(held, key)[d] OBVIOUS
  <2>11. PICK path : path = Merkle!SmtNode[h - 1][Side(u, d, Merkle!Bit(key, d))] OBVIOUS
  <2>12. f[h - 1] = path <=> value = IF key \in held THEN Merkle!SmtLeaf(key, key) ELSE Merkle!Default[0]
    BY <2>7, <2>11, <1>4, <1>6 DEF Good
  <2>13. CASE Merkle!Bit(key, d) = 0
    <3>1. f[h] = Merkle!Node(f[h - 1], sibling) BY <2>1, <2>10, <2>13, <1>6, <1>r DEF UpAt
    <3>2. Merkle!SmtNode[h][u] = Merkle!Node(path, sibling)
      BY <2>5, <2>8, <2>9, <2>10, <2>11, <2>13
    <3>3. f[h] = Merkle!SmtNode[h][u] <=> f[h - 1] = path BY <3>1, <3>2, NodeBinds
    <3>4. Good(h) BY <3>3, <2>1, <2>3, <2>12 DEF Good
    <3> QED BY <3>4, <1>3
  <2>14. CASE Merkle!Bit(key, d) = 1
    <3>1. f[h] = Merkle!Node(sibling, f[h - 1]) BY <2>1, <2>10, <2>14, <1>6, <1>r DEF UpAt
    <3>2. Merkle!SmtNode[h][u] = Merkle!Node(sibling, path)
      BY <2>5, <2>8, <2>9, <2>10, <2>11, <2>14
    <3>3. f[h] = Merkle!SmtNode[h][u] <=> f[h - 1] = path BY <3>1, <3>2, NodeBinds
    <3>4. Good(h) BY <3>3, <2>1, <2>3, <2>12 DEF Good
    <3> QED BY <3>4, <1>3
  <2> QED BY <2>6, <2>13, <2>14
<1> QED BY <1>5, <1>6

-----------------------------------------------------------------------------

\* A path that is presented has a length.
LEMMA PathsAreFinite ==
  ASSUME Merkle!MerkleAssumption, NEW n, NEW p \in Merkle!Paths(n) PROVE Len(p) \in Nat
<1>1. PICK l \in 0 .. MaxPath : p \in [1 .. l -> Merkle!Hashes(n)] BY DEF Merkle!Paths
<1>2. l \in Nat BY DEF Merkle!MerkleAssumption
<1>3. p \in Seq(Merkle!Hashes(n)) BY <1>1, <1>2
<1> QED BY <1>3

\* A history is the run that begins at its first leaf.
LEMMA FirstRun ==
  ASSUME Merkle!MerkleAssumption, NEW n \in 1 .. MaxLeaves PROVE 1 \in Merkle!Starts(n)
BY DEF Merkle!MerkleAssumption, Merkle!Starts

\* A call of _verify_consistency.
LEMMA ConsistencyCallSound ==
  ASSUME Merkle!MerkleAssumption, NEW n \in 1 .. MaxLeaves, NEW m \in 1 .. n, NEW p \in Merkle!Paths(n)
  PROVE  /\ Merkle!ReplayConsistency(m, n, Merkle!ConsistencyProof[n][1][m])
              = [new |-> Merkle!Root[n][1], old |-> Merkle!Root[m][1]]
         /\ Merkle!ReplayConsistency(m, n, p).new = Merkle!Root[n][1] =>
              Merkle!ReplayConsistency(m, n, p).old = Merkle!Root[m][1]
<1>1. 1 \in Merkle!Starts(n) BY FirstRun
<1>2. Merkle!ReplayConsistency(m, n, Merkle!ConsistencyProof[n][1][m])
        = [new |-> Merkle!Root[n][1], old |-> Merkle!Root[m][1]]
  <2>1. PICK q : q = Merkle!ConsistencyProof[n][1][m] OBVIOUS
  <2>2. q \in Seq(RunHashes) BY <2>1, <1>1, PathsAreHashes
  <2>3. Len(q) \in Nat BY <2>2
  <2>4. PICK f : /\ ReplaysConsistency(f, q)
                 /\ Merkle!ReplayConsistency(m, n, q) = f[n][m][Len(q)]
    BY ConsistencyReplays
  <2>5. Begins(q, q, Len(q)) /\ Len(q) \in 0 .. Len(q) BY <2>3 DEF Begins
  <2>6. f[n][m][Len(q)] = [new |-> Merkle!Root[n][1], old |-> Merkle!Root[m][1]]
    BY <2>1, <2>3, <2>4, <2>5, <1>1, ConsistencyReproduces
  <2> QED BY <2>1, <2>4, <2>6
<1>3. ASSUME Merkle!ReplayConsistency(m, n, p).new = Merkle!Root[n][1]
      PROVE  Merkle!ReplayConsistency(m, n, p).old = Merkle!Root[m][1]
  <2>1. Len(p) \in Nat BY PathsAreFinite
  <2>2. PICK f : /\ ReplaysConsistency(f, p)
                 /\ Merkle!ReplayConsistency(m, n, p) = f[n][m][Len(p)]
    BY ConsistencyReplays
  <2>3. Len(p) \in 0 .. Len(p) BY <2>1
  <2>4. f[n][m][Len(p)].new = Merkle!Root[n][1] => f[n][m][Len(p)].old = Merkle!Root[m][1]
    BY <2>1, <2>2, <2>3, <1>1, ConsistencyBinds
  <2> QED BY <2>2, <2>4, <1>3
<1> QED BY <1>2, <1>3

\* A call of _verify_inclusion.
LEMMA InclusionCallSound ==
  ASSUME Merkle!MerkleAssumption, NEW n \in 1 .. MaxLeaves, NEW m \in 1 .. n, NEW p \in Merkle!Paths(n)
  PROVE  /\ Merkle!VerifyInclusion(Merkle!Leaf(m), m, Merkle!InclusionProof[n][1][m], n, Merkle!Root[n][1])
         /\ \A x \in 1 .. n : Merkle!VerifyInclusion(Merkle!Leaf(x), m, p, n, Merkle!Root[n][1]) => x = m
<1>1. 1 \in Merkle!Starts(n) /\ 1 + m - 1 = m BY FirstRun
<1>2. Merkle!VerifyInclusion(Merkle!Leaf(m), m, Merkle!InclusionProof[n][1][m], n, Merkle!Root[n][1])
  <2>1. PICK q : q = Merkle!InclusionProof[n][1][m] OBVIOUS
  <2>2. q \in Seq(RunHashes) BY <2>1, <1>1, PathsAreHashes
  <2>3. Len(q) \in Nat BY <2>2
  <2>l. PICK leaf : leaf = Merkle!Leaf(m) OBVIOUS
  <2>4. PICK f : /\ ReplaysInclusion(f, leaf, q)
                 /\ Merkle!ReplayInclusion(leaf, m, n, q) = f[n][m][Len(q)]
    BY InclusionReplays
  <2>5. Begins(q, q, Len(q)) /\ Len(q) \in 0 .. Len(q) BY <2>3 DEF Begins
  <2>6. f[n][m][Len(q)] = Merkle!Root[n][1]
    <3>1. ReproducesRoot(f, leaf, q) BY <2>3, <2>4, InclusionReproduces
    <3>2. leaf = Merkle!Leaf(1 + m - 1) BY <2>l, <1>1
    <3> QED BY <3>1, <3>2, <2>1, <2>5, <1>1 DEF ReproducesRoot
  <2> QED BY <2>1, <2>l, <2>4, <2>6 DEF Merkle!VerifyInclusion
<1>3. ASSUME NEW x \in 1 .. n, Merkle!VerifyInclusion(Merkle!Leaf(x), m, p, n, Merkle!Root[n][1]) PROVE x = m
  <2>1. Len(p) \in Nat BY PathsAreFinite
  <2>l. PICK leaf : leaf = Merkle!Leaf(x) OBVIOUS
  <2>2. PICK f : /\ ReplaysInclusion(f, leaf, p)
                 /\ Merkle!ReplayInclusion(leaf, m, n, p) = f[n][m][Len(p)]
    BY InclusionReplays
  <2>3. Len(p) \in 0 .. Len(p) BY <2>1
  <2>4. f[n][m][Len(p)] = Merkle!Root[n][1] BY <2>l, <2>2, <1>3 DEF Merkle!VerifyInclusion
  <2>5. Merkle!Leaf(x) = Merkle!Leaf(1 + m - 1)
    <3>1. BindsLeaf(f, leaf, p) BY <2>1, <2>2, InclusionBinds
    <3> QED BY <3>1, <2>l, <2>3, <2>4, <1>1 DEF BindsLeaf
  <2> QED BY <2>5, <1>1, Terms
<1> QED BY <1>2, <1>3

\* A call of _reconstruct_smt_root.
LEMMA MapCallSound ==
  ASSUME Merkle!MerkleAssumption, NEW held \in SUBSET Merkle!Keys, NEW key \in Merkle!Keys, NEW v
  PROVE  Merkle!SmtUp(key, v, Merkle!SmtProof(held, key)) = Merkle!SmtNode[Depth][held]
           <=> v = IF key \in held THEN Merkle!SmtLeaf(key, key) ELSE Merkle!Default[0]
<1>0. Depth \in Nat /\ Depth \in 0 .. Depth /\ Depth - Depth = 0 BY DEF Merkle!MerkleAssumption
<1>1. PICK f : /\ ReplaysMap(f, key, v, Merkle!SmtProof(held, key))
               /\ Merkle!SmtUp(key, v, Merkle!SmtProof(held, key)) = f[Depth]
  BY UpComputes
<1>2. Merkle!Under(held, key, 0) = held BY DEF Merkle!Under
<1>3. f[Depth] = Merkle!SmtNode[Depth][Merkle!Under(held, key, Depth - Depth)]
        <=> v = IF key \in held THEN Merkle!SmtLeaf(key, key) ELSE Merkle!Default[0]
  <2>1. \A h \in 0 .. Depth :
          f[h] = Merkle!SmtNode[h][Merkle!Under(held, key, Depth - h)]
            <=> v = IF key \in held THEN Merkle!SmtLeaf(key, key) ELSE Merkle!Default[0]
    BY <1>1, MapReproduces
  <2> QED BY <2>1, <1>0
<1> QED BY <1>0, <1>1, <1>2, <1>3

\* Every call.
LEMMA CallsAreSound ==
  ASSUME Merkle!MerkleAssumption, Merkle!Init PROVE Merkle!ConsistencyIsSound /\ Merkle!MembershipIsSound
<1>1. ASSUME NEW n \in 1 .. MaxLeaves, NEW m \in 1 .. MaxLeaves, NEW p \in Merkle!Paths(n), m < n,
             proof = [kind |-> "consistency", n |-> n, m |-> m, path |-> p]
      PROVE  Merkle!ConsistencyIsSound /\ Merkle!MembershipIsSound
  <2>1. m \in 1 .. n BY <1>1 DEF Merkle!MerkleAssumption
  <2>2. proof.kind = "consistency" /\ proof.n = n /\ proof.m = m /\ proof.path = p BY <1>1
  <2>3. Merkle!ConsistencyIsSound BY <2>1, <2>2, ConsistencyCallSound, Zenon DEF Merkle!ConsistencyIsSound
  <2>4. proof.kind # "inclusion" /\ proof.kind # "sparse" BY <2>2
  <2> QED BY <2>3, <2>4 DEF Merkle!MembershipIsSound
<1>2. ASSUME NEW n \in 1 .. MaxLeaves, NEW m \in 1 .. MaxLeaves, NEW p \in Merkle!Paths(n), m <= n,
             proof = [kind |-> "inclusion", n |-> n, m |-> m, path |-> p]
      PROVE  Merkle!ConsistencyIsSound /\ Merkle!MembershipIsSound
  <2>1. m \in 1 .. n BY <1>2 DEF Merkle!MerkleAssumption
  <2>2. proof.kind = "inclusion" /\ proof.n = n /\ proof.m = m /\ proof.path = p BY <1>2
  <2>3. proof.kind # "consistency" /\ proof.kind # "sparse" BY <2>2
  <2>4. Merkle!MembershipIsSound
    BY <2>1, <2>2, <2>3, InclusionCallSound, Zenon DEF Merkle!MembershipIsSound
  <2> QED BY <2>3, <2>4 DEF Merkle!ConsistencyIsSound
<1>3. ASSUME NEW held \in SUBSET Merkle!Keys, NEW key \in Merkle!Keys,
             proof = [kind |-> "sparse", keys |-> held, key |-> key]
      PROVE  Merkle!ConsistencyIsSound /\ Merkle!MembershipIsSound
  <2>1. proof.kind = "sparse" /\ proof.keys = held /\ proof.key = key BY <1>3
  <2>2. proof.kind # "consistency" /\ proof.kind # "inclusion" BY <2>1
  <2>a. \A v : Merkle!SmtUp(key, v, Merkle!SmtProof(held, key)) = Merkle!SmtNode[Depth][held]
                <=> v = IF key \in held THEN Merkle!SmtLeaf(key, key) ELSE Merkle!Default[0]
    BY MapCallSound, Zenon
  <2>3. Merkle!MembershipIsSound BY <2>1, <2>2, <2>a DEF Merkle!MembershipIsSound
  <2> QED BY <2>2, <2>3 DEF Merkle!ConsistencyIsSound
<1> QED BY <1>1, <1>2, <1>3, Zenon DEF Merkle!Init

(***************************************************************************)
(* The proofs that crypto.py builds are accepted, and no path that is      *)
(* presented instead proves another prefix, another entry or another       *)
(* value, for histories of any number of leaves, paths of any length and   *)
(* sparse maps of any depth (merkle_consistency_proof,                     *)
(* merkle_inclusion_proof, smt_proof, _verify_consistency,                 *)
(* _verify_inclusion, _reconstruct_smt_root).                              *)
(***************************************************************************)
THEOREM ProofsStaySound ==
  ASSUME Merkle!MerkleAssumption PROVE Merkle!Spec => []ProofsAreSound
<1> DEFINE Sound == Merkle!ConsistencyIsSound /\ Merkle!MembershipIsSound
<1>1. Merkle!Init => Sound BY CallsAreSound
<1>2. Sound /\ [Merkle!Next]_proof => Sound'
  BY DEF Merkle!Next, Merkle!ConsistencyIsSound, Merkle!MembershipIsSound
<1>3. Sound => ProofsAreSound BY DEF ProofsAreSound
<1> QED BY <1>1, <1>2, <1>3, PTL DEF Merkle!Spec
=============================================================================
