------------------------ MODULE ReleaseMirrorProofs -------------------------
(***************************************************************************)
(* Proofs about the remote mirror, for any runs, generations and crashes.  *)
(***************************************************************************)
EXTENDS ReleaseMirror, Integers, Sequences, WellFoundedInduction, TLAPS
-----------------------------------------------------------------------------
(* ReleaseMirror.                                                          *)

\* Events that are pending have a first one.
LEMMA FirstEvent ==
  ASSUME NEW T, T \subseteq Nat, T # {}
  PROVE  Min(T) \in T
<1> DEFINE Less == {ss \in Nat \X Nat : ss[1] < ss[2]}
<1>1. IsWellFoundedOn(Less, Nat)
  <2>1. OpToRel(<, Nat) = Less
    BY Zenon DEF OpToRel
  <2> QED BY <2>1, NatLessThanWellFounded, Zenon
<1>2. PICK x \in T : \A y \in T : ~(<<y, x>> \in Less)
  <2> HIDE DEF Less
  <2> QED BY <1>1, WFMin
<1>3. ASSUME NEW y \in T PROVE x <= y
  <2>1. ~(y < x)
    <3>1. <<y, x>> \notin Less /\ x \in Nat /\ y \in Nat
      BY <1>2
    <3>2. <<y, x>> \in Nat \X Nat
      BY <3>1
    <3>3. ~(<<y, x>>[1] < <<y, x>>[2])
      BY <3>1, <3>2, Zenon
    <3> QED BY <3>3
  <2> QED BY <2>1
<1> QED BY <1>3 DEF Min

\* One run moves, and the others do not.
MirrorRunStep(m) ==
  /\ run' = [run EXCEPT ![m] = run'[m]]
  /\ run'[m] \in Memory

\* What a run relies on while others move.
MirrorKeeps ==
  /\ current' = current /\ remoteGens \subseteq remoteGens'
  /\ localRef # 0 => localRef' # 0
  /\ remoteRef # 0 => remoteRef' # 0

\* A step of one run keeps the invariant when that run keeps its part and the
\* refs keep theirs.
LEMMA MirrorStep ==
  ASSUME MirrorInvariant, NEW m \in Mirrors, MirrorRunStep(m), MirrorKeeps,
         RunIsPushed(m)',
         run'[m].pc \in {"local_ref", "push_release", "mark"} => run'[m].rel # 0,
         processed' \subseteq Events, localRef' \in Opt,
         remoteRef' \in Opt, remoteGens' \subseteq Events,
         failures' \in 0 .. MaxFailures, ProcessedIsPushed'
  PROVE  MirrorInvariant'
<1>0. TypeOK
  BY DEF MirrorInvariant
<1>1. run' \in [Mirrors -> Memory] /\ \A d \in Mirrors \ {m} : run'[d] = run[d]
  BY <1>0 DEF MirrorRunStep, TypeOK
<1>2. TypeOK'
  BY <1>0, <1>1 DEF TypeOK, MirrorKeeps
<1>3. ASSUME NEW d \in Mirrors \ {m} PROVE RunIsPushed(d)'
  <2>1. RunIsPushed(d) /\ run'[d] = run[d]
    BY <1>1 DEF MirrorInvariant
  <2> QED BY <2>1 DEF RunIsPushed, NextEvent, MirrorKeeps
<1> QED BY <1>2, <1>3 DEF MirrorInvariant

\* What every run knows, in numbers.
LEMMA MirrorFacts ==
  ASSUME MaxReleases \in Nat, MaxFailures \in Nat, MirrorInvariant, NEW m \in Mirrors
  PROVE  /\ run \in [Mirrors -> Memory] /\ run[m] \in Memory
         /\ current \in Nat /\ current <= MaxReleases
         /\ localRef \in Opt /\ localRef \in Nat /\ localRef <= current
         /\ remoteRef \in Opt /\ remoteRef \in Nat /\ remoteRef <= current
         /\ processed \subseteq remoteGens /\ processed \subseteq Events
         /\ remoteGens \subseteq Events /\ remoteGens \subseteq 1 .. current
         /\ processed # {} => remoteRef # 0
         /\ failures \in 0 .. MaxFailures /\ RunIsPushed(m)
         /\ run[m].rel \in Nat /\ run[m].pending \subseteq Nat
         /\ run[m].pc \in {"local_ref", "push_release", "mark"} => run[m].rel # 0
<1>1. TypeOK /\ ProcessedIsPushed /\ RunIsPushed(m)
  BY DEF MirrorInvariant
<1>2. run \in [Mirrors -> Memory] /\ run[m] \in Memory
  BY <1>1 DEF TypeOK
<1>3. run[m].rel \in Nat /\ run[m].pending \subseteq Nat
  BY <1>2 DEF Memory, Opt, Events
<1> QED BY <1>1, <1>2, <1>3 DEF TypeOK, ProcessedIsPushed, Opt

\* The refs and rows that do not change keep their part, as do those that a
\* step changes within it.
LEMMA MirrorQuiet ==
  ASSUME MaxReleases \in Nat, MaxFailures \in Nat, MirrorInvariant,
         NEW m \in Mirrors, MirrorRunStep(m), RunIsPushed(m)',
         run'[m].pc \in {"local_ref", "push_release", "mark"} => run'[m].rel # 0,
         UNCHANGED <<current, processed, localRef, remoteRef, remoteGens>>,
         failures' \in 0 .. MaxFailures
  PROVE  MirrorInvariant'
<1>1. ProcessedIsPushed' /\ MirrorKeeps
  BY DEF MirrorInvariant, ProcessedIsPushed, MirrorKeeps
<1> QED BY <1>1, MirrorFacts, MirrorStep

\* A run that ends, or that never began.
LEMMA MirrorIdle ==
  ASSUME MaxReleases \in Nat, current' \in Nat, NEW m, run'[m] = Idle
  PROVE  /\ run'[m] \in Memory /\ RunIsPushed(m)'
         /\ ~(run'[m].pc \in {"local_ref", "push_release", "mark"})
<1>1. Idle \in Memory
  BY DEF Idle, Memory, Opt
<1> QED BY <1>1 DEF Idle, RunIsPushed

\* Every statement of a mirror run.
LEMMA MirrorSteps ==
  ASSUME MaxReleases \in Nat, MaxFailures \in Nat, MirrorInvariant,
         NEW m \in Mirrors, Step(m) \/ Fail(m)
  PROVE  MirrorInvariant'
<1>0. /\ run \in [Mirrors -> Memory] /\ run[m] \in Memory
      /\ current \in Nat /\ current <= MaxReleases
      /\ localRef \in Opt /\ localRef \in Nat /\ localRef <= current
      /\ remoteRef \in Opt /\ remoteRef \in Nat /\ remoteRef <= current
      /\ processed \subseteq remoteGens /\ processed \subseteq Events
      /\ remoteGens \subseteq Events /\ remoteGens \subseteq 1 .. current
      /\ processed # {} => remoteRef # 0
      /\ failures \in 0 .. MaxFailures /\ RunIsPushed(m)
      /\ run[m].rel \in Nat /\ run[m].pending \subseteq Nat
      /\ run[m].pc \in {"local_ref", "push_release", "mark"} => run[m].rel # 0
  BY MirrorFacts
<1>e. run[m].pending # {} => NextEvent(m) \in run[m].pending
  BY <1>0, FirstEvent DEF NextEvent
<1>p. run[m].pending \subseteq 1 .. current /\ run[m].rel <= current
  BY <1>0 DEF RunIsPushed
<1>1. CASE Begin(m)
  <2> DEFINE P == PendingOutbox
             pc == IF P = {} THEN "read_release" ELSE "generation"
  <2>1. /\ run' = [run EXCEPT ![m] = run'[m]] /\ run'[m] = [pc |-> pc, pending |-> P, rel |-> 0]
        /\ UNCHANGED <<current, processed, localRef, remoteRef, remoteGens, failures>>
    BY <1>0, <1>1 DEF Begin
  <2>2. P \subseteq 1 .. current /\ P \subseteq Events
    BY <1>0 DEF PendingOutbox, Events
  <2> HIDE DEF P
  <2>3. run'[m] \in Memory
    BY <2>1, <2>2 DEF Memory, Opt
  <2>4. /\ run'[m].pending = P /\ run'[m].rel = 0 /\ current' = current
        /\ run'[m].pc = "generation" => P # {}
        /\ run'[m].pc # "generation" => P = {}
        /\ run'[m].pc \in {"read_release", "generation"}
    BY <2>1
  <2>5. RunIsPushed(m)'
    <3>1. run'[m].pending \subseteq 1 .. current' /\ run'[m].rel <= current'
      BY <1>0, <2>2, <2>4
    <3>2. run'[m].pc # "mark" /\ run'[m].pc # "push_release"
      BY <2>4
    <3> QED BY <2>4, <3>1, <3>2 DEF RunIsPushed
  <2> QED BY <1>0, <2>1, <2>3, <2>4, <2>5, MirrorQuiet DEF MirrorRunStep
<1>2. CASE PushGeneration(m)
  <2> DEFINE n == NextEvent(m)
  <2>1. /\ run[m].pc = "generation" /\ remoteGens' = remoteGens \cup {n}
        /\ run' = [run EXCEPT ![m] = run'[m]]
        /\ run'[m] = [run[m] EXCEPT !.pc = "read_release"]
        /\ UNCHANGED <<current, processed, localRef, remoteRef, failures>>
    BY <1>0, <1>2 DEF PushGeneration
  <2>2. /\ run'[m] \in Memory /\ run'[m].pc = "read_release"
        /\ run'[m].pending = run[m].pending /\ run'[m].rel = run[m].rel
    BY <1>0, <2>1 DEF Memory
  <2>3. NextEvent(m)' = n
    BY <2>2 DEF NextEvent
  <2>4. n \in 1 .. current /\ n \in Events
    BY <1>0, <1>e, <1>p, <2>1 DEF RunIsPushed, Events
  <2> HIDE DEF n
  <2>5. RunIsPushed(m)'
    BY <1>p, <2>1, <2>2, <2>3 DEF RunIsPushed
  <2>6. ProcessedIsPushed' /\ MirrorKeeps
    BY <1>0, <2>1, <2>4 DEF ProcessedIsPushed, MirrorKeeps
  <2> QED BY <1>0, <2>1, <2>2, <2>4, <2>5, <2>6, MirrorStep DEF MirrorRunStep
<1>3. CASE ReadRelease(m)
  <2>1. /\ run[m].pc = "read_release" /\ run' = [run EXCEPT ![m] = run'[m]]
        /\ UNCHANGED <<current, processed, localRef, remoteRef, remoteGens, failures>>
    BY <1>0, <1>3 DEF ReadRelease
  <2>2. CASE current = 0
    <3>1. run'[m] = Idle
      BY <1>0, <1>3, <2>2 DEF ReadRelease
    <3> QED BY <1>0, <2>1, <3>1, MirrorIdle, MirrorQuiet DEF MirrorRunStep
  <2>3. CASE current # 0
    <3>1. run'[m] = [run[m] EXCEPT !.pc = "local_ref", !.rel = current]
      BY <1>0, <1>3, <2>3 DEF ReadRelease
    <3>2. current \in Opt
      BY <1>0 DEF Opt
    <3>3. /\ run'[m] \in Memory /\ run'[m].pc = "local_ref"
          /\ run'[m].pending = run[m].pending /\ run'[m].rel = current
      BY <1>0, <3>1, <3>2 DEF Memory
    <3>4. NextEvent(m)' = NextEvent(m)
      BY <3>3 DEF NextEvent
    <3>5. RunIsPushed(m)'
      BY <1>0, <2>1, <3>3, <3>4 DEF RunIsPushed
    <3> QED BY <1>0, <2>1, <2>3, <3>3, <3>5, MirrorQuiet DEF MirrorRunStep
  <2> QED BY <2>2, <2>3
<1>4. CASE SetLocalRef(m)
  <2>1. /\ run[m].pc = "local_ref" /\ localRef' = run[m].rel
        /\ run' = [run EXCEPT ![m] = run'[m]]
        /\ run'[m] = [run[m] EXCEPT !.pc = "push_release"]
        /\ UNCHANGED <<current, processed, remoteRef, remoteGens, failures>>
    BY <1>0, <1>4 DEF SetLocalRef
  <2>2. /\ run'[m] \in Memory /\ run'[m].pc = "push_release"
        /\ run'[m].pending = run[m].pending /\ run'[m].rel = run[m].rel
        /\ run[m].rel \in Opt
    BY <1>0, <2>1 DEF Memory
  <2>3. NextEvent(m)' = NextEvent(m)
    BY <2>2 DEF NextEvent
  <2>4. RunIsPushed(m)'
    BY <1>0, <2>1, <2>2, <2>3 DEF RunIsPushed
  <2>5. ProcessedIsPushed' /\ MirrorKeeps
    BY <1>0, <1>p, <2>1 DEF ProcessedIsPushed, MirrorKeeps
  <2> QED BY <1>0, <2>1, <2>2, <2>4, <2>5, MirrorStep DEF MirrorRunStep
<1>5. CASE PushRelease(m)
  <2>1. /\ run[m].pc = "push_release" /\ remoteRef' = localRef
        /\ run' = [run EXCEPT ![m] = run'[m]]
        /\ UNCHANGED <<current, processed, localRef, remoteGens, failures>>
    BY <1>0, <1>5 DEF PushRelease
  <2>2. localRef # 0
    BY <1>0, <2>1 DEF RunIsPushed
  <2>3. ProcessedIsPushed' /\ MirrorKeeps
    BY <1>0, <2>1, <2>2 DEF ProcessedIsPushed, MirrorKeeps
  <2>4. CASE run[m].pending = {}
    <3>1. run'[m] = Idle
      BY <1>0, <1>5, <2>4 DEF PushRelease
    <3> QED BY <1>0, <2>1, <2>3, <3>1, MirrorIdle, MirrorStep DEF MirrorRunStep
  <2>5. CASE run[m].pending # {}
    <3>1. run'[m] = [run[m] EXCEPT !.pc = "mark"]
      BY <1>0, <1>5, <2>5 DEF PushRelease
    <3>2. /\ run'[m] \in Memory /\ run'[m].pc = "mark"
          /\ run'[m].pending = run[m].pending /\ run'[m].rel = run[m].rel
      BY <1>0, <3>1 DEF Memory
    <3>3. NextEvent(m)' = NextEvent(m)
      BY <3>2 DEF NextEvent
    <3>4. RunIsPushed(m)'
      BY <1>0, <2>1, <2>2, <2>5, <3>2, <3>3 DEF RunIsPushed
    <3> QED BY <1>0, <2>1, <2>3, <3>2, <3>4, MirrorStep DEF MirrorRunStep
  <2> QED BY <2>4, <2>5
<1>6. CASE MarkProcessed(m)
  <2> DEFINE n == NextEvent(m)
  <2>1. /\ run[m].pc = "mark" /\ processed' = processed \cup {n}
        /\ run' = [run EXCEPT ![m] = run'[m]]
        /\ UNCHANGED <<current, localRef, remoteRef, remoteGens, failures>>
    BY <1>0, <1>6 DEF MarkProcessed
  <2>2. n \in remoteGens /\ remoteRef # 0
    BY <1>0, <2>1 DEF RunIsPushed
  <2>3. ProcessedIsPushed' /\ MirrorKeeps
    BY <1>0, <2>1, <2>2 DEF ProcessedIsPushed, MirrorKeeps
  <2>4. CASE run[m].pending = {n}
    <3>1. run'[m] = Idle
      BY <1>0, <1>6, <2>4 DEF MarkProcessed
    <3> QED BY <1>0, <2>1, <2>2, <2>3, <3>1, MirrorIdle, MirrorStep DEF MirrorRunStep
  <2>5. CASE run[m].pending # {n}
    <3>1. run'[m] = [run[m] EXCEPT !.pc = "generation", !.pending = run[m].pending \ {n}]
      BY <1>0, <1>6, <2>5 DEF MarkProcessed
    <3>2. run[m].pending # {}
      BY <1>0, <2>1 DEF RunIsPushed
    <3>3. run[m].pending \ {n} # {}
      BY <1>e, <2>5, <3>2
    <3> HIDE DEF n
    <3>4. /\ run'[m] \in Memory /\ run'[m].pc = "generation"
          /\ run'[m].pending = run[m].pending \ {n} /\ run'[m].rel = run[m].rel
      BY <1>0, <3>1 DEF Memory
    <3>5. RunIsPushed(m)'
      BY <1>p, <2>1, <3>3, <3>4 DEF RunIsPushed
    <3> QED BY <1>0, <2>1, <2>2, <2>3, <3>4, <3>5, MirrorStep DEF MirrorRunStep, n
  <2> QED BY <2>4, <2>5
<1>7. CASE Fail(m)
  <2>1. /\ run' = [run EXCEPT ![m] = run'[m]] /\ run'[m] = Idle
        /\ failures < MaxFailures /\ failures' = failures + 1
        /\ UNCHANGED <<current, processed, localRef, remoteRef, remoteGens>>
    BY <1>0, <1>7 DEF Fail
  <2>2. failures' \in 0 .. MaxFailures
    BY <1>0, <2>1
  <2> QED BY <1>0, <2>1, <2>2, MirrorIdle, MirrorQuiet DEF MirrorRunStep
<1> QED BY <1>1, <1>2, <1>3, <1>4, <1>5, <1>6, <1>7 DEF Step

\* An event is processed only when its generation is on the remote, and the
\* remote pointer names an activated release, however many runs interleave,
\* fail and start again without a lease (process_outbox, sync_release_ref).
THEOREM ProcessedStaysPushed ==
  ASSUME MaxReleases \in Nat, MaxFailures \in Nat
  PROVE  Spec => []ProcessedIsPushed
<1>1. Init => MirrorInvariant
  <2> SUFFICES ASSUME Init PROVE MirrorInvariant
    OBVIOUS
  <2>1. Idle \in Memory
    BY DEF Idle, Memory, Opt
  <2>2. run \in [Mirrors -> Memory] /\ \A m \in Mirrors : run[m] = Idle
    BY <2>1 DEF Init
  <2>3. TypeOK
    BY <2>2 DEF Init, TypeOK, Idle, Opt
  <2>4. ProcessedIsPushed
    BY DEF Init, ProcessedIsPushed
  <2>5. \A m \in Mirrors : RunIsPushed(m)
    BY <2>2 DEF Init, RunIsPushed, Idle
  <2> QED BY <2>3, <2>4, <2>5 DEF MirrorInvariant
<1>2. MirrorInvariant /\ [Next]_vars => MirrorInvariant'
  <2> SUFFICES ASSUME MirrorInvariant, [Next]_vars
               PROVE  MirrorInvariant'
    OBVIOUS
  <2>0. TypeOK /\ ProcessedIsPushed
    BY DEF MirrorInvariant
  <2>1. CASE Activate
    <3>1. /\ current < MaxReleases /\ current' = current + 1
          /\ UNCHANGED <<processed, localRef, remoteRef, remoteGens, run, failures>>
      BY <2>1 DEF Activate
    <3>2. current \in Nat /\ current' \in Opt /\ localRef \in Nat /\ remoteRef \in Nat
      BY <2>0, <3>1 DEF TypeOK, Opt
    <3>3. TypeOK'
      BY <2>0, <3>1, <3>2 DEF TypeOK
    <3>4. 1 .. current \subseteq 1 .. current'
      BY <3>1, <3>2
    <3>5. ProcessedIsPushed'
      BY <2>0, <3>1, <3>2, <3>4 DEF ProcessedIsPushed
    <3>6. ASSUME NEW m \in Mirrors PROVE RunIsPushed(m)'
      <4>1. RunIsPushed(m) /\ run[m].rel \in Nat
        BY MirrorFacts
      <4>2. NextEvent(m)' = NextEvent(m)
        BY <3>1 DEF NextEvent
      <4>3. run[m].rel <= current'
        BY <3>1, <3>2, <4>1 DEF RunIsPushed
      <4> QED BY <3>1, <3>4, <4>1, <4>2, <4>3 DEF RunIsPushed
    <3> QED BY <3>3, <3>5, <3>6 DEF MirrorInvariant
  <2>2. ASSUME NEW m \in Mirrors, Step(m) \/ Fail(m)
        PROVE  MirrorInvariant'
    BY <2>2, MirrorSteps
  <2>3. CASE UNCHANGED vars
    BY <2>3 DEF vars, MirrorInvariant, TypeOK, ProcessedIsPushed,
       RunIsPushed, NextEvent
  <2> QED BY <2>1, <2>2, <2>3 DEF Next
<1>3. MirrorInvariant => ProcessedIsPushed
  BY DEF MirrorInvariant
<1> QED BY <1>1, <1>2, <1>3, PTL DEF Spec
=============================================================================
