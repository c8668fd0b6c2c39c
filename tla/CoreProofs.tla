----------------------------- MODULE CoreProofs -----------------------------
(***************************************************************************)
(* Proofs about the memory core, for any parameters: the gateways, the     *)
(* clean-room restore, the projections, the publisher lease, the           *)
(* registries and the bounded queue with its retry budget. A theorem       *)
(* about a component is about every behaviour of its specification, with   *)
(* whatever value active has.                                              *)
(***************************************************************************)
EXTENDS MCCore, Sequences, FiniteSetTheorems, SequenceTheorems, NaturalsInduction,
        WellFoundedInduction, TLAPS
-----------------------------------------------------------------------------
(* RecoveryCoordinator: calls.                                             *)

\* A call that does not run has its type.
LEMMA RecoveryIdle == Recovery!Idle \in Recovery!Call /\ Recovery!Idle.pc = "idle"
BY DEF Recovery!Idle, Recovery!Call

\* The number of the overlays is a number, and each is a set of items.
LEMMA RecoveryNumbers ==
  ASSUME Recovery!TypeOK
  PROVE  /\ Len(issued) \in Nat /\ Len(vetoes) \in Nat
         /\ \A o \in 1 .. Len(issued) : issued[o] \in SUBSET Items
         /\ \A o \in 1 .. Len(vetoes) : vetoes[o] \in SUBSET Items
         /\ DOMAIN vetoes = 1 .. Len(vetoes)
BY DEF Recovery!TypeOK

\* One call moves, and the others do not.
RecoveryCallStep(c) ==
  /\ co' = [co EXCEPT ![c] = co'[c]]
  /\ co'[c] \in Recovery!Call

\* What the other calls rely on: the manifest stays, overlays are only added,
\* and only the one that moves takes the freeze or gives it back.
RecoveryKeeps(c) ==
  /\ UNCHANGED anchor
  /\ issued' \in Seq(SUBSET Items) /\ vetoes' \in Seq(SUBSET Items)
  /\ Len(issued) <= Len(issued') /\ Len(vetoes) <= Len(vetoes')
  /\ \A o \in 1 .. Len(issued) : issued'[o] = issued[o]
  /\ freeze' \in {freeze} \cup (IF freeze \in {None, c} THEN {None, c} ELSE {})
  /\ leaked \subseteq leaked'

\* Then their verification stays good.
LEMMA RecoveryOthers ==
  ASSUME Recovery!RecoveryAssumption, Recovery!RecoveryInvariant,
         NEW c \in Coordinators, RecoveryKeeps(c),
         NEW d \in Coordinators \ {c}, co'[d] = co[d]
  PROVE  Recovery!CallIsVerified(d)'
<1>0. Recovery!CallIsVerified(d) /\ Recovery!TypeOK /\ Recovery!OverlaysFollow
  BY DEF Recovery!RecoveryInvariant
<1>1. Len(issued) \in Nat /\ Len(vetoes) \in Nat /\ Len(vetoes) <= Len(issued)
  BY <1>0, RecoveryNumbers DEF Recovery!OverlaysFollow
<1>2. Len(issued') \in Nat /\ Len(vetoes') \in Nat
  BY DEF RecoveryKeeps
<1>3. /\ co[d].pc \in Recovery!Frozen => freeze' = d
      /\ freeze' = d => co[d].pc \in Recovery!Frozen \/ d \in leaked'
  BY <1>0 DEF Recovery!CallIsVerified, RecoveryKeeps, Recovery!RecoveryAssumption
<1>4. Recovery!Intact' = Recovery!Intact
  BY DEF Recovery!Intact, RecoveryKeeps
<1>5. co[d].pc = "apply" => co[d].head \in 1 .. Len(issued')
  BY <1>0, <1>1, <1>2 DEF Recovery!CallIsVerified, RecoveryKeeps
<1>6. co[d].pc \in {"begin", "status", "commit"} =>
        co[d].head \in 1 .. Len(vetoes') /\ co[d].deleted = issued'[co[d].head]
  <2> SUFFICES ASSUME co[d].pc \in {"begin", "status", "commit"}
               PROVE  co[d].head \in 1 .. Len(vetoes') /\ co[d].deleted = issued'[co[d].head]
    OBVIOUS
  <2>1. co[d].head \in 1 .. Len(vetoes) /\ co[d].deleted = issued[co[d].head]
    BY <1>0 DEF Recovery!CallIsVerified
  <2>2. co[d].head \in 1 .. Len(issued) /\ co[d].head \in 1 .. Len(vetoes')
    BY <1>1, <1>2, <2>1 DEF RecoveryKeeps
  <2> QED BY <2>1, <2>2 DEF RecoveryKeeps
<1>7. UNCHANGED <<anchor>>
  BY DEF RecoveryKeeps
<1> QED BY <1>0, <1>3, <1>4, <1>5, <1>6, <1>7
        DEF Recovery!CallIsVerified, Recovery!Pointers

\* A step of one call keeps the invariant when that call keeps its part, and
\* when overlays and restores keep theirs.
LEMMA RecoveryStep ==
  ASSUME Recovery!RecoveryAssumption, Recovery!RecoveryInvariant,
         NEW c \in Coordinators, RecoveryCallStep(c), RecoveryKeeps(c),
         leaked' \subseteq Coordinators, Recovery!CallIsVerified(c)',
         Recovery!OverlaysFollow', Recovery!RestoresHold'
  PROVE  Recovery!RecoveryInvariant'
<1>0. Recovery!TypeOK
  BY DEF Recovery!RecoveryInvariant
<1>1. co' \in [Coordinators -> Recovery!Call] /\ \A d \in Coordinators \ {c} : co'[d] = co[d]
  BY <1>0 DEF RecoveryCallStep, Recovery!TypeOK
<1>2. Recovery!TypeOK'
  BY <1>0, <1>1 DEF Recovery!TypeOK, RecoveryKeeps
<1>3. \A d \in Coordinators : Recovery!CallIsVerified(d)'
  BY <1>1, RecoveryOthers
<1> QED BY <1>2, <1>3 DEF Recovery!RecoveryInvariant

\* Rows and the freeze that do not change are kept.
LEMMA RecoveryRowsKept ==
  ASSUME Recovery!RecoveryInvariant, NEW c \in Coordinators,
         UNCHANGED <<anchor, issued, vetoes>>,
         freeze' \in {freeze} \cup (IF freeze \in {None, c} THEN {None, c} ELSE {}),
         leaked \subseteq leaked'
  PROVE  RecoveryKeeps(c) /\ Recovery!OverlaysFollow'
<1>0. Recovery!TypeOK /\ Recovery!OverlaysFollow
  BY DEF Recovery!RecoveryInvariant
<1>1. Len(issued) \in Nat /\ Len(vetoes) \in Nat
  BY <1>0, RecoveryNumbers
<1>2. RecoveryKeeps(c)
  BY <1>0, <1>1 DEF RecoveryKeeps, Recovery!TypeOK
<1> QED BY <1>0, <1>2 DEF Recovery!OverlaysFollow

\* Restores and evidence that do not change hold as the overlays grow.
LEMMA RecoveryRestoresKept ==
  ASSUME Recovery!RecoveryInvariant, NEW c, RecoveryKeeps(c), UNCHANGED <<restores, evidence>>
  PROVE  Recovery!RestoresHold'
<1>0. Recovery!TypeOK /\ Recovery!OverlaysFollow /\ Recovery!RestoresHold
  BY DEF Recovery!RecoveryInvariant
<1>1. /\ Len(issued) \in Nat /\ Len(vetoes) \in Nat /\ Len(vetoes) <= Len(issued)
      /\ Len(vetoes') \in Nat /\ Len(vetoes) <= Len(vetoes')
  BY <1>0, RecoveryNumbers DEF Recovery!OverlaysFollow, RecoveryKeeps
<1>2. UNCHANGED anchor /\ Recovery!Intact' = Recovery!Intact
  BY DEF Recovery!Intact, RecoveryKeeps
<1>3. \A o \in 1 .. Len(vetoes) : o \in 1 .. Len(vetoes') /\ issued'[o] = issued[o]
  BY <1>1 DEF RecoveryKeeps
<1> QED BY <1>0, <1>2, <1>3 DEF Recovery!RestoresHold, Recovery!Pointers

-----------------------------------------------------------------------------
(* RecoveryCoordinator: every step keeps the invariant.                    *)

\* A bundle that verifies is the pinned one, intact, with the overlay head an
\* issued one (_verify_bundle).
LEMMA VerifiedIsIntact ==
  ASSUME NEW s \in Recovery!SignedManifests, NEW a \in Recovery!Answers, NEW chain, NEW head,
         Recovery!VerifyBundle(s, a, chain, head)
  PROVE  /\ s.man = anchor /\ head \in 1 .. Len(issued)
         /\ Recovery!Verified(s, a) = Recovery!Intact
<1>1. s.man = anchor /\ head \in 1 .. Len(issued)
  BY DEF Recovery!VerifyBundle, Recovery!VerifySigned, Recovery!VerifyDeletionOverlay
<1>2. /\ \A i \in s.man.items : a.payload[i] = "good"
      /\ a.keys.pinned /\ s.man.bound \cap a.keys.forged = {}
  BY DEF Recovery!VerifyBundle, Recovery!VerifyItems
<1>3. a.keys.pinned = TRUE
  BY <1>2 DEF Recovery!Answers, Recovery!Keys
<1>4. {i \in s.man.items : a.payload[i] # "good"} = {} /\ a.keys.forged \cap s.man.bound = {}
  BY <1>2
<1> QED BY <1>1, <1>3, <1>4 DEF Recovery!Verified, Recovery!Intact

\* A bundle found intact has its type, because the pinned manifest has.
LEMMA IntactType ==
  ASSUME Recovery!TypeOK
  PROVE  Recovery!Intact \in Recovery!Bundle
BY DEF Recovery!TypeOK, Recovery!Intact, Recovery!Bundle

\* A call that ends or dies: it holds no freeze, or it is noted as leaked.
LEMMA RecoveryReturn ==
  ASSUME Recovery!RecoveryAssumption, Recovery!RecoveryInvariant, NEW c \in Coordinators,
         co' = [co EXCEPT ![c] = Recovery!Idle],
         UNCHANGED <<anchor, issued, vetoes, restores, evidence>>,
         freeze' \in {freeze} \cup (IF freeze \in {None, c} THEN {None} ELSE {}),
         leaked \subseteq leaked', leaked' \subseteq Coordinators,
         freeze' = c => c \in leaked'
  PROVE  Recovery!RecoveryInvariant'
<1>1. co' = [co EXCEPT ![c] = co'[c]] /\ co'[c] = Recovery!Idle
  BY DEF Recovery!RecoveryInvariant, Recovery!TypeOK
<1>2. RecoveryCallStep(c)
  BY <1>1, RecoveryIdle DEF RecoveryCallStep
<1>3. RecoveryKeeps(c) /\ Recovery!OverlaysFollow'
  BY RecoveryRowsKept
<1>4. Recovery!RestoresHold'
  BY <1>3, RecoveryRestoresKept
<1>5. Recovery!CallIsVerified(c)'
  BY <1>1, RecoveryIdle DEF Recovery!CallIsVerified, Recovery!Frozen
<1> QED BY <1>2, <1>3, <1>4, <1>5, RecoveryStep

\* A call that moves and touches no row, no port and no restore.
LEMMA RecoveryMove ==
  ASSUME Recovery!RecoveryAssumption, Recovery!RecoveryInvariant, NEW c \in Coordinators,
         RecoveryCallStep(c), Recovery!CallIsVerified(c)',
         UNCHANGED <<anchor, issued, vetoes, freeze, restores, evidence, leaked>>
  PROVE  Recovery!RecoveryInvariant'
<1>1. RecoveryKeeps(c) /\ Recovery!OverlaysFollow' /\ leaked' \subseteq Coordinators
  BY RecoveryRowsKept DEF Recovery!RecoveryInvariant, Recovery!TypeOK
<1>2. Recovery!RestoresHold'
  BY <1>1, RecoveryRestoresKept
<1> QED BY <1>1, <1>2, RecoveryStep

\* A failure, or the end of the work, leads to the release.
LEMMA RecoveryGotoRelease ==
  ASSUME Recovery!RecoveryAssumption, Recovery!RecoveryInvariant, NEW c \in Coordinators,
         co[c].pc \in {"verify", "apply", "begin", "status", "commit"},
         Recovery!Goto(c, "release"),
         UNCHANGED <<anchor, issued, vetoes, freeze, restores, evidence, leaked>>
  PROVE  Recovery!RecoveryInvariant'
<1>0. co \in [Coordinators -> Recovery!Call] /\ co[c] \in Recovery!Call
      /\ Recovery!CallIsVerified(c)
  BY DEF Recovery!RecoveryInvariant, Recovery!TypeOK
<1>1. co' = [co EXCEPT ![c] = co'[c]] /\ co'[c] = [co[c] EXCEPT !.pc = "release"]
  BY <1>0 DEF Recovery!Goto
<1>2. co'[c] \in Recovery!Call /\ co'[c].pc = "release"
  BY <1>0, <1>1 DEF Recovery!Call
<1>3. Recovery!CallIsVerified(c)'
  BY <1>0, <1>2 DEF Recovery!CallIsVerified, Recovery!Frozen
<1> QED BY <1>1, <1>2, <1>3, RecoveryMove DEF RecoveryCallStep

\* The signer issues one more overlay.
LEMMA RecoveryIssue ==
  ASSUME Recovery!RecoveryInvariant, Recovery!IssueOverlay
  PROVE  Recovery!RecoveryInvariant'
<1>0. Recovery!TypeOK /\ Recovery!OverlaysFollow /\ Recovery!RestoresHold
  BY DEF Recovery!RecoveryInvariant
<1>1. PICK refs \in SUBSET Items : issued' = Append(issued, refs)
  BY DEF Recovery!IssueOverlay
<1>2. UNCHANGED <<anchor, vetoes, freeze, restores, evidence, leaked, co>>
  BY DEF Recovery!IssueOverlay
<1>3. /\ issued' \in Seq(SUBSET Items) /\ Len(issued') = Len(issued) + 1
      /\ \A o \in 1 .. Len(issued) : issued'[o] = issued[o]
  BY <1>0, <1>1 DEF Recovery!TypeOK
<1>4. Len(issued) \in Nat /\ Len(vetoes) \in Nat /\ Len(vetoes) <= Len(issued)
  BY <1>0, RecoveryNumbers DEF Recovery!OverlaysFollow
<1>5. \A o \in 1 .. Len(vetoes) : issued'[o] = issued[o]
  BY <1>3, <1>4
<1>6. Recovery!TypeOK'
  BY <1>0, <1>2, <1>3 DEF Recovery!TypeOK
<1>7. Recovery!OverlaysFollow' /\ Recovery!Intact' = Recovery!Intact
  BY <1>0, <1>2, <1>3, <1>4, <1>5 DEF Recovery!OverlaysFollow, Recovery!Intact
<1>8. Recovery!RestoresHold'
  BY <1>0, <1>2, <1>5, <1>7 DEF Recovery!RestoresHold, Recovery!Pointers
<1>9. ASSUME NEW d \in Coordinators PROVE Recovery!CallIsVerified(d)'
  <2>1. Recovery!CallIsVerified(d)
    BY DEF Recovery!RecoveryInvariant
  <2>2. co[d].head \in 1 .. Len(issued) => co[d].head \in 1 .. Len(issued')
    BY <1>3, <1>4
  <2> QED BY <1>2, <1>5, <1>7, <2>1, <2>2 DEF Recovery!CallIsVerified, Recovery!Pointers
<1> QED BY <1>6, <1>7, <1>8, <1>9 DEF Recovery!RecoveryInvariant

\* A verification: the evidence of a dry run and the bundle that a restore goes
\* on with are both intact.
LEMMA RecoveryVerification ==
  ASSUME Recovery!RecoveryAssumption, Recovery!RecoveryInvariant, NEW c \in Coordinators,
         Recovery!Verification(c)
  PROVE  Recovery!RecoveryInvariant'
<1>0. /\ co \in [Coordinators -> Recovery!Call] /\ co[c] \in Recovery!Call
      /\ Recovery!CallIsVerified(c) /\ Recovery!TypeOK /\ Recovery!RestoresHold
      /\ Len(issued) \in Nat
  BY RecoveryNumbers DEF Recovery!RecoveryInvariant, Recovery!TypeOK
<1>1. PICK s \in Recovery!SignedManifests, a \in Recovery!Answers,
           chain \in Recovery!Chains, head \in 0 .. Len(issued) :
        \/ Recovery!DryRun(c, s, a, chain, head)
        \/ Recovery!VerifyFrozen(c, s, a, chain, head)
  BY DEF Recovery!Verification
<1> DEFINE of == Recovery!Verified(s, a)
<1>2. s.man = anchor /\ head \in 1 .. Len(issued) /\ of = Recovery!Intact
  <2>1. Recovery!VerifyBundle(s, a, chain, head)
    BY <1>1 DEF Recovery!DryRun, Recovery!VerifyFrozen
  <2> QED BY <2>1, VerifiedIsIntact
<1>3. CASE Recovery!DryRun(c, s, a, chain, head)
  <2> DEFINE e == [status |-> "verified", of |-> of]
  <2>1. /\ evidence' = evidence \cup {e} /\ e.of = of
        /\ UNCHANGED <<anchor, issued, vetoes, freeze, restores, leaked, co>>
    BY <1>3 DEF Recovery!DryRun
  <2> HIDE DEF of, e
  <2>2. Recovery!TypeOK' /\ Recovery!OverlaysFollow' /\ Recovery!Intact' = Recovery!Intact
    BY <2>1 DEF Recovery!RecoveryInvariant, Recovery!TypeOK, Recovery!OverlaysFollow,
                Recovery!Intact
  <2>3. Recovery!RestoresHold'
    BY <1>0, <1>2, <2>1, <2>2 DEF Recovery!RestoresHold, Recovery!Pointers
  <2>4. ASSUME NEW d \in Coordinators PROVE Recovery!CallIsVerified(d)'
    BY <2>1, <2>2 DEF Recovery!RecoveryInvariant, Recovery!CallIsVerified, Recovery!Pointers
  <2> QED BY <2>2, <2>3, <2>4 DEF Recovery!RecoveryInvariant
<1>4. CASE Recovery!VerifyFrozen(c, s, a, chain, head)
  <2>1. /\ co[c].pc = "verify" /\ s.man = co[c].man
        /\ co' = [co EXCEPT ![c] = co'[c]]
        /\ co'[c] = [co[c] EXCEPT !.pc = "apply", !.head = head, !.of = of]
        /\ UNCHANGED <<anchor, issued, vetoes, freeze, restores, evidence, leaked>>
    BY <1>0, <1>4 DEF Recovery!VerifyFrozen, Recovery!At
  <2> HIDE DEF of
  <2>2. of \in Recovery!Bundle /\ head \in Nat
    BY <1>0, <1>2, IntactType
  <2>3. /\ co'[c] \in Recovery!Call /\ co'[c].pc = "apply" /\ co'[c].head = head
        /\ co'[c].of = of /\ co'[c].man = co[c].man
    BY <1>0, <2>1, <2>2 DEF Recovery!Call
  <2>4. Recovery!Intact' = Recovery!Intact /\ freeze' = c
    BY <1>0, <2>1 DEF Recovery!Intact, Recovery!CallIsVerified, Recovery!Frozen
  <2>5. Recovery!CallIsVerified(c)'
    BY <1>2, <2>1, <2>3, <2>4 DEF Recovery!CallIsVerified, Recovery!Frozen
  <2> QED BY <2>1, <2>3, <2>5, RecoveryMove DEF RecoveryCallStep
<1> QED BY <1>1, <1>3, <1>4

\* The overlay is written once and in order, and read back.
LEMMA RecoveryApply ==
  ASSUME Recovery!RecoveryAssumption, Recovery!RecoveryInvariant, NEW c \in Coordinators,
         Recovery!ApplyOverlay(c)
  PROVE  Recovery!RecoveryInvariant'
<1>0. /\ co \in [Coordinators -> Recovery!Call] /\ co[c] \in Recovery!Call
      /\ Recovery!CallIsVerified(c) /\ Recovery!TypeOK /\ Recovery!OverlaysFollow
      /\ Len(issued) \in Nat /\ Len(vetoes) \in Nat /\ Len(vetoes) <= Len(issued)
      /\ vetoes \in Seq(SUBSET Items) /\ leaked \subseteq Coordinators
  BY RecoveryNumbers DEF Recovery!RecoveryInvariant, Recovery!TypeOK, Recovery!OverlaysFollow
<1> DEFINE o == co[c].head
<1>1. /\ co[c].pc = "apply" /\ Recovery!PersistOverlay(o)
      /\ co' = [co EXCEPT ![c] = co'[c]]
      /\ co'[c] = [co[c] EXCEPT !.pc = "begin", !.deleted = vetoes'[o]]
      /\ UNCHANGED <<anchor, issued, freeze, restores, evidence, leaked>>
  BY <1>0 DEF Recovery!ApplyOverlay, Recovery!At
<1>2. o \in 1 .. Len(issued) /\ issued[o] \in SUBSET Items
  BY <1>0, <1>1, RecoveryNumbers DEF Recovery!CallIsVerified
<1>3. /\ vetoes' \in Seq(SUBSET Items) /\ Len(vetoes) <= Len(vetoes')
      /\ Len(vetoes') <= Len(issued) /\ o \in 1 .. Len(vetoes')
      /\ \A p \in 1 .. Len(vetoes') : vetoes'[p] = issued[p]
  <2>1. CASE o \in DOMAIN vetoes /\ UNCHANGED vetoes
    BY <1>0, <2>1, RecoveryNumbers DEF Recovery!OverlaysFollow
  <2>2. CASE o = Len(vetoes) + 1 /\ vetoes' = Append(vetoes, issued[o])
    <3>1. /\ vetoes' \in Seq(SUBSET Items) /\ Len(vetoes') = Len(vetoes) + 1
          /\ \A p \in 1 .. Len(vetoes) : vetoes'[p] = vetoes[p]
          /\ vetoes'[Len(vetoes) + 1] = issued[o]
      BY <1>0, <1>2, <2>2
    <3>2. ASSUME NEW p \in 1 .. Len(vetoes') PROVE vetoes'[p] = issued[p]
      <4>1. CASE p = Len(vetoes) + 1
        BY <2>2, <3>1, <4>1
      <4>2. CASE p # Len(vetoes) + 1
        <5>1. p \in 1 .. Len(vetoes)
          BY <1>0, <3>1, <4>2
        <5> QED BY <1>0, <3>1, <5>1 DEF Recovery!OverlaysFollow
      <4> QED BY <4>1, <4>2
    <3> QED BY <1>0, <1>2, <2>2, <3>1, <3>2
  <2> QED BY <1>1, <2>1, <2>2 DEF Recovery!PersistOverlay
<1>4. vetoes'[o] = issued[o]
  BY <1>3
<1>5. /\ co'[c] \in Recovery!Call /\ co'[c].pc = "begin" /\ co'[c].head = o
      /\ co'[c].deleted = issued[o] /\ co'[c].man = co[c].man /\ co'[c].of = co[c].of
  BY <1>0, <1>1, <1>2, <1>4 DEF Recovery!Call
<1>6. RecoveryKeeps(c) /\ Recovery!OverlaysFollow'
  BY <1>0, <1>1, <1>3 DEF RecoveryKeeps, Recovery!OverlaysFollow, Recovery!TypeOK
<1>7. Recovery!RestoresHold' /\ Recovery!Intact' = Recovery!Intact
  BY <1>1, <1>6, RecoveryRestoresKept DEF Recovery!Intact
<1>8. Recovery!CallIsVerified(c)'
  BY <1>0, <1>1, <1>3, <1>5, <1>7 DEF Recovery!CallIsVerified, Recovery!Frozen
<1> QED BY <1>0, <1>1, <1>5, <1>6, <1>7, <1>8, RecoveryStep DEF RecoveryCallStep

\* The freeze is taken by one call at a time.
LEMMA RecoveryFreeze ==
  ASSUME Recovery!RecoveryAssumption, Recovery!RecoveryInvariant, NEW c \in Coordinators,
         Recovery!AcquireFreeze(c)
  PROVE  Recovery!RecoveryInvariant'
<1>0. /\ co \in [Coordinators -> Recovery!Call] /\ co[c] \in Recovery!Call
      /\ Recovery!CallIsVerified(c) /\ leaked \subseteq Coordinators
  BY DEF Recovery!RecoveryInvariant, Recovery!TypeOK
<1>1. co[c].pc = "freeze" /\ UNCHANGED <<anchor, issued, vetoes, restores, evidence, leaked>>
  BY DEF Recovery!AcquireFreeze, Recovery!At
<1>2. CASE freeze = None
  <2>1. /\ freeze' = c /\ co' = [co EXCEPT ![c] = co'[c]]
        /\ co'[c] = [co[c] EXCEPT !.pc = "verify"]
    BY <1>0, <1>2 DEF Recovery!AcquireFreeze, Recovery!Goto
  <2>2. co'[c] \in Recovery!Call /\ co'[c].pc = "verify"
    BY <1>0, <2>1 DEF Recovery!Call
  <2>3. Recovery!CallIsVerified(c)'
    BY <2>1, <2>2 DEF Recovery!CallIsVerified, Recovery!Frozen
  <2>4. RecoveryKeeps(c) /\ Recovery!OverlaysFollow'
    BY <1>1, <1>2, <2>1, RecoveryRowsKept
  <2>5. Recovery!RestoresHold'
    BY <1>1, <2>4, RecoveryRestoresKept
  <2> QED BY <1>0, <1>1, <2>1, <2>2, <2>3, <2>4, <2>5, RecoveryStep DEF RecoveryCallStep
<1>3. CASE freeze # None
  <2>1. UNCHANGED freeze /\ co' = [co EXCEPT ![c] = Recovery!Idle]
    BY <1>3 DEF Recovery!AcquireFreeze
  <2>2. freeze' = c => c \in leaked'
    BY <1>0, <1>1, <2>1 DEF Recovery!CallIsVerified, Recovery!Frozen
  <2> QED BY <1>0, <1>1, <2>1, <2>2, RecoveryReturn
<1> QED BY <1>2, <1>3

\* What the overlay leaves is staged, and what the target reports compared.
LEMMA RecoveryStage ==
  ASSUME Recovery!RecoveryAssumption, Recovery!RecoveryInvariant, NEW c \in Coordinators,
         \/ Recovery!Preview(c) \/ Recovery!Stage(c)
         \/ \E agree \in SUBSET Recovery!Pointers : Recovery!VerifyStatus(c, agree)
  PROVE  Recovery!RecoveryInvariant'
<1>0. /\ co \in [Coordinators -> Recovery!Call] /\ co[c] \in Recovery!Call
      /\ Recovery!CallIsVerified(c) /\ anchor \in Recovery!Inventory
  BY DEF Recovery!RecoveryInvariant, Recovery!TypeOK
<1>1. UNCHANGED <<anchor, issued, vetoes, freeze, restores, evidence, leaked>>
  BY DEF Recovery!Preview, Recovery!Stage, Recovery!VerifyStatus
<1>2. Recovery!Intact' = Recovery!Intact
  BY <1>1 DEF Recovery!Intact
<1>3. CASE Recovery!Preview(c)
  <2>1. PICK s \in Recovery!SignedManifests :
          co' = [co EXCEPT ![c].pc = "freeze", ![c].man = s.man]
    BY <1>3 DEF Recovery!Preview
  <2>2. s.man \in Recovery!Inventory
    BY DEF Recovery!SignedManifests, Recovery!Manifests
  <2>3. /\ co' = [co EXCEPT ![c] = co'[c]]
        /\ co'[c] = [co[c] EXCEPT !.pc = "freeze", !.man = s.man]
    BY <1>0, <2>1
  <2>4. co'[c] \in Recovery!Call /\ co'[c].pc = "freeze"
    BY <1>0, <2>2, <2>3 DEF Recovery!Call
  <2>5. freeze = c => c \in leaked
    BY <1>0, <1>3 DEF Recovery!Preview, Recovery!At, Recovery!CallIsVerified, Recovery!Frozen
  <2>6. Recovery!CallIsVerified(c)'
    BY <1>1, <2>4, <2>5 DEF Recovery!CallIsVerified, Recovery!Frozen
  <2> QED BY <1>1, <2>3, <2>4, <2>6, RecoveryMove DEF RecoveryCallStep
<1>4. CASE Recovery!Stage(c)
  <2> DEFINE left == co[c].man.items \ co[c].deleted
  <2>1. /\ co[c].pc = "begin" /\ co' = [co EXCEPT ![c] = co'[c]]
        /\ co'[c] = [co[c] EXCEPT !.pc = "status", !.staged = left]
    BY <1>0, <1>4 DEF Recovery!Stage, Recovery!At
  <2>2. left = anchor.items \ co[c].deleted /\ left \in SUBSET Items
    BY <1>0, <2>1 DEF Recovery!CallIsVerified, Recovery!Inventory
  <2> HIDE DEF left
  <2>3. /\ co'[c] \in Recovery!Call /\ co'[c].pc = "status" /\ co'[c].staged = left
        /\ co'[c].head = co[c].head /\ co'[c].man = co[c].man /\ co'[c].of = co[c].of
        /\ co'[c].deleted = co[c].deleted
    BY <1>0, <2>1, <2>2 DEF Recovery!Call
  <2>4. Recovery!CallIsVerified(c)'
    BY <1>0, <1>1, <1>2, <2>1, <2>2, <2>3 DEF Recovery!CallIsVerified, Recovery!Frozen
  <2> QED BY <1>1, <2>1, <2>3, <2>4, RecoveryMove DEF RecoveryCallStep
<1>5. ASSUME NEW agree \in SUBSET Recovery!Pointers, Recovery!VerifyStatus(c, agree)
      PROVE  Recovery!RecoveryInvariant'
  <2>0. co[c].pc = "status"
    BY <1>5 DEF Recovery!VerifyStatus, Recovery!At
  <2>1. CASE agree = Recovery!Pointers
    <3>1. /\ co' = [co EXCEPT ![c] = co'[c]]
          /\ co'[c] = [co[c] EXCEPT !.pc = "commit", !.agree = agree]
      BY <1>0, <1>5, <2>1 DEF Recovery!VerifyStatus
    <3>2. /\ co'[c] \in Recovery!Call /\ co'[c].pc = "commit" /\ co'[c].agree = agree
          /\ co'[c].head = co[c].head /\ co'[c].man = co[c].man /\ co'[c].of = co[c].of
          /\ co'[c].deleted = co[c].deleted /\ co'[c].staged = co[c].staged
      BY <1>0, <3>1 DEF Recovery!Call
    <3>3. Recovery!CallIsVerified(c)'
      BY <1>0, <1>1, <1>2, <2>0, <2>1, <3>2
         DEF Recovery!CallIsVerified, Recovery!Frozen, Recovery!Pointers
    <3> QED BY <1>1, <3>1, <3>2, <3>3, RecoveryMove DEF RecoveryCallStep
  <2>2. CASE agree # Recovery!Pointers
    BY <1>1, <1>5, <2>0, <2>2, RecoveryGotoRelease DEF Recovery!VerifyStatus
  <2> QED BY <2>1, <2>2
<1> QED BY <1>3, <1>4, <1>5

\* The committed restore is what the call verified, applied and staged.
LEMMA RecoveryCommit ==
  ASSUME Recovery!RecoveryAssumption, Recovery!RecoveryInvariant, NEW c \in Coordinators,
         Recovery!CommitRestore(c)
  PROVE  Recovery!RecoveryInvariant'
<1>0. /\ co \in [Coordinators -> Recovery!Call] /\ co[c] \in Recovery!Call
      /\ Recovery!CallIsVerified(c) /\ leaked \subseteq Coordinators
      /\ Recovery!RestoresHold
  BY DEF Recovery!RecoveryInvariant, Recovery!TypeOK
<1> DEFINE r == [of |-> co[c].of, staged |-> co[c].staged, agree |-> co[c].agree,
                 overlay |-> co[c].head]
           e == [status |-> "restored", of |-> co[c].of]
<1>1. /\ co[c].pc = "commit" /\ restores' = restores \cup {r} /\ evidence' = evidence \cup {e}
      /\ co' = [co EXCEPT ![c] = co'[c]]
      /\ co'[c] = [co[c] EXCEPT !.pc = "release", !.done = TRUE]
      /\ UNCHANGED <<anchor, issued, vetoes, freeze, leaked>>
  BY <1>0 DEF Recovery!CommitRestore, Recovery!At, Recovery!Evidence
<1>2. co'[c] \in Recovery!Call /\ co'[c].pc = "release"
  BY <1>0, <1>1 DEF Recovery!Call
<1>3. /\ r.of = Recovery!Intact /\ r.agree = Recovery!Pointers
      /\ r.overlay \in 1 .. Len(vetoes) /\ r.staged = anchor.items \ issued[r.overlay]
      /\ e.of = Recovery!Intact
  BY <1>0, <1>1 DEF Recovery!CallIsVerified
<1> HIDE DEF r, e
<1>4. RecoveryKeeps(c) /\ Recovery!OverlaysFollow' /\ Recovery!Intact' = Recovery!Intact
  BY <1>1, RecoveryRowsKept DEF Recovery!Intact
<1>5. Recovery!RestoresHold'
  BY <1>0, <1>1, <1>3, <1>4 DEF Recovery!RestoresHold, Recovery!Pointers
<1>6. Recovery!CallIsVerified(c)'
  BY <1>0, <1>1, <1>2 DEF Recovery!CallIsVerified, Recovery!Frozen
<1> QED BY <1>0, <1>1, <1>2, <1>4, <1>5, <1>6, RecoveryStep DEF RecoveryCallStep

\* The freeze is given back at the end, or its holder is noted.
LEMMA RecoveryRelease ==
  ASSUME Recovery!RecoveryAssumption, Recovery!RecoveryInvariant, NEW c \in Coordinators,
         Recovery!ReleaseFreeze(c) \/ Recovery!Crash(c)
  PROVE  Recovery!RecoveryInvariant'
<1>0. Recovery!CallIsVerified(c) /\ leaked \subseteq Coordinators
  BY DEF Recovery!RecoveryInvariant, Recovery!TypeOK
<1>1. /\ co' = [co EXCEPT ![c] = Recovery!Idle]
      /\ UNCHANGED <<anchor, issued, vetoes, restores, evidence>>
  BY DEF Recovery!ReleaseFreeze, Recovery!Crash
<1>2. CASE Recovery!ReleaseFreeze(c)
  <2>1. freeze = c
    BY <1>0, <1>2 DEF Recovery!ReleaseFreeze, Recovery!At, Recovery!CallIsVerified,
                      Recovery!Frozen
  <2>2. \/ freeze' = None /\ leaked' = leaked
        \/ freeze' = freeze /\ leaked' = leaked \cup {c}
    BY <1>2 DEF Recovery!ReleaseFreeze
  <2>3. freeze' = c => c \in leaked'
    BY <2>2 DEF Recovery!RecoveryAssumption
  <2> QED BY <1>0, <1>1, <2>1, <2>2, <2>3, RecoveryReturn
<1>3. CASE Recovery!Crash(c)
  <2>1. UNCHANGED freeze /\ leaked' = IF freeze = c THEN leaked \cup {c} ELSE leaked
    BY <1>3 DEF Recovery!Crash
  <2> QED BY <1>0, <1>1, <2>1, RecoveryReturn
<1> QED BY <1>2, <1>3

\* The invariant says what a reader of restores and evidence relies on.
LEMMA RecoveryImplies ==
  ASSUME Recovery!RecoveryInvariant
  PROVE  Recovery!RestoreIsSafe
<1>0. Recovery!TypeOK /\ Recovery!OverlaysFollow /\ Recovery!RestoresHold
  BY DEF Recovery!RecoveryInvariant
<1>1. DOMAIN vetoes = 1 .. Len(vetoes) /\ Len(vetoes) \in Nat
  BY <1>0, RecoveryNumbers
<1>3. \A e \in {x.of : x \in evidence \cup restores} : e = Recovery!Intact
  BY <1>0 DEF Recovery!RestoresHold
<1>4. Recovery!RestoreIsVerified
  <2>1. vetoes \in Seq(SUBSET Items)
    BY <1>0 DEF Recovery!TypeOK
  <2>2. \A o \in DOMAIN vetoes : vetoes[o] = issued[o]
    BY <1>0, <1>1 DEF Recovery!OverlaysFollow
  <2>3. \A r \in restores :
          /\ r.agree = Recovery!Pointers /\ r.overlay \in DOMAIN vetoes
          /\ r.staged = anchor.items \ issued[r.overlay]
    BY <1>0, <1>1 DEF Recovery!RestoresHold
  <2>4. \A e \in {x.of : x \in evidence \cup restores} :
          e = [man |-> anchor, bad |-> {}, keys |-> TRUE, forged |-> {}]
    BY <1>3, Zenon DEF Recovery!Intact
  <2> QED BY <2>1, <2>2, <2>3, <2>4 DEF Recovery!RestoreIsVerified
<1>5. Recovery!FreezeIsReturned
  BY DEF Recovery!RecoveryInvariant, Recovery!CallIsVerified, Recovery!FreezeIsReturned,
         Recovery!Frozen, Recovery!At
<1> QED BY <1>0, <1>4, <1>5 DEF Recovery!RestoreIsSafe

\* A committed restore holds what the pinned manifest and the overlay it
\* applied leave, evidence is of intact bundles only, the overlays in the
\* database are the issued ones without a gap, and no coordinator that returned
\* holds a freeze whose release did not fail (RecoveryCoordinator.restore and
\* dry_run, persist_verified_recovery_deletion_overlay).
THEOREM RestoresStaySafe ==
  ASSUME Recovery!RecoveryAssumption
  PROVE  Recovery!Spec => []RestoreIsSafe
<1>1. Recovery!Init => Recovery!RecoveryInvariant
  <2> SUFFICES ASSUME Recovery!Init PROVE Recovery!RecoveryInvariant
    OBVIOUS
  <2>1. /\ anchor \in Recovery!Inventory /\ issued \in Seq(SUBSET Items)
        /\ vetoes \in Seq(SUBSET Items) /\ Len(issued) = 1 /\ Len(vetoes) = 0
    BY DEF Recovery!Init, Recovery!Manifests
  <2>2. co \in [Coordinators -> Recovery!Call] /\ \A c \in Coordinators : co[c].pc = "idle"
    BY RecoveryIdle DEF Recovery!Init
  <2>3. Recovery!TypeOK
    BY <2>1, <2>2 DEF Recovery!TypeOK, Recovery!Init
  <2>4. Recovery!OverlaysFollow /\ Recovery!RestoresHold
    BY <2>1 DEF Recovery!OverlaysFollow, Recovery!RestoresHold, Recovery!Init
  <2>5. \A c \in Coordinators : Recovery!CallIsVerified(c)
    BY <2>2 DEF Recovery!CallIsVerified, Recovery!Init, Recovery!Frozen,
                Recovery!RecoveryAssumption
  <2> QED BY <2>3, <2>4, <2>5 DEF Recovery!RecoveryInvariant
<1>2. Recovery!RecoveryInvariant /\ [Recovery!Next]_Recovery!vars => Recovery!RecoveryInvariant'
  <2> SUFFICES ASSUME Recovery!RecoveryInvariant, [Recovery!Next]_Recovery!vars
               PROVE  Recovery!RecoveryInvariant'
    OBVIOUS
  <2>1. CASE Recovery!IssueOverlay
    BY <2>1, RecoveryIssue
  <2>2. ASSUME NEW c \in Coordinators, Recovery!Verification(c)
        PROVE  Recovery!RecoveryInvariant'
    BY <2>2, RecoveryVerification
  <2>3. ASSUME NEW c \in Coordinators,
               \/ Recovery!Preview(c) \/ Recovery!Stage(c)
               \/ \E agree \in SUBSET Recovery!Pointers : Recovery!VerifyStatus(c, agree)
        PROVE  Recovery!RecoveryInvariant'
    BY <2>3, RecoveryStage
  <2>4. ASSUME NEW c \in Coordinators, Recovery!AcquireFreeze(c)
        PROVE  Recovery!RecoveryInvariant'
    BY <2>4, RecoveryFreeze
  <2>5. ASSUME NEW c \in Coordinators, Recovery!ApplyOverlay(c)
        PROVE  Recovery!RecoveryInvariant'
    BY <2>5, RecoveryApply
  <2>6. ASSUME NEW c \in Coordinators, Recovery!CommitRestore(c)
        PROVE  Recovery!RecoveryInvariant'
    BY <2>6, RecoveryCommit
  <2>7. ASSUME NEW c \in Coordinators, Recovery!Raise(c)
        PROVE  Recovery!RecoveryInvariant'
    BY <2>7, RecoveryGotoRelease DEF Recovery!Raise
  <2>8. ASSUME NEW c \in Coordinators, Recovery!ReleaseFreeze(c) \/ Recovery!Crash(c)
        PROVE  Recovery!RecoveryInvariant'
    BY <2>8, RecoveryRelease
  <2>9. CASE UNCHANGED Recovery!vars
    BY <2>9 DEF Recovery!vars, Recovery!RecoveryInvariant, Recovery!TypeOK,
       Recovery!OverlaysFollow, Recovery!RestoresHold, Recovery!CallIsVerified,
       Recovery!Intact, Recovery!Pointers
  <2> QED BY <2>1, <2>2, <2>3, <2>4, <2>5, <2>6, <2>7, <2>8, <2>9 DEF Recovery!Next
<1>3. Recovery!RecoveryInvariant => RestoreIsSafe
  BY RecoveryImplies DEF RestoreIsSafe
<1> QED BY <1>1, <1>2, <1>3, PTL DEF Recovery!Spec

-----------------------------------------------------------------------------
(* CoreGateways.                                                           *)

\* A call that does not run has its type.
LEMMA GatewayIdle ==
  ASSUME Gateways!GatewayAssumption
  PROVE  Gateways!Idle \in Gateways!Call /\ Gateways!Idle.pc = "idle"
BY DEF Gateways!Idle, Gateways!Call, Gateways!GatewayAssumption

\* Jobs leave the queue, records are added, and no call drops an audit record
\* that it is about to write: then no job is orphaned.
LEMMA GatewayJobsKept ==
  ASSUME Gateways!NoOrphanJob, jobs' \subseteq jobs, audit \subseteq audit',
         \A d \in Callers : call[d].pc = "audit" => call'[d] = call[d]
  PROVE  Gateways!NoOrphanJob'
BY DEF Gateways!NoOrphanJob, Gateways!At, Gateways!AuditOf

\* A step that lets nothing out and answers no command.
LEMMA GatewayQuiet ==
  ASSUME Gateways!GatewayInvariant, disclosed' = {}, UNCHANGED <<stored, answered>>,
         token' \in Gateways!Levels \cup {None}, calls' \in 0 .. Quota, jobs' \subseteq Jobs,
         call' \in [Callers -> Gateways!Call], Gateways!NoOrphanJob'
  PROVE  Gateways!GatewayInvariant'
<1>1. Gateways!TypeOK /\ Gateways!AnswersAreBound /\ Gateways!AnswersAreStored
  BY DEF Gateways!GatewayInvariant, Gateways!GatewaysAreSafe
<1>2. Gateways!TypeOK'
  BY <1>1 DEF Gateways!TypeOK
<1>3. Gateways!AnswersAreBound' /\ Gateways!AnswersAreStored'
  BY <1>1 DEF Gateways!AnswersAreBound, Gateways!AnswersAreStored
<1> QED BY <1>2, <1>3 DEF Gateways!GatewayInvariant, Gateways!GatewaysAreSafe

\* Only c moves, and not from its audit.
LEMMA GatewayMove ==
  ASSUME Gateways!GatewayInvariant, NEW c \in Callers, NEW q \in Gateways!Call,
         call' = [call EXCEPT ![c] = q], call[c].pc # "audit"
  PROVE  /\ call' \in [Callers -> Gateways!Call]
         /\ \A d \in Callers : call[d].pc = "audit" => call'[d] = call[d]
<1>1. call \in [Callers -> Gateways!Call]
  BY DEF Gateways!GatewayInvariant, Gateways!GatewaysAreSafe, Gateways!TypeOK
<1> QED BY <1>1

\* A grant, a publication and a worker that takes a job.
LEMMA GatewayWorld ==
  ASSUME Gateways!GatewayInvariant, Gateways!Regrant \/ Gateways!Publish \/ Gateways!PopJob
  PROVE  Gateways!GatewayInvariant'
<1>0. Gateways!TypeOK /\ Gateways!NoOrphanJob
  BY DEF Gateways!GatewayInvariant, Gateways!GatewaysAreSafe
<1>1. /\ disclosed' = {} /\ UNCHANGED <<stored, answered, calls, audit, call>>
      /\ jobs' \subseteq jobs /\ token' \in Gateways!Levels \cup {None}
  BY <1>0 DEF Gateways!Regrant, Gateways!Publish, Gateways!PopJob, Gateways!core,
              Gateways!TypeOK
<1>2. Gateways!NoOrphanJob'
  BY <1>0, <1>1, GatewayJobsKept
<1> QED BY <1>0, <1>1, <1>2, GatewayQuiet DEF Gateways!TypeOK

\* A command: the record of its key is written once, with the answer.
LEMMA GatewayExecute ==
  ASSUME Gateways!GatewayAssumption, Gateways!GatewayInvariant, NEW k \in CommandKeys,
         NEW p \in Payloads, NEW g, NEW s, NEW outcome, Gateways!Execute(k, p, g, s, outcome)
  PROVE  Gateways!GatewayInvariant'
<1>0. Gateways!TypeOK /\ Gateways!NoOrphanJob /\ Gateways!AnswersAreStored
  BY DEF Gateways!GatewayInvariant, Gateways!GatewaysAreSafe
<1> DEFINE a == [key |-> k, payload |-> p]
<1>1. disclosed' = {} /\ UNCHANGED <<token, calls, audit, jobs, call>>
  BY DEF Gateways!Execute, Gateways!core
<1>2. \/ stored[k] = p /\ answered' = answered \cup {a} /\ UNCHANGED stored
      \/ stored[k] = None /\ stored' = [stored EXCEPT ![k] = p] /\ answered' = answered \cup {a}
      \/ UNCHANGED <<stored, answered>>
  BY DEF Gateways!Execute
<1>3. /\ stored' \in [CommandKeys -> Payloads \cup {None}]
      /\ answered' = answered \cup {a} => stored'[k] = p
      /\ \A j \in CommandKeys : stored[j] # None => stored'[j] = stored[j]
      /\ answered' \in {answered, answered \cup {a}}
  <2>1. stored \in [CommandKeys -> Payloads \cup {None}]
    BY <1>0 DEF Gateways!TypeOK
  <2>2. CASE stored[k] = p /\ answered' = answered \cup {a} /\ UNCHANGED stored
    BY <2>1, <2>2
  <2>3. CASE stored[k] = None /\ stored' = [stored EXCEPT ![k] = p]
             /\ answered' = answered \cup {a}
    BY <2>1, <2>3
  <2>4. CASE UNCHANGED <<stored, answered>>
    <3>1. a \in answered => stored[k] = p
      BY <1>0 DEF Gateways!AnswersAreStored
    <3>2. answered' = answered \cup {a} => a \in answered
      BY <2>4
    <3> QED BY <2>1, <2>4, <3>1, <3>2
  <2> QED BY <1>2, <2>2, <2>3, <2>4
<1>4. Gateways!AnswersAreStored'
  <2> SUFFICES ASSUME NEW b \in answered'
               PROVE  b.key \in CommandKeys /\ b.payload \in Payloads /\ stored'[b.key] = b.payload
    BY DEF Gateways!AnswersAreStored
  <2>1. CASE b \in answered
    <3>1. b.key \in CommandKeys /\ b.payload \in Payloads /\ stored[b.key] = b.payload
      BY <1>0, <2>1 DEF Gateways!AnswersAreStored
    <3>2. stored[b.key] # None
      BY <3>1 DEF Gateways!GatewayAssumption
    <3> QED BY <1>3, <3>1, <3>2
  <2>2. CASE b \notin answered
    <3>1. b = a /\ answered' = answered \cup {a}
      BY <1>3, <2>2
    <3> QED BY <1>3, <3>1
  <2> QED BY <2>1, <2>2
<1>5. Gateways!AnswersAreBound'
  BY <1>1, <1>4 DEF Gateways!AnswersAreBound, Gateways!AnswersAreStored
<1>6. Gateways!TypeOK' /\ Gateways!NoOrphanJob'
  BY <1>0, <1>1, <1>3 DEF Gateways!TypeOK, Gateways!NoOrphanJob, Gateways!At, Gateways!AuditOf
<1> QED BY <1>4, <1>5, <1>6 DEF Gateways!GatewayInvariant, Gateways!GatewaysAreSafe

\* A query: what it lets out is filtered at its own generation and with the
\* capability it started with.
LEMMA GatewayQuery ==
  ASSUME Gateways!GatewayAssumption, Gateways!GatewayInvariant, NEW c \in Callers,
         \/ \E g \in 1 .. MaxGen : Gateways!QueryStart(c, g)
         \/ \E g \in 1 .. MaxGen, projection \in BOOLEAN : Gateways!QueryRead(c, g, projection)
         \/ Gateways!QueryFilter(c)
  PROVE  Gateways!GatewayInvariant'
<1>0. /\ Gateways!TypeOK /\ Gateways!NoOrphanJob /\ Gateways!AnswersAreBound
      /\ Gateways!AnswersAreStored
      /\ call \in [Callers -> Gateways!Call] /\ call[c] \in Gateways!Call
  BY DEF Gateways!GatewayInvariant, Gateways!GatewaysAreSafe, Gateways!TypeOK
<1>1. ASSUME NEW q \in Gateways!Call, call' = [call EXCEPT ![c] = q], call[c].pc # "audit",
             disclosed' = {}, UNCHANGED <<token, stored, answered, calls, audit, jobs>>
      PROVE  Gateways!GatewayInvariant'
  <2>1. /\ call' \in [Callers -> Gateways!Call]
        /\ \A d \in Callers : call[d].pc = "audit" => call'[d] = call[d]
    BY <1>1, GatewayMove
  <2>2. Gateways!NoOrphanJob'
    BY <1>0, <1>1, <2>1, GatewayJobsKept
  <2> QED BY <1>0, <1>1, <2>1, <2>2, GatewayQuiet DEF Gateways!TypeOK
<1>2. ASSUME NEW g \in 1 .. MaxGen, Gateways!QueryStart(c, g)
      PROVE  Gateways!GatewayInvariant'
  <2> DEFINE q == [call[c] EXCEPT !.pc = "read", !.max = token, !.gen = g]
  <2>1. /\ call' = [call EXCEPT ![c] = q] /\ call[c].pc = "idle" /\ disclosed' = {}
        /\ UNCHANGED <<token, stored, answered, calls, audit, jobs>>
    BY <1>0, <1>2 DEF Gateways!QueryStart, Gateways!At, Gateways!core
  <2>2. g \in 0 .. MaxGen
    BY DEF Gateways!GatewayAssumption
  <2>3. q \in Gateways!Call
    BY <1>0, <2>2 DEF Gateways!Call, Gateways!TypeOK
  <2> HIDE DEF q
  <2> QED BY <1>1, <2>1, <2>3
<1>3. ASSUME NEW g \in 1 .. MaxGen, NEW projection \in BOOLEAN,
             Gateways!QueryRead(c, g, projection)
      PROVE  Gateways!GatewayInvariant'
  <2> DEFINE B == {o \in Objects : life[g][o] = "active"}
             q == [call[c] EXCEPT !.pc = "filter", !.from = g, !.batch = B]
  <2>1. /\ call' = [call EXCEPT ![c] = Gateways!Idle] \/ call' = [call EXCEPT ![c] = q]
        /\ call[c].pc = "read" /\ disclosed' = {}
        /\ UNCHANGED <<token, stored, answered, calls, audit, jobs>>
    BY <1>0, <1>3 DEF Gateways!QueryRead, Gateways!Return, Gateways!At, Gateways!core
  <2>2. g \in 0 .. MaxGen /\ B \in SUBSET Objects
    BY DEF Gateways!GatewayAssumption
  <2> HIDE DEF B
  <2>3. q \in Gateways!Call /\ Gateways!Idle \in Gateways!Call
    BY <1>0, <2>2, GatewayIdle DEF Gateways!Call
  <2> HIDE DEF q
  <2> QED BY <1>1, <2>1, <2>3
<1>4. CASE Gateways!QueryFilter(c)
  <2> DEFINE seen == {o \in call[c].batch : /\ life[call[c].gen][o] = "active"
                                            /\ Gateways!Authorize(call[c].max, level[o])}
  <2>1. /\ disclosed' = {[by |-> "query", object |-> o, gen |-> call[c].gen,
                          max |-> call[c].max, level |-> level[o]] : o \in seen}
        /\ call[c].pc = "filter" /\ call' = [call EXCEPT ![c] = Gateways!Idle]
        /\ UNCHANGED <<life, token, stored, answered, calls, audit, jobs>>
    BY <1>4 DEF Gateways!QueryFilter, Gateways!Return, Gateways!At, Gateways!core
  <2>2. ASSUME NEW d \in disclosed'
        PROVE  /\ d.level <= d.max
               /\ d.by = "query" => life'[d.gen][d.object] = "active"
               /\ d.by # "plugin"
    <3>1. PICK o \in seen : d = [by |-> "query", object |-> o, gen |-> call[c].gen,
                                 max |-> call[c].max, level |-> level[o]]
      BY <2>1
    <3>2. life[call[c].gen][o] = "active" /\ level[o] <= call[c].max
      BY DEF Gateways!Authorize
    <3> QED BY <2>1, <3>1, <3>2
  <2>3. Gateways!AnswersAreBound'
    BY <1>0, <2>1, <2>2 DEF Gateways!AnswersAreBound
  <2>4. /\ call' \in [Callers -> Gateways!Call]
        /\ \A d \in Callers : call[d].pc = "audit" => call'[d] = call[d]
    BY <2>1, GatewayMove, GatewayIdle
  <2>5. Gateways!TypeOK' /\ Gateways!NoOrphanJob' /\ Gateways!AnswersAreStored'
    BY <1>0, <2>1, <2>4, GatewayJobsKept DEF Gateways!TypeOK, Gateways!AnswersAreStored
  <2> QED BY <2>3, <2>5 DEF Gateways!GatewayInvariant, Gateways!GatewaysAreSafe
<1> QED BY <1>2, <1>3, <1>4

\* A plugin call: within its egress class, and counted before it is made.
LEMMA GatewayPlugin ==
  ASSUME Gateways!GatewayAssumption, Gateways!GatewayInvariant, NEW c \in Callers,
         \/ \E s \in Gateways!Levels, empty \in BOOLEAN : Gateways!PluginInvoke(c, s, empty)
         \/ Gateways!PluginAnswer(c)
  PROVE  Gateways!GatewayInvariant'
<1>0. /\ Gateways!TypeOK /\ Gateways!NoOrphanJob /\ Gateways!AnswersAreBound
      /\ Gateways!AnswersAreStored /\ calls \in 0 .. Quota
      /\ call \in [Callers -> Gateways!Call] /\ call[c] \in Gateways!Call
  BY DEF Gateways!GatewayInvariant, Gateways!GatewaysAreSafe, Gateways!TypeOK
<1>1. ASSUME NEW s \in Gateways!Levels, NEW empty \in BOOLEAN,
             Gateways!PluginInvoke(c, s, empty)
      PROVE  Gateways!GatewayInvariant'
  <2> DEFINE q == [call[c] EXCEPT !.pc = "plugin"]
             e == [by |-> "plugin", level |-> s, empty |-> empty, max |-> token,
                   call |-> calls']
  <2>1. /\ disclosed' = {e} /\ call[c].pc = "idle" /\ call' = [call EXCEPT ![c] = q]
        /\ calls < Quota /\ calls' = calls + 1
        /\ s <= token /\ Gateways!EgressAllows(s, empty)
        /\ UNCHANGED <<life, token, stored, answered, audit, jobs>>
    BY <1>0, <1>1 DEF Gateways!PluginInvoke, Gateways!Goto, Gateways!At, Gateways!core,
                      Gateways!Authorize
  <2>2. calls' \in 0 .. Quota /\ calls' <= Quota
    BY <1>0, <2>1 DEF Gateways!GatewayAssumption
  <2>3. /\ e.level <= e.max /\ e.by # "query" /\ e.call <= Quota
        /\ Gateways!EgressAllows(e.level, e.empty)
    BY <2>1, <2>2
  <2>4. q \in Gateways!Call
    BY <1>0 DEF Gateways!Call
  <2> HIDE DEF q, e
  <2>5. Gateways!AnswersAreBound'
    BY <1>0, <2>1, <2>3 DEF Gateways!AnswersAreBound, Gateways!EgressAllows
  <2>6. /\ call' \in [Callers -> Gateways!Call]
        /\ \A d \in Callers : call[d].pc = "audit" => call'[d] = call[d]
    BY <2>1, <2>4, GatewayMove
  <2>7. Gateways!TypeOK' /\ Gateways!NoOrphanJob' /\ Gateways!AnswersAreStored'
    BY <1>0, <2>1, <2>2, <2>6, GatewayJobsKept
       DEF Gateways!TypeOK, Gateways!AnswersAreStored
  <2> QED BY <2>5, <2>7 DEF Gateways!GatewayInvariant, Gateways!GatewaysAreSafe
<1>2. CASE Gateways!PluginAnswer(c)
  <2>1. /\ call[c].pc = "plugin" /\ call' = [call EXCEPT ![c] = Gateways!Idle]
        /\ disclosed' = {} /\ UNCHANGED <<token, stored, answered, calls, audit, jobs>>
    BY <1>2 DEF Gateways!PluginAnswer, Gateways!Return, Gateways!At, Gateways!core
  <2>2. /\ call' \in [Callers -> Gateways!Call]
        /\ \A d \in Callers : call[d].pc = "audit" => call'[d] = call[d]
    BY <2>1, GatewayMove, GatewayIdle
  <2>3. Gateways!NoOrphanJob'
    BY <1>0, <2>1, <2>2, GatewayJobsKept
  <2> QED BY <1>0, <2>1, <2>2, <2>3, GatewayQuiet DEF Gateways!TypeOK
<1> QED BY <1>1, <1>2

\* An export: a queued job has its record, or the call that is to write it, or
\* it leaves the queue again.
LEMMA GatewayExport ==
  ASSUME Gateways!GatewayAssumption, Gateways!GatewayInvariant, NEW c \in Callers,
         \/ Gateways!EmitTelemetry(c) \/ Gateways!ExportAudit(c)
         \/ \E j \in Jobs, s \in Gateways!Levels :
              \/ Gateways!ExportDenied(c, j, s) \/ Gateways!ExportDeferred(c, j, s)
              \/ Gateways!ExportQueued(c, j, s)
  PROVE  Gateways!GatewayInvariant'
<1>0. /\ Gateways!TypeOK /\ Gateways!NoOrphanJob /\ jobs \subseteq Jobs
      /\ call \in [Callers -> Gateways!Call] /\ call[c] \in Gateways!Call
  BY DEF Gateways!GatewayInvariant, Gateways!GatewaysAreSafe, Gateways!TypeOK
<1>1. CASE \/ Gateways!EmitTelemetry(c)
           \/ \E j \in Jobs, s \in Gateways!Levels :
                Gateways!ExportDenied(c, j, s) \/ Gateways!ExportDeferred(c, j, s)
  <2>1. /\ disclosed' = {} /\ audit \subseteq audit'
        /\ UNCHANGED <<token, stored, answered, calls, jobs, call>>
    BY <1>1 DEF Gateways!EmitTelemetry, Gateways!ExportDenied, Gateways!ExportDeferred,
                Gateways!Record, Gateways!core
  <2>2. Gateways!NoOrphanJob'
    BY <1>0, <2>1, GatewayJobsKept
  <2> QED BY <1>0, <2>1, <2>2, GatewayQuiet DEF Gateways!TypeOK
<1>2. ASSUME NEW j \in Jobs, NEW s \in Gateways!Levels, Gateways!ExportQueued(c, j, s)
      PROVE  Gateways!GatewayInvariant'
  <2>1. /\ call[c].pc = "idle" /\ jobs' = jobs \cup {j} /\ disclosed' = {}
        /\ UNCHANGED <<token, stored, answered, calls, audit>>
    BY <1>2 DEF Gateways!ExportQueued, Gateways!At, Gateways!core
  <2>2. CASE j \in jobs
    <3>1. UNCHANGED call /\ jobs' = jobs
      BY <1>2, <2>1, <2>2 DEF Gateways!ExportQueued
    <3>2. Gateways!NoOrphanJob'
      BY <1>0, <2>1, <3>1, GatewayJobsKept
    <3> QED BY <1>0, <2>1, <3>1, <3>2, GatewayQuiet DEF Gateways!TypeOK
  <2>3. CASE j \notin jobs
    <3> DEFINE q == [call[c] EXCEPT !.pc = "audit", !.job = j]
    <3>1. call' = [call EXCEPT ![c] = q]
      BY <1>0, <1>2, <2>3 DEF Gateways!ExportQueued
    <3>2. q \in Gateways!Call /\ q.pc = "audit" /\ q.job = j
      BY <1>0 DEF Gateways!Call
    <3> HIDE DEF q
    <3>3. /\ call' \in [Callers -> Gateways!Call] /\ call'[c] = q
          /\ \A d \in Callers : call[d].pc = "audit" => call'[d] = call[d]
      BY <1>0, <2>1, <3>1, <3>2
    <3>4. Gateways!NoOrphanJob'
      <4> SUFFICES ASSUME NEW i \in jobs'
                   PROVE  \/ \E d \in Callers : Gateways!AuditOf(d, i, "accepted") \in audit'
                          \/ \E d \in Callers : call'[d].pc = "audit" /\ call'[d].job = i
        BY DEF Gateways!NoOrphanJob, Gateways!At, Gateways!AuditOf
      <4>1. CASE i = j
        BY <3>2, <3>3, <4>1
      <4>2. CASE i # j
        <5>1. \/ \E d \in Callers : Gateways!AuditOf(d, i, "accepted") \in audit
              \/ \E d \in Callers : call[d].pc = "audit" /\ call[d].job = i
          BY <1>0, <2>1, <4>2 DEF Gateways!NoOrphanJob, Gateways!At
        <5> QED BY <2>1, <3>3, <5>1
      <4> QED BY <4>1, <4>2
    <3> QED BY <1>0, <2>1, <3>3, <3>4, GatewayQuiet DEF Gateways!TypeOK
  <2> QED BY <2>2, <2>3
<1>3. CASE Gateways!ExportAudit(c)
  <2> DEFINE j == call[c].job
             r == Gateways!AuditOf(c, j, "accepted")
  <2>1. /\ call[c].pc = "audit" /\ call' = [call EXCEPT ![c] = Gateways!Idle]
        /\ disclosed' = {} /\ UNCHANGED <<token, stored, answered, calls>>
        /\ \/ audit' = audit \cup {r} /\ jobs' = jobs
           \/ audit' = audit /\ jobs' = jobs \ {j}
    BY <1>3 DEF Gateways!ExportAudit, Gateways!Return, Gateways!At, Gateways!core,
                Gateways!Record
  <2>2. call' \in [Callers -> Gateways!Call] /\ \A d \in Callers \ {c} : call'[d] = call[d]
    BY <1>0, <2>1, GatewayIdle
  <2>3. Gateways!NoOrphanJob'
    <3> SUFFICES ASSUME NEW i \in jobs'
                 PROVE  \/ \E d \in Callers : Gateways!AuditOf(d, i, "accepted") \in audit'
                        \/ \E d \in Callers : call'[d].pc = "audit" /\ call'[d].job = i
      BY DEF Gateways!NoOrphanJob, Gateways!At, Gateways!AuditOf
    <3>1. CASE i = j
      <4>1. r \in audit'
        BY <2>1, <3>1
      <4> QED BY <3>1, <4>1
    <3>2. CASE i # j
      <4>1. i \in jobs /\ audit \subseteq audit'
        BY <2>1
      <4>2. \/ \E d \in Callers : Gateways!AuditOf(d, i, "accepted") \in audit
            \/ \E d \in Callers : call[d].pc = "audit" /\ call[d].job = i
        BY <1>0, <4>1 DEF Gateways!NoOrphanJob, Gateways!At
      <4> QED BY <2>2, <3>2, <4>1, <4>2
    <3> QED BY <3>1, <3>2
  <2>4. jobs' \subseteq Jobs
    BY <1>0, <2>1
  <2> QED BY <1>0, <2>1, <2>2, <2>3, <2>4, GatewayQuiet DEF Gateways!TypeOK
<1> QED BY <1>1, <1>2, <1>3

\* A key answers one command only, queries and plugins let out what the
\* capability they started with and the egress class allow, and no export job
\* stays queued without its record, however calls of any number of threads
\* interleave with grants and publications (MemoryCommandGateway.execute,
\* QueryGateway, PluginGateway.invoke, ExportRequestGateway.submit).
THEOREM GatewaysStaySafe ==
  ASSUME Gateways!GatewayAssumption
  PROVE  Gateways!Spec => []GatewaysAreSafe
<1>1. Gateways!Init => Gateways!GatewayInvariant
  <2> SUFFICES ASSUME Gateways!Init PROVE Gateways!GatewayInvariant
    OBVIOUS
  <2>1. Gateways!TypeOK
    BY GatewayIdle DEF Gateways!Init, Gateways!TypeOK, Gateways!GatewayAssumption
  <2>2. Gateways!AnswersAreBound /\ Gateways!NoOrphanJob /\ Gateways!AnswersAreStored
    BY DEF Gateways!Init, Gateways!AnswersAreBound, Gateways!NoOrphanJob,
           Gateways!AnswersAreStored
  <2> QED BY <2>1, <2>2 DEF Gateways!GatewayInvariant, Gateways!GatewaysAreSafe
<1>2. Gateways!GatewayInvariant /\ [Gateways!Next]_Gateways!vars => Gateways!GatewayInvariant'
  <2> SUFFICES ASSUME Gateways!GatewayInvariant, [Gateways!Next]_Gateways!vars
               PROVE  Gateways!GatewayInvariant'
    OBVIOUS
  <2>1. CASE Gateways!Regrant \/ Gateways!Publish \/ Gateways!PopJob
    BY <2>1, GatewayWorld
  <2>2. ASSUME NEW k \in CommandKeys, NEW p \in Payloads, NEW g \in 0 .. MaxGen,
               NEW s \in Gateways!Levels, NEW outcome \in {"final", "retry_later", "raised"},
               Gateways!Execute(k, p, g, s, outcome)
        PROVE  Gateways!GatewayInvariant'
    BY <2>2, GatewayExecute
  <2>3. ASSUME NEW c \in Callers,
               \/ \E g \in 1 .. MaxGen : Gateways!QueryStart(c, g)
               \/ \E g \in 1 .. MaxGen, projection \in BOOLEAN :
                    Gateways!QueryRead(c, g, projection)
               \/ Gateways!QueryFilter(c)
        PROVE  Gateways!GatewayInvariant'
    BY <2>3, GatewayQuery
  <2>4. ASSUME NEW c \in Callers,
               \/ \E s \in Gateways!Levels, empty \in BOOLEAN :
                    Gateways!PluginInvoke(c, s, empty)
               \/ Gateways!PluginAnswer(c)
        PROVE  Gateways!GatewayInvariant'
    BY <2>4, GatewayPlugin
  <2>5. ASSUME NEW c \in Callers,
               \/ Gateways!EmitTelemetry(c) \/ Gateways!ExportAudit(c)
               \/ \E j \in Jobs, s \in Gateways!Levels :
                    \/ Gateways!ExportDenied(c, j, s) \/ Gateways!ExportDeferred(c, j, s)
                    \/ Gateways!ExportQueued(c, j, s)
        PROVE  Gateways!GatewayInvariant'
    BY <2>5, GatewayExport
  <2>6. CASE UNCHANGED Gateways!vars
    BY <2>6 DEF Gateways!vars, Gateways!core, Gateways!GatewayInvariant,
       Gateways!GatewaysAreSafe, Gateways!TypeOK, Gateways!AnswersAreBound,
       Gateways!NoOrphanJob, Gateways!AnswersAreStored, Gateways!At, Gateways!AuditOf,
       Gateways!EgressAllows
  <2> QED BY <2>1, <2>2, <2>3, <2>4, <2>5, <2>6 DEF Gateways!Next
<1>3. Gateways!GatewayInvariant => GatewaysAreSafe
  BY DEF Gateways!GatewayInvariant, GatewaysAreSafe
<1> QED BY <1>1, <1>2, <1>3, PTL DEF Gateways!Spec

-----------------------------------------------------------------------------
(* Projections: rebuilds of the projections of a workspace.                *)

\* The rebuild that takes a step keeps what it knows.
RebuildStep(r) ==
  /\ run' = [run EXCEPT ![r] = run'[r]]
  /\ run'[r] \in Proj!Locals
  /\ Proj!Knows(run[r])'

\* Staged and published manifests stay, and the minimum profile does not move.
ManifestsGrow ==
  /\ staged \subseteq staged' /\ published \subseteq published'
  /\ \A n \in Proj!Minimum : pointers'[n] = pointers[n]

\* The minimum projections and the others are names of projections.
LEMMA ProjectionNames ==
  /\ Proj!Minimum \subseteq Proj!Names /\ Optional \subseteq Proj!Names
  /\ "identity" \in Proj!Minimum /\ "chronology" \in Proj!Minimum
BY DEF Proj!Names, Proj!Minimum

\* A rebuild that takes no step still knows what it knew.
LEMMA ManifestsGrowKnows ==
  ASSUME ManifestsGrow, NEW q \in Runs, Proj!Knows(run[q]), run'[q] = run[q]
  PROVE  Proj!Knows(run[q])'
BY DEF ManifestsGrow, Proj!Knows

\* A step of one rebuild that lets the stores grow keeps what everyone knows.
LEMMA RebuildStepKeeps ==
  ASSUME Proj!TypeOK, \A q \in Runs : Proj!Knows(run[q]), NEW r \in Runs, RebuildStep(r),
         ManifestsGrow
  PROVE  run' \in [Runs -> Proj!Locals] /\ (\A q \in Runs : Proj!Knows(run[q]))'
<1>1. run' \in [Runs -> Proj!Locals] /\ \A q \in Runs \ {r} : run'[q] = run[q]
  BY DEF RebuildStep, Proj!TypeOK
<1>2. ASSUME NEW q \in Runs PROVE Proj!Knows(run[q])'
  BY <1>1, ManifestsGrowKnows DEF RebuildStep
<1> QED BY <1>1, <1>2

\* A step that changes nothing but the memory of one rebuild.
LEMMA RebuildLocalStep ==
  ASSUME Proj!ProjectionInvariant, NEW r \in Runs, RebuildStep(r),
         UNCHANGED <<source, staged, pointers, published>>
  PROVE  Proj!ProjectionInvariant'
<1>1. ManifestsGrow
  BY DEF ManifestsGrow
<1>2. run' \in [Runs -> Proj!Locals] /\ (\A q \in Runs : Proj!Knows(run[q]))'
  BY <1>1, RebuildStepKeeps DEF Proj!ProjectionInvariant
<1>3. Proj!TypeOK'
  BY <1>2 DEF Proj!ProjectionInvariant, Proj!TypeOK
<1> QED BY <1>2, <1>3 DEF Proj!ProjectionInvariant, Proj!MinimumProfile, Proj!PointersBound,
                          Proj!OptionalFollowsMinimum

\* The memory of a rebuild that has returned.
LEMMA RebuildIdle ==
  ASSUME NEW s \in Proj!Statuses, NEW b \in BOOLEAN
  PROVE  /\ Proj!Idle(s) \in Proj!Locals
         /\ [Proj!Idle(s) EXCEPT !.beaten = b] \in Proj!Locals
         /\ [Proj!Idle(s) EXCEPT !.beaten = b].pc = "idle"
         /\ [Proj!Idle(s) EXCEPT !.beaten = b].status = s
         /\ [Proj!Idle(s) EXCEPT !.beaten = b].beaten = b
<1>1. "identity" \in Proj!Names /\ Proj!NoManifest \in Proj!Pointer
  BY ProjectionNames DEF Proj!Pointer
<1>2. [n \in Proj!Names |-> Proj!NoManifest] \in [Proj!Names -> Proj!Pointer]
  BY <1>1
<1> QED BY <1>1, <1>2 DEF Proj!Idle, Proj!Locals

\* A rebuild that returns has no more to know than why it failed.
LEMMA ReturnStep ==
  ASSUME Proj!TypeOK, NEW r \in Runs, NEW s \in Proj!Statuses, Proj!Return(r, s),
         s = "conflict" => run[r].beaten
  PROVE  RebuildStep(r)
<1>1. run[r] \in Proj!Locals /\ run[r].beaten \in BOOLEAN
  BY DEF Proj!TypeOK, Proj!Locals
<1>2. run'[r] = [Proj!Idle(s) EXCEPT !.beaten = run[r].beaten]
      /\ run' = [run EXCEPT ![r] = run'[r]]
  BY DEF Proj!Return, Proj!TypeOK
<1>3. /\ run'[r] \in Proj!Locals /\ run'[r].pc = "idle" /\ run'[r].status = s
      /\ run'[r].beaten = run[r].beaten
  BY <1>1, <1>2, RebuildIdle
<1>4. Proj!Knows(run[r])'
  BY <1>3 DEF Proj!Knows
<1> QED BY <1>2, <1>3, <1>4 DEF RebuildStep

\* A rebuild begins, or dies: it knows nothing but its generation.
LEMMA BeginStep ==
  ASSUME Proj!ProjectionInvariant, NEW r \in Runs,
         Proj!Crash(r) \/ \E g \in Generations : Proj!Rebuild(r, g)
  PROVE  Proj!ProjectionInvariant'
<1>0. Proj!TypeOK /\ Proj!Idle("none") \in Proj!Locals
  BY RebuildIdle DEF Proj!ProjectionInvariant, Proj!Statuses
<1>1. CASE Proj!Crash(r)
  <2>1. run'[r] = Proj!Idle("none") /\ run' = [run EXCEPT ![r] = run'[r]]
    BY <1>0, <1>1 DEF Proj!Crash, Proj!TypeOK
  <2>2. Proj!Knows(run[r])'
    BY <2>1 DEF Proj!Knows, Proj!Idle
  <2> QED BY <1>0, <1>1, <2>1, <2>2, RebuildLocalStep DEF RebuildStep, Proj!Crash
<1>2. CASE \E g \in Generations : Proj!Rebuild(r, g)
  <2>1. PICK g \in Generations : Proj!Rebuild(r, g)
    BY <1>2
  <2>2. run'[r] = [Proj!Idle("none") EXCEPT !.pc = "build", !.gen = g]
        /\ run' = [run EXCEPT ![r] = run'[r]]
    BY <1>0, <2>1 DEF Proj!Rebuild, Proj!TypeOK
  <2>3. run'[r] \in Proj!Locals /\ run'[r].pc = "build" /\ run'[r].gen = g
        /\ run'[r].status = "none"
    <3>1. Proj!Idle("none").status = "none"
      BY DEF Proj!Idle
    <3> QED BY <1>0, <2>2, <3>1 DEF Proj!Locals
  <2>4. Proj!Knows(run[r])'
    BY <2>3 DEF Proj!Knows
  <2> QED BY <2>1, <2>2, <2>3, <2>4, RebuildLocalStep DEF RebuildStep, Proj!Rebuild
<1> QED BY <1>1, <1>2

\* A built manifest binds the minimum profile and has records.
LEMMA BuildStep ==
  ASSUME Proj!ProjectionInvariant, NEW r \in Runs, Proj!Build(r)
  PROVE  Proj!ProjectionInvariant'
<1> DEFINE g == run[r].gen
<1>0. Proj!TypeOK /\ run[r] \in Proj!Locals /\ Proj!Knows(run[r]) /\ run[r].pc = "build"
  BY DEF Proj!ProjectionInvariant, Proj!TypeOK, Proj!Build, Proj!At
<1>1. UNCHANGED <<source, staged, pointers, published>>
  BY DEF Proj!Build
<1>2. CASE \/ Proj!Return(r, "source_unavailable") \/ Proj!Return(r, "workspace_mismatch")
           \/ Proj!Return(r, "required_failed")
  <2>1. RebuildStep(r)
    BY <1>0, <1>2, ReturnStep DEF Proj!Statuses
  <2> QED BY <1>1, <2>1, RebuildLocalStep
<1>3. CASE \E built \in SUBSET Proj!Names :
             /\ source[g] # None /\ Proj!Minimum \subseteq built
             /\ run' = [run EXCEPT ![r].pc = "stage",
                          ![r].manifest = [gen |-> g, records |-> source[g],
                                           built |-> built]]
  <2>1. PICK built \in SUBSET Proj!Names :
             /\ source[g] # None /\ Proj!Minimum \subseteq built
             /\ run' = [run EXCEPT ![r].pc = "stage",
                          ![r].manifest = [gen |-> g, records |-> source[g],
                                           built |-> built]]
    BY <1>3
  <2> DEFINE m == [gen |-> g, records |-> source[g], built |-> built]
  <2>2. m \in Proj!Manifest /\ m.built = built
    <3>1. g \in Generations /\ source[g] \in RecordSets
      BY <1>0, <2>1 DEF Proj!Knows, Proj!TypeOK
    <3> QED BY <3>1 DEF Proj!Manifest
  <2> HIDE DEF m
  <2>3. run'[r] = [run[r] EXCEPT !.pc = "stage", !.manifest = m]
        /\ run' = [run EXCEPT ![r] = run'[r]]
    BY <1>0, <2>1 DEF Proj!TypeOK, m
  <2>4. m \in Proj!Pointer
    BY <2>2 DEF Proj!Pointer
  <2>5. /\ run'[r] \in Proj!Locals /\ run'[r].pc = "stage" /\ run'[r].manifest = m
        /\ run'[r].status = run[r].status /\ run'[r].beaten = run[r].beaten
    BY <1>0, <2>3, <2>4 DEF Proj!Locals
  <2>6. Proj!Knows(run[r])'
    BY <1>0, <2>1, <2>2, <2>5 DEF Proj!Knows
  <2> QED BY <1>1, <2>3, <2>5, <2>6, RebuildLocalStep DEF RebuildStep
<1> QED BY <1>2, <1>3 DEF Proj!Build

\* The source puts records for a generation.
LEMMA PutStep ==
  ASSUME Proj!ProjectionInvariant, NEW g \in Generations, NEW records \in RecordSets,
         Proj!Put(g, records)
  PROVE  Proj!ProjectionInvariant'
<1>1. Proj!TypeOK'
  BY DEF Proj!ProjectionInvariant, Proj!TypeOK, Proj!Put
<1> QED BY <1>1
           DEF Proj!ProjectionInvariant, Proj!Put, Proj!MinimumProfile, Proj!PointersBound,
                    Proj!OptionalFollowsMinimum, Proj!Knows

\* Staging stores the manifest before a pointer is read.
LEMMA StageStep ==
  ASSUME Proj!ProjectionInvariant, NEW r \in Runs, Proj!Stage(r)
  PROVE  Proj!ProjectionInvariant'
<1>0. Proj!TypeOK /\ run[r] \in Proj!Locals /\ Proj!Knows(run[r]) /\ run[r].pc = "stage"
  BY DEF Proj!ProjectionInvariant, Proj!TypeOK, Proj!Stage, Proj!At
<1>1. run[r].manifest \in Proj!Manifest /\ Proj!Minimum \subseteq run[r].manifest.built
  BY <1>0 DEF Proj!Knows
<1>2. /\ run'[r] = [run[r] EXCEPT !.pc = "first"] /\ run' = [run EXCEPT ![r] = run'[r]]
      /\ staged' = staged \cup {run[r].manifest}
      /\ UNCHANGED <<source, pointers, published>>
  BY <1>0 DEF Proj!Stage, Proj!TypeOK
<1>3. /\ run'[r] \in Proj!Locals /\ run'[r].pc = "first"
      /\ run'[r].manifest = run[r].manifest
      /\ run'[r].status = run[r].status /\ run'[r].beaten = run[r].beaten
  BY <1>0, <1>2 DEF Proj!Locals
<1>4. Proj!Knows(run[r])'
  BY <1>0, <1>1, <1>2, <1>3 DEF Proj!Knows
<1>5. ManifestsGrow
  BY <1>2 DEF ManifestsGrow
<1>6. run' \in [Runs -> Proj!Locals] /\ (\A q \in Runs : Proj!Knows(run[q]))'
  BY <1>2, <1>3, <1>4, <1>5, RebuildStepKeeps DEF RebuildStep, Proj!ProjectionInvariant
<1>7. Proj!TypeOK'
  BY <1>0, <1>1, <1>2, <1>6 DEF Proj!TypeOK
<1> QED BY <1>2, <1>6, <1>7
           DEF Proj!ProjectionInvariant, Proj!MinimumProfile, Proj!PointersBound,
                                Proj!OptionalFollowsMinimum

\* The first pointer of the minimum profile is read.
LEMMA ReadFirstStep ==
  ASSUME Proj!ProjectionInvariant, NEW r \in Runs, Proj!ReadFirst(r)
  PROVE  Proj!ProjectionInvariant'
<1>0. Proj!TypeOK /\ run[r] \in Proj!Locals /\ Proj!Knows(run[r]) /\ run[r].pc = "first"
  BY DEF Proj!ProjectionInvariant, Proj!TypeOK, Proj!ReadFirst, Proj!At
<1>1. PICK n \in Proj!Minimum : run' = [run EXCEPT ![r].pc = "second", ![r].name = n,
                                     ![r].expected[n] = pointers[n]]
  BY DEF Proj!ReadFirst
<1>2. n \in Proj!Names /\ pointers[n] \in Proj!Pointer
      /\ run[r].expected \in [Proj!Names -> Proj!Pointer]
  BY <1>0, ProjectionNames DEF Proj!TypeOK, Proj!Locals
<1> DEFINE x == [run[r].expected EXCEPT ![n] = pointers[n]]
<1>3. /\ run'[r] = [run[r] EXCEPT !.pc = "second", !.name = n, !.expected = x]
      /\ run' = [run EXCEPT ![r] = run'[r]]
  BY <1>0, <1>1 DEF Proj!TypeOK
<1>4. x \in [Proj!Names -> Proj!Pointer] /\ x[n] = pointers[n]
  BY <1>2
<1> HIDE DEF x
<1>5. /\ run'[r] \in Proj!Locals /\ run'[r].pc = "second"
      /\ run'[r].manifest = run[r].manifest
      /\ run'[r].name = n /\ run'[r].expected = x
      /\ run'[r].status = run[r].status /\ run'[r].beaten = run[r].beaten
  BY <1>0, <1>2, <1>3, <1>4 DEF Proj!Locals
<1>6. UNCHANGED <<source, staged, pointers, published>>
  BY DEF Proj!ReadFirst
<1>7. Proj!Knows(run[r])'
  BY <1>0, <1>4, <1>5, <1>6 DEF Proj!Knows
<1> QED BY <1>3, <1>5, <1>6, <1>7, RebuildLocalStep DEF RebuildStep

\* The second pointer is read; unless it was beaten the rebuild now expects both.
LEMMA ReadSecondStep ==
  ASSUME Proj!ProjectionInvariant, NEW r \in Runs, Proj!ReadSecond(r)
  PROVE  Proj!ProjectionInvariant'
<1>0. Proj!TypeOK /\ run[r] \in Proj!Locals /\ Proj!Knows(run[r]) /\ run[r].pc = "second"
      /\ run[r].name \in Proj!Minimum
  BY DEF Proj!ProjectionInvariant, Proj!TypeOK, Proj!ReadSecond, Proj!At, Proj!Knows
<1>1. PICK n \in Proj!Minimum \ {run[r].name} :
        run' = [run EXCEPT ![r].pc = "publish", ![r].expected[n] = pointers[n]]
  BY DEF Proj!ReadSecond
<1>2. n \in Proj!Names /\ pointers[n] \in Proj!Pointer
      /\ run[r].expected \in [Proj!Names -> Proj!Pointer]
      /\ run[r].name \in Proj!Names /\ Proj!Minimum = {n, run[r].name}
  BY <1>0, ProjectionNames DEF Proj!TypeOK, Proj!Locals, Proj!Minimum
<1> DEFINE x == [run[r].expected EXCEPT ![n] = pointers[n]]
<1>3. /\ run'[r] = [run[r] EXCEPT !.pc = "publish", !.expected = x]
      /\ run' = [run EXCEPT ![r] = run'[r]]
  BY <1>0, <1>1 DEF Proj!TypeOK
<1>4. /\ x \in [Proj!Names -> Proj!Pointer] /\ x[n] = pointers[n]
      /\ x[run[r].name] = run[r].expected[run[r].name]
  BY <1>1, <1>2
<1> HIDE DEF x
<1>5. /\ run'[r] \in Proj!Locals /\ run'[r].pc = "publish"
      /\ run'[r].manifest = run[r].manifest
      /\ run'[r].expected = x
      /\ run'[r].status = run[r].status /\ run'[r].beaten = run[r].beaten
  BY <1>0, <1>3, <1>4 DEF Proj!Locals
<1>6. UNCHANGED <<source, staged, pointers, published>>
  BY DEF Proj!ReadSecond
<1>7. ~run[r].beaten => \A k \in Proj!Minimum : x[k] = pointers[k]
  BY <1>0, <1>2, <1>4 DEF Proj!Knows
<1>8. Proj!Knows(run[r])'
  BY <1>0, <1>5, <1>6, <1>7 DEF Proj!Knows
<1> QED BY <1>3, <1>5, <1>6, <1>8, RebuildLocalStep DEF RebuildStep

\* The minimum profile moves as one, and whoever had read a pointer is beaten; or
\* the rebuild has been beaten itself.
LEMMA PublishRequiredStep ==
  ASSUME Proj!ProjectionsAssumption, Proj!ProjectionInvariant, NEW r \in Runs,
         Proj!PublishRequired(r)
  PROVE  Proj!ProjectionInvariant'
<1> DEFINE m == run[r].manifest
<1>0. Proj!TypeOK /\ run[r] \in Proj!Locals /\ Proj!Knows(run[r]) /\ run[r].pc = "publish"
      /\ \A q \in Runs : Proj!Knows(run[q])
  BY DEF Proj!ProjectionInvariant, Proj!TypeOK, Proj!PublishRequired, Proj!At
<1>1. m \in staged /\ m \in Proj!Manifest /\ Proj!Minimum \subseteq m.built
  BY <1>0 DEF Proj!Knows
<1>2. CASE ~Proj!Expected(r)
  <2>1. Proj!Return(r, "conflict") /\ UNCHANGED <<source, staged, pointers, published>>
    BY <1>2 DEF Proj!PublishRequired
  <2>2. run[r].beaten
    BY <1>0, <1>2 DEF Proj!Knows, Proj!Expected
  <2>3. RebuildStep(r)
    BY <1>0, <2>1, <2>2, ReturnStep DEF Proj!Statuses
  <2> QED BY <2>1, <2>3, RebuildLocalStep
<1>3. CASE Proj!Expected(r)
  <2> DEFINE mine == [run[r] EXCEPT !.pc = "expect", !.todo = Optional \cap m.built]
             theirs(q) == [run[q] EXCEPT !.beaten = @ \/ run[q].pc \in {"second", "publish"}]
  <2>1. /\ pointers' = [n \in Proj!Names |-> IF n \in Proj!Minimum THEN m ELSE pointers[n]]
        /\ published' = published \cup {m} /\ UNCHANGED <<source, staged>>
        /\ run' = [q \in Runs |-> IF q = r THEN mine ELSE theirs(q)]
    BY <1>1, <1>3 DEF Proj!PublishRequired, Proj!IsStaged
  <2>2. /\ \A n \in Proj!Minimum : pointers'[n] = m
        /\ \A n \in Optional : pointers'[n] = pointers[n]
        /\ pointers' \in [Proj!Names -> Proj!Pointer]
    BY <1>0, <1>1, <2>1, ProjectionNames
       DEF Proj!ProjectionsAssumption, Proj!TypeOK, Proj!Pointer
  <2>3. run'[r] = mine
    BY <2>1
  <2>4. /\ run'[r] \in Proj!Locals /\ run'[r].pc = "expect" /\ run'[r].manifest = m
        /\ run'[r].todo \subseteq m.built
        /\ run'[r].status = run[r].status /\ run'[r].beaten = run[r].beaten
    BY <1>0, <2>3 DEF Proj!Locals
  <2>5. Proj!Knows(run[r])'
    BY <1>0, <1>1, <2>1, <2>4 DEF Proj!Knows
  <2>6. ASSUME NEW q \in Runs \ {r} PROVE run'[q] \in Proj!Locals /\ Proj!Knows(run[q])'
    <3>1. run'[q] = theirs(q) /\ run[q] \in Proj!Locals /\ Proj!Knows(run[q])
      BY <1>0, <2>1 DEF Proj!TypeOK
    <3>2. /\ run'[q] \in Proj!Locals /\ run'[q].pc = run[q].pc /\ run'[q].gen = run[q].gen
          /\ run'[q].manifest = run[q].manifest /\ run'[q].expected = run[q].expected
          /\ run'[q].todo = run[q].todo /\ run'[q].name = run[q].name
          /\ run'[q].status = run[q].status
      BY <3>1 DEF Proj!Locals
    <3>3. run'[q].beaten = (run[q].beaten \/ run[q].pc \in {"second", "publish"})
      BY <3>1 DEF Proj!Locals
    <3>4. staged' = staged /\ published \subseteq published'
      BY <2>1
    <3> QED BY <3>1, <3>2, <3>3, <3>4 DEF Proj!Knows
  <2>7. run' \in [Runs -> Proj!Locals] /\ (\A q \in Runs : Proj!Knows(run[q]))'
    BY <2>1, <2>4, <2>5, <2>6
  <2>8. Proj!TypeOK'
    BY <1>0, <1>1, <2>1, <2>2, <2>7 DEF Proj!TypeOK
  <2>9. Proj!MinimumProfile'
    BY <2>2, ProjectionNames DEF Proj!MinimumProfile
  <2>10. Proj!PointersBound'
    BY <1>1, <2>1, <2>2 DEF Proj!ProjectionInvariant, Proj!PointersBound, Proj!Names
  <2>11. Proj!OptionalFollowsMinimum'
    BY <2>1, <2>2 DEF Proj!ProjectionInvariant, Proj!OptionalFollowsMinimum
  <2> QED BY <2>7, <2>8, <2>9, <2>10, <2>11 DEF Proj!ProjectionInvariant
<1> QED BY <1>2, <1>3

\* The loop over the optional projections.
LEMMA ExpectOptionalStep ==
  ASSUME Proj!ProjectionInvariant, NEW r \in Runs, Proj!ExpectOptional(r)
  PROVE  Proj!ProjectionInvariant'
<1>0. Proj!TypeOK /\ run[r] \in Proj!Locals /\ Proj!Knows(run[r]) /\ run[r].pc = "expect"
  BY DEF Proj!ProjectionInvariant, Proj!TypeOK, Proj!ExpectOptional, Proj!At
<1>1. UNCHANGED <<source, staged, pointers, published>>
  BY DEF Proj!ExpectOptional
<1>2. CASE Proj!Return(r, "ok")
  BY <1>0, <1>1, <1>2, ReturnStep, RebuildLocalStep DEF Proj!Statuses
<1>3. CASE \E n \in run[r].todo :
            run' = [run EXCEPT ![r].pc = "optional", ![r].name = n,
                      ![r].todo = @ \ {n}, ![r].expected[n] = pointers[n]]
  <2>1. PICK n \in run[r].todo :
            run' = [run EXCEPT ![r].pc = "optional", ![r].name = n,
                      ![r].todo = @ \ {n}, ![r].expected[n] = pointers[n]]
    BY <1>3
  <2> DEFINE x == [run[r].expected EXCEPT ![n] = pointers[n]]
             t == run[r].todo \ {n}
  <2>2. /\ n \in Optional /\ n \in Proj!Names /\ pointers[n] \in Proj!Pointer
        /\ run[r].expected \in [Proj!Names -> Proj!Pointer] /\ t \subseteq Optional
        /\ run[r].todo \subseteq run[r].manifest.built
    BY <1>0, <2>1, ProjectionNames DEF Proj!TypeOK, Proj!Locals, Proj!Knows
  <2>3. /\ run'[r] = [run[r] EXCEPT !.pc = "optional", !.name = n, !.todo = t,
                                    !.expected = x]
        /\ run' = [run EXCEPT ![r] = run'[r]]
    <3>1. run \in [Runs -> Proj!Locals] /\ r \in Runs
      BY <1>0 DEF Proj!TypeOK
    <3>2. run' = [run EXCEPT ![r] = [run[r] EXCEPT !.pc = "optional", !.name = n,
                                                   !.todo = t, !.expected = x]]
      BY <2>1, <3>1
    <3> QED BY <3>1, <3>2
  <2>4. x \in [Proj!Names -> Proj!Pointer] /\ t \subseteq run[r].manifest.built
    BY <2>2
  <2> HIDE DEF x, t
  <2>5. /\ run'[r] \in Proj!Locals /\ run'[r].pc = "optional" /\ run'[r].name = n
        /\ run'[r].manifest = run[r].manifest /\ run'[r].todo = t
        /\ run'[r].status = run[r].status /\ run'[r].beaten = run[r].beaten
    BY <1>0, <2>2, <2>3, <2>4 DEF Proj!Locals
  <2>6. Proj!Knows(run[r])'
    <3>1. n \in run[r].manifest.built
      BY <2>2
    <3>2. /\ run[r].manifest \in Proj!Manifest
          /\ Proj!Minimum \subseteq run[r].manifest.built
          /\ run[r].manifest \in staged' /\ run[r].manifest \in published'
          /\ run[r].status = "conflict" => run[r].beaten
      BY <1>0, <1>1 DEF Proj!Knows
    <3> QED BY <2>2, <2>4, <2>5, <3>1, <3>2 DEF Proj!Knows
  <2> QED BY <1>1, <2>3, <2>5, <2>6, RebuildLocalStep DEF RebuildStep
<1> QED BY <1>2, <1>3 DEF Proj!ExpectOptional

\* An optional pointer moves to a manifest that was published, or stays.
LEMMA PublishOptionalStep ==
  ASSUME Proj!ProjectionsAssumption, Proj!ProjectionInvariant, NEW r \in Runs,
         Proj!PublishOptional(r)
  PROVE  Proj!ProjectionInvariant'
<1> DEFINE m == run[r].manifest
           n == run[r].name
<1>0. Proj!TypeOK /\ run[r] \in Proj!Locals /\ Proj!Knows(run[r]) /\ run[r].pc = "optional"
  BY DEF Proj!ProjectionInvariant, Proj!TypeOK, Proj!PublishOptional, Proj!At
<1>1. /\ m \in Proj!Manifest /\ m \in staged /\ m \in published /\ n \in Optional
      /\ n \in m.built
      /\ n \in Proj!Names /\ n \notin Proj!Minimum /\ m \in Proj!Pointer
  BY <1>0, ProjectionNames DEF Proj!Knows, Proj!ProjectionsAssumption, Proj!Pointer
<1>2. /\ run'[r] = [run[r] EXCEPT !.pc = "expect"] /\ run' = [run EXCEPT ![r] = run'[r]]
      /\ UNCHANGED <<source, staged, published>>
      /\ pointers' = [pointers EXCEPT ![n] = m] \/ pointers' = pointers
  BY <1>0 DEF Proj!PublishOptional, Proj!TypeOK
<1>3. /\ run'[r] \in Proj!Locals /\ run'[r].pc = "expect" /\ run'[r].manifest = m
      /\ run'[r].todo = run[r].todo
      /\ run'[r].status = run[r].status /\ run'[r].beaten = run[r].beaten
  BY <1>0, <1>2 DEF Proj!Locals
<1> HIDE DEF m, n
<1>4. /\ pointers' \in [Proj!Names -> Proj!Pointer]
      /\ \A k \in Proj!Names \ {n} : pointers'[k] = pointers[k]
      /\ pointers'[n] = m \/ pointers'[n] = pointers[n]
  BY <1>0, <1>1, <1>2 DEF Proj!TypeOK
<1>5. Proj!Knows(run[r])'
  BY <1>0, <1>1, <1>2, <1>3 DEF Proj!Knows, m
<1>6. ManifestsGrow
  BY <1>1, <1>2, <1>4, ProjectionNames DEF ManifestsGrow
<1>7. run' \in [Runs -> Proj!Locals] /\ (\A q \in Runs : Proj!Knows(run[q]))'
  BY <1>0, <1>2, <1>3, <1>5, <1>6, RebuildStepKeeps DEF RebuildStep, Proj!ProjectionInvariant
<1>8. Proj!TypeOK'
  BY <1>0, <1>2, <1>4, <1>7 DEF Proj!TypeOK
<1>9. Proj!MinimumProfile'
  BY <1>1, <1>4, ProjectionNames DEF Proj!ProjectionInvariant, Proj!MinimumProfile
<1>10. Proj!PointersBound' /\ Proj!OptionalFollowsMinimum'
  BY <1>1, <1>2, <1>4, ProjectionNames
     DEF Proj!ProjectionInvariant, Proj!PointersBound, Proj!OptionalFollowsMinimum
<1> QED BY <1>7, <1>8, <1>9, <1>10 DEF Proj!ProjectionInvariant

\* The invariant holds initially.
LEMMA ProjectionInit == Proj!Init => Proj!ProjectionInvariant
<1> SUFFICES ASSUME Proj!Init PROVE Proj!ProjectionInvariant
  OBVIOUS
<1>1. Proj!Idle("none") \in Proj!Locals /\ Proj!NoManifest \in Proj!Pointer
  BY RebuildIdle DEF Proj!Statuses, Proj!Pointer
<1>2. Proj!TypeOK
  BY <1>1 DEF Proj!Init, Proj!TypeOK
<1>3. \A n \in Proj!Names : pointers[n] = Proj!NoManifest
  BY DEF Proj!Init
<1>4. \A r \in Runs : run[r].pc = "idle" /\ run[r].status = "none"
  BY DEF Proj!Init, Proj!Idle
<1>5. \A r \in Runs : Proj!Knows(run[r])
  BY <1>4 DEF Proj!Knows
<1> QED BY <1>2, <1>3, <1>5, ProjectionNames DEF Proj!ProjectionInvariant, Proj!MinimumProfile,
           Proj!PointersBound, Proj!OptionalFollowsMinimum

\* Every step keeps the invariant.
LEMMA ProjectionNext ==
  ASSUME Proj!ProjectionsAssumption
  PROVE  Proj!ProjectionInvariant /\ [Proj!Next]_Proj!vars => Proj!ProjectionInvariant'
<1> SUFFICES ASSUME Proj!ProjectionInvariant, [Proj!Next]_Proj!vars
             PROVE  Proj!ProjectionInvariant'
  OBVIOUS
<1>1. CASE \E g \in Generations, records \in RecordSets : Proj!Put(g, records)
  BY <1>1, PutStep
<1>2. CASE \E r \in Runs, g \in Generations : Proj!Rebuild(r, g)
  BY <1>2, BeginStep
<1>3. ASSUME NEW r \in Runs,
             \/ Proj!Build(r) \/ Proj!Stage(r) \/ Proj!ReadFirst(r) \/ Proj!ReadSecond(r)
             \/ Proj!PublishRequired(r) \/ Proj!ExpectOptional(r)
             \/ Proj!PublishOptional(r) \/ Proj!Crash(r)
      PROVE  Proj!ProjectionInvariant'
  BY <1>3, BuildStep, StageStep, ReadFirstStep, ReadSecondStep, PublishRequiredStep,
     ExpectOptionalStep, PublishOptionalStep, BeginStep
<1>4. CASE UNCHANGED Proj!vars
  BY <1>4
     DEF Proj!vars, Proj!ProjectionInvariant, Proj!TypeOK, Proj!MinimumProfile,
         Proj!PointersBound,
              Proj!OptionalFollowsMinimum, Proj!Knows
<1> QED BY <1>1, <1>2, <1>3, <1>4 DEF Proj!Next

\* Whatever rebuilds overlap, fail or die, no reader sees a half-published
\* minimum profile or a pointer that is not bound, an optional projection
\* follows the minimum profile, and a conflict has a winner
\* (ProjectionCoordinator.rebuild and its pointer store).
THEOREM ReadersSeeServablePointers ==
  ASSUME Proj!ProjectionsAssumption PROVE Proj!Spec => []PointersAreServable
<1>1. Proj!ProjectionInvariant => PointersAreServable
  BY DEF Proj!ProjectionInvariant, Proj!PointersAreServable, Proj!ConflictHasWinner,
         Proj!Knows, PointersAreServable
<1>2. Proj!ProjectionInvariant /\ [Proj!Next]_Proj!vars => Proj!ProjectionInvariant'
  BY ProjectionNext
<1> QED BY <1>1, <1>2, ProjectionInit, PTL DEF Proj!Spec

-----------------------------------------------------------------------------
(* PublisherLease.                                                         *)

USE LeaseAssumption

\* Every step of acquire_lease, release_lease and the clock keeps the types.
LEMMA LeaseTypeStep == TypeOK /\ [Next]_vars => TypeOK'
<1> SUFFICES ASSUME TypeOK, [Next]_vars PROVE TypeOK'
  OBVIOUS
<1>1. ASSUME NEW h \in Holders, ReadClock(h) PROVE TypeOK'
  BY <1>1 DEF TypeOK, ReadClock
<1>2. ASSUME NEW h \in Holders, AcquireLease(h) PROVE TypeOK'
  <2>1. NewToken(h, publisher[h].now) \in 0 .. MaxToken
    BY <1>2 DEF TypeOK, AcquireLease, NewToken
  <2>2. publisher[h].now + TTL \in 0 .. MaxClock + TTL
    BY DEF TypeOK
  <2> QED BY <1>2, <2>1, <2>2 DEF TypeOK, AcquireLease
<1>3. ASSUME NEW h \in Holders, RefuseLease(h) PROVE TypeOK'
  BY <1>3 DEF TypeOK, RefuseLease, Idle
<1>4. ASSUME NEW h \in Holders, ReleaseLease(h) PROVE TypeOK'
  <2>1. 0 \in 0 .. MaxClock + TTL
    OBVIOUS
  <2>2. lease' \in [holder : Holders \cup {NoHolder}, expires : 0 .. MaxClock + TTL,
                    token : 0 .. MaxToken]
    BY <1>4, <2>1 DEF TypeOK, ReleaseLease
  <2> QED BY <1>4, <2>2 DEF TypeOK, ReleaseLease, Idle
<1>5. ASSUME NEW h \in Holders, Crash(h) PROVE TypeOK'
  BY <1>5 DEF TypeOK, Crash, Idle
<1>6. CASE Tick
  BY <1>6 DEF TypeOK, Tick
<1>7. CASE UNCHANGED vars
  BY <1>7 DEF TypeOK, vars
<1> QED
  BY <1>1, <1>2, <1>3, <1>4, <1>5, <1>6, <1>7 DEF Next, Acquire

\* The lease row and every publisher's memory keep their types.
THEOREM LeaseTypeCorrect == Spec => []TypeOK
<1>1. Init => TypeOK
  BY DEF Init, TypeOK, Idle
<1> QED
  BY <1>1, LeaseTypeStep, PTL DEF Spec

\* A step of any publisher keeps tokens issued, distinct, and the newest one
\* with the holder of the row.
LEMMA LeaseInvariantStep == LeaseInvariant /\ [Next]_vars => LeaseInvariant'
<1> SUFFICES ASSUME LeaseInvariant, [Next]_vars PROVE LeaseInvariant'
  OBVIOUS
<1> USE DEF LeaseInvariant
<1>0. TypeOK'
  BY LeaseTypeStep
<1>1. ASSUME NEW h \in Holders, ReadClock(h) PROVE LeaseInvariant'
  BY <1>0, <1>1 DEF TypeOK, ReadClock, TokensIssued, NewestTokenHolds, TokensDistinct
<1>2. ASSUME NEW h \in Holders, AcquireLease(h) PROVE LeaseInvariant'
  <2> DEFINE now == publisher[h].now
             t   == NewToken(h, now)
  <2>1. /\ lease'.holder = h /\ lease'.token = t
        /\ publisher'[h].token = t
        /\ \A k \in Holders \ {h} : publisher'[k] = publisher[k]
    BY <1>2 DEF AcquireLease, TypeOK
  <2>2. t \in {lease.token, lease.token + 1}
    BY DEF NewToken
  <2>3. t = lease.token => lease.holder = h
    BY DEF NewToken, TypeOK
  <2>4. \A k \in Holders \ {h} :
          publisher[k].pc = "publishing" => publisher[k].token < t
    BY <2>2, <2>3 DEF TypeOK, TokensIssued, NewestTokenHolds
  <2>5. TokensIssued'
    BY <1>0, <2>1, <2>4, <2>2 DEF TypeOK, TokensIssued
  <2>6. NewestTokenHolds'
    BY <1>0, <2>1, <2>4, <2>2 DEF TypeOK, NewestTokenHolds
  <2>7. TokensDistinct'
    BY <2>1, <2>4, <2>2 DEF TypeOK, TokensDistinct
  <2> QED BY <1>0, <2>5, <2>6, <2>7
<1>3. ASSUME NEW h \in Holders, RefuseLease(h) PROVE LeaseInvariant'
  BY <1>0, <1>3 DEF TypeOK, RefuseLease, Idle, TokensIssued, NewestTokenHolds, TokensDistinct
<1>4. ASSUME NEW h \in Holders, ReleaseLease(h) PROVE LeaseInvariant'
  <2>1. /\ lease'.token = lease.token
        /\ lease'.holder = IF lease.holder = h THEN NoHolder ELSE lease.holder
        /\ publisher'[h].pc = "idle"
        /\ \A k \in Holders \ {h} : publisher'[k] = publisher[k]
    BY <1>4 DEF ReleaseLease, Idle, TypeOK
  <2> QED BY <1>0, <2>1 DEF TypeOK, TokensIssued, NewestTokenHolds, TokensDistinct
<1>5. ASSUME NEW h \in Holders, Crash(h) PROVE LeaseInvariant'
  BY <1>0, <1>5 DEF TypeOK, Crash, Idle, TokensIssued, NewestTokenHolds, TokensDistinct
<1>6. CASE Tick
  BY <1>0, <1>6 DEF Tick, TokensIssued, NewestTokenHolds, TokensDistinct
<1>7. CASE UNCHANGED vars
  BY <1>0, <1>7 DEF vars, TokensIssued, NewestTokenHolds, TokensDistinct
<1> QED
  BY <1>1, <1>2, <1>3, <1>4, <1>5, <1>6, <1>7 DEF Next, Acquire

\* Publishers that overlap, because one of them outlived its lease, always
\* carry different fencing tokens.
THEOREM OverlappingTokensDistinct == Spec => []TokensDistinct
<1>1. Init => LeaseInvariant
  BY DEF Init, Idle, LeaseInvariant, TypeOK, TokensIssued, NewestTokenHolds, TokensDistinct
<1>2. LeaseInvariant => TokensDistinct
  BY DEF LeaseInvariant
<1> QED
  BY <1>1, <1>2, LeaseInvariantStep, PTL DEF Spec

\* What a publisher knows of the clock: the value it acquires with was read
\* before, so it never takes a lease that is live now for an expired one.
LEMMA ClockReadStep ==
  TypeOK /\ ClockIsRead /\ [Next]_vars => ClockIsRead'
<1> SUFFICES ASSUME TypeOK, ClockIsRead, [Next]_vars PROVE ClockIsRead'
  OBVIOUS
<1>1. ASSUME NEW h \in Holders, ReadClock(h) \/ Acquire(h) \/ ReleaseLease(h) \/ Crash(h)
      PROVE  ClockIsRead'
  BY <1>1 DEF TypeOK, ClockIsRead, ReadClock, Acquire, AcquireLease, RefuseLease,
              ReleaseLease, Crash, Idle
<1>2. CASE Tick
  BY <1>2 DEF TypeOK, ClockIsRead, Tick
<1>3. CASE UNCHANGED vars
  BY <1>3 DEF ClockIsRead, vars
<1> QED
  BY <1>1, <1>2, <1>3 DEF Next

\* A step that takes a live lease away from its holder is the holder's own
\* release: an acquisition finds it held by another, and the finally clause of
\* another publisher leaves the row alone.
LEMMA LiveLeaseStep ==
  ASSUME TypeOK, ClockIsRead, [Next]_vars, NEW h \in Holders,
         lease.holder = h, clock < lease.expires, lease'.holder # h
  PROVE  publisher[h].pc = "publishing" /\ publisher'[h].pc = "idle"
<1> USE LeaseAssumption
<1>1. ASSUME NEW k \in Holders, AcquireLease(k) PROVE FALSE
  <2>1. publisher[k].now <= clock /\ publisher[k].now \in Nat /\ clock \in Nat
        /\ lease.expires \in Nat
    BY <1>1 DEF AcquireLease, ClockIsRead, TypeOK
  <2>2. k # h
    BY <1>1 DEF AcquireLease
  <2>3. HeldByOther(k, publisher[k].now)
    BY <2>1, <2>2 DEF HeldByOther, Expired
  <2> QED BY <1>1, <2>3 DEF AcquireLease
<1>2. ASSUME NEW k \in Holders, ReleaseLease(k)
      PROVE  publisher[h].pc = "publishing" /\ publisher'[h].pc = "idle"
  <2>1. k = h
    BY <1>2 DEF ReleaseLease
  <2> QED BY <1>2, <2>1 DEF ReleaseLease, Idle, TypeOK
<1>3. ASSUME NEW k \in Holders, ReadClock(k) \/ RefuseLease(k) \/ Crash(k) PROVE FALSE
  BY <1>3 DEF ReadClock, RefuseLease, Crash
<1>4. CASE Tick
  BY <1>4 DEF Tick
<1>5. CASE UNCHANGED vars
  BY <1>5 DEF vars
<1> QED
  BY <1>1, <1>2, <1>3, <1>4, <1>5 DEF Next, Acquire

\* A live lease changes hands only when its holder releases it, for any
\* holders, TTL and clock: neither an acquisition with a stale clock value nor
\* the finally clause of a publisher that outlived its lease takes it away.
THEOREM LiveLeaseKept == Spec => LiveLeaseIsStable
<1>1. Init => TypeOK /\ ClockIsRead
  BY DEF Init, Idle, TypeOK, ClockIsRead
<1>2. TypeOK /\ ClockIsRead /\ [Next]_vars =>
        [\A h \in Holders :
           lease.holder = h /\ clock < lease.expires /\ lease'.holder # h =>
             publisher[h].pc = "publishing" /\ publisher'[h].pc = "idle"]_vars
  BY LiveLeaseStep
<1> QED
  BY <1>1, <1>2, LeaseTypeStep, ClockReadStep, PTL DEF Spec, LiveLeaseIsStable

-----------------------------------------------------------------------------
(* Registries: schemas and signing keys.                                   *)

(* A nonempty set of numbers has a least one. *)
LEMMA LeastNumber ==
  ASSUME NEW T, T \subseteq Nat, T # {}
  PROVE  \E x \in T : \A y \in T : x <= y
<1> DEFINE Less == {ss \in Nat \X Nat : ss[1] < ss[2]}
<1>1. IsWellFoundedOn(Less, Nat)
  <2>1. OpToRel(<, Nat) = Less
    BY Zenon DEF OpToRel
  <2> QED BY <2>1, NatLessThanWellFounded, Zenon
<1>2. PICK x \in T : \A y \in T : ~(<<y, x>> \in Less)
  <2> HIDE DEF Less
  <2> QED BY <1>1, WFMin
<1>3. ASSUME NEW y \in T PROVE x <= y
  <2>1. ~(y < x) BY <1>2 DEF Less
  <2> QED BY <2>1
<1> QED BY <1>3

(* One round of read_latest: where u arrives with n migrations left, when    *)
(* f says it for one less.                                                   *)
Round(f, n) ==
  [u \in Regs!Versions |->
     IF u = writeVer THEN u
     ELSE IF n = 0 \/ u \notin DOMAIN migrations THEN 0
     ELSE IF migrations[u] > writeVer THEN 0
     ELSE f[n - 1][migrations[u]]]

Rounds(f, k) == f = [n \in 0 .. k |-> Round(f, n)]

(* A round looks at the round before it only. *)
LEMMA RoundLooksBack ==
  ASSUME NEW f, NEW g, NEW n \in Nat, n # 0 => f[n - 1] = g[n - 1]
  PROVE  Round(f, n) = Round(g, n)
BY DEF Round

(* Rounds can be made up to any number of migrations. *)
LEMMA RoundsExist ==
  ASSUME NEW k \in Nat PROVE \E f : Rounds(f, k)
<1> DEFINE T == {m \in Nat : ~(\E f : Rounds(f, m))}
<1>1. SUFFICES ASSUME T # {} PROVE FALSE
  OBVIOUS
<1>2. PICK m \in T : \A y \in T : m <= y
  BY <1>1, LeastNumber
<1>3. m \in Nat /\ ~(\E f : Rounds(f, m)) OBVIOUS
<1>4. CASE m = 0
  <2> DEFINE g == [n \in 0 .. 0 |-> Round(<<>>, n)]
  <2>1. \A n \in 0 .. 0 : Round(g, n) = Round(<<>>, n)
    BY RoundLooksBack
  <2>2. g = [n \in 0 .. 0 |-> Round(g, n)] BY <2>1
  <2>3. Rounds(g, 0) BY <2>2 DEF Rounds
  <2> QED BY <2>3, <1>3, <1>4
<1>5. CASE m # 0
  <2>1. m - 1 \in Nat /\ ~(m <= m - 1) BY <1>3, <1>5
  <2>2. PICK f : Rounds(f, m - 1) BY <2>1, <1>2
  <2> DEFINE g == [n \in 0 .. m |-> IF n = m THEN Round(f, m) ELSE f[n]]
  <2>3. ASSUME NEW n \in 0 .. m PROVE g[n] = Round(g, n)
    <3>0. n \in Nat /\ (n # 0 => n - 1 \in 0 .. m - 1 /\ n - 1 \in 0 .. m /\ n - 1 # m)
      BY <1>3
    <3>1. n # 0 => g[n - 1] = f[n - 1] BY <3>0
    <3> HIDE DEF g
    <3>2. Round(g, n) = Round(f, n) BY <3>0, <3>1, RoundLooksBack
    <3>3. g[n] = IF n = m THEN Round(f, m) ELSE f[n] BY DEF g
    <3>4. CASE n = m BY <3>4, <3>2, <3>3
    <3>5. CASE n # m
      <4>1. n \in 0 .. m - 1 BY <3>5, <1>3
      <4>2. f[n] = Round(f, n) BY <4>1, <2>2 DEF Rounds
      <4> QED BY <4>2, <3>2, <3>3, <3>5
    <3> QED BY <3>4, <3>5
  <2>4. g = [n \in 0 .. m |-> g[n]] OBVIOUS
  <2> HIDE DEF g
  <2>5. g = [n \in 0 .. m |-> Round(g, n)] BY <2>3, <2>4
  <2>6. Rounds(g, m) BY <2>5 DEF Rounds
  <2> QED BY <2>6, <1>3
<1> QED BY <1>4, <1>5

(* The loop is made of rounds. *)
LEMMA WalkByRounds ==
  ASSUME Regs!RegistryAssumption PROVE Rounds(Regs!Walk, MaxVersion)
<1> DEFINE D(g) == Rounds(g, MaxVersion)
<1>1. Regs!Walk = CHOOSE g : D(g)
  BY Zenon DEF Regs!Walk, Rounds, Round
<1>2. \E g : D(g)
  BY RoundsExist DEF Regs!RegistryAssumption
<1> HIDE DEF D
<1>3. D(CHOOSE g : D(g))
  BY <1>2, Zenon
<1> QED BY <1>1, <1>3 DEF D

(* The loop ends at the write version, or raises. *)
LEMMA WalkArrives ==
  ASSUME Regs!RegistryAssumption, Regs!SchemasGrow, NEW n \in 0 .. MaxVersion,
         NEW u \in Regs!Versions
  PROVE  Regs!Walk[n][u] \in {0, writeVer}
<1> DEFINE T == {m \in 0 .. MaxVersion : \E v \in Regs!Versions : Regs!Walk[m][v] \notin {0, writeVer}}
<1>1. SUFFICES ASSUME T # {} PROVE FALSE
  OBVIOUS
<1>2. PICK m \in T : \A y \in T : m <= y
  <2>1. T \subseteq Nat BY DEF Regs!RegistryAssumption
  <2> HIDE DEF T
  <2> QED BY <1>1, <2>1, LeastNumber
<1>3. PICK v \in Regs!Versions : Regs!Walk[m][v] \notin {0, writeVer} OBVIOUS
<1>4. Regs!Walk[m] = Round(Regs!Walk, m) BY WalkByRounds DEF Rounds
<1>5. Round(Regs!Walk, m)[v] \notin {0, writeVer} BY <1>3, <1>4
<1>6. /\ m # 0 /\ v \in DOMAIN migrations
      /\ Regs!Walk[m - 1][migrations[v]] \notin {0, writeVer}
  BY <1>5 DEF Round
<1>7. migrations[v] \in Regs!Versions BY <1>6 DEF Regs!SchemasGrow
<1>8. m - 1 \in 0 .. MaxVersion /\ ~(m <= m - 1) BY <1>6 DEF Regs!RegistryAssumption
<1> QED BY <1>2, <1>6, <1>7, <1>8

LEMMA ReadableByParts ==
  ASSUME Regs!RegistryAssumption, Regs!RegistryInvariant PROVE Regs!HistoryStaysReadable
<1>1. ASSUME NEW v \in DOMAIN schemas PROVE Regs!ReadLatest(v) \in {0, writeVer}
  <2>1. v \in Regs!Versions /\ MaxVersion \in 0 .. MaxVersion
    BY DEF Regs!RegistryInvariant, Regs!SchemasGrow, Regs!RegistryAssumption
  <2> QED BY <2>1, WalkArrives DEF Regs!ReadLatest, Regs!RegistryInvariant
<1> QED
  BY <1>1
     DEF Regs!HistoryStaysReadable, Regs!RegistryInvariant, Regs!SchemasGrow,
         Regs!KindsStayRetired,
              Regs!KeysStayOnRecord

LEMMA SchemaStep ==
  ASSUME Regs!RegistryAssumption, Regs!SchemasGrow, NEW v \in Regs!Versions,
         \/ \E writable \in BOOLEAN : Regs!RegisterSchema(v, writable)
         \/ Regs!SetWriteVersion(v)
         \/ \E w \in Regs!Versions : Regs!RegisterMigration(v, w)
  PROVE  Regs!SchemasGrow'
BY DEF Regs!RegistryAssumption, Regs!SchemasGrow, Regs!Versions, Regs!RegisterSchema,
       Regs!SetWriteVersion,
       Regs!RegisterMigration, Regs!MayWrite, Regs!With

(* A kind keeps its definition, and a retired one is not made creatable. *)
LEMMA KindStep ==
  ASSUME Regs!KindsStayRetired, NEW k \in Kinds,
         \/ \E v \in Regs!Versions, creatable \in BOOLEAN :
              Regs!RegisterKind(k, v, creatable)
         \/ Regs!RetireKind(k)
  PROVE  Regs!KindsStayRetired'
<1>1. ASSUME NEW v \in Regs!Versions, NEW creatable \in BOOLEAN,
             Regs!RegisterKind(k, v, creatable)
      PROVE  Regs!KindsStayRetired'
  BY <1>1 DEF Regs!KindsStayRetired, Regs!RegisterKind, Regs!With
<1>2. CASE Regs!RetireKind(k) BY <1>2 DEF Regs!KindsStayRetired, Regs!RetireKind
<1> QED BY <1>1, <1>2

(* A record of a key never changes, so what verified still does. *)
LEMMA KeyStep ==
  ASSUME Regs!KeysStayOnRecord,
         \/ \E k \in KeyIds, r \in Regs!KeyRecords : Regs!RegisterKey(k, r)
         \/ \E k \in KeyIds, at \in 0 .. MaxKeyTime : Regs!ActivateKey(k, at)
         \/ Regs!Sign
  PROVE  Regs!KeysStayOnRecord'
<1>1. ASSUME NEW k \in KeyIds, NEW r \in Regs!KeyRecords, Regs!RegisterKey(k, r)
      PROVE  Regs!KeysStayOnRecord'
  <2>1. \A x \in DOMAIN keys : x \in DOMAIN keys' /\ keys'[x] = keys[x]
    BY <1>1 DEF Regs!RegisterKey, Regs!With
  <2>2. activeKey' = activeKey /\ signatures' = signatures BY <1>1 DEF Regs!RegisterKey
  <2> QED BY <2>1, <2>2 DEF Regs!KeysStayOnRecord, Regs!VerifySignature, Regs!UsageAllowed
<1>2. ASSUME NEW k \in KeyIds, NEW at \in 0 .. MaxKeyTime, Regs!ActivateKey(k, at)
      PROVE  Regs!KeysStayOnRecord'
  BY <1>2
     DEF Regs!ActivateKey, Regs!KeysStayOnRecord, Regs!VerifySignature, Regs!UsageAllowed
<1>3. CASE Regs!Sign
  BY <1>3 DEF Regs!Sign, Regs!KeysStayOnRecord, Regs!VerifySignature, Regs!UsageAllowed
<1> QED BY <1>1, <1>2, <1>3

(* Whatever leaves its variables alone keeps a part. *)
LEMMA RegistryPartsAlone ==
  ASSUME Regs!RegistryInvariant
  PROVE  /\ UNCHANGED Regs!schemaVars => Regs!SchemasGrow'
         /\ UNCHANGED <<kinds, retired>> => Regs!KindsStayRetired'
         /\ UNCHANGED Regs!keyVars => Regs!KeysStayOnRecord'
<1>1. UNCHANGED Regs!schemaVars => Regs!SchemasGrow'
  BY DEF Regs!RegistryInvariant, Regs!SchemasGrow, Regs!schemaVars
<1>2. UNCHANGED <<kinds, retired>> => Regs!KindsStayRetired'
  BY DEF Regs!RegistryInvariant, Regs!KindsStayRetired
<1>3. UNCHANGED Regs!keyVars => Regs!KeysStayOnRecord'
  BY DEF Regs!RegistryInvariant, Regs!KeysStayOnRecord, Regs!VerifySignature,
         Regs!UsageAllowed, Regs!keyVars
<1> QED BY <1>1, <1>2, <1>3

LEMMA RegistryStep ==
  ASSUME Regs!RegistryAssumption, Regs!RegistryInvariant, Regs!Next
  PROVE  Regs!RegistryInvariant'
<1> USE DEF Regs!RegistryInvariant
<1>1. ASSUME NEW v \in Regs!Versions,
             \/ \E writable \in BOOLEAN : Regs!RegisterSchema(v, writable)
             \/ Regs!SetWriteVersion(v)
             \/ \E w \in Regs!Versions : Regs!RegisterMigration(v, w)
      PROVE  Regs!RegistryInvariant'
  <2>1. UNCHANGED <<kinds, retired>> /\ UNCHANGED Regs!keyVars
    BY <1>1 DEF Regs!RegisterSchema, Regs!SetWriteVersion, Regs!RegisterMigration
  <2>2. Regs!SchemasGrow' BY <1>1, SchemaStep
  <2> QED BY <2>1, <2>2, RegistryPartsAlone
<1>2. ASSUME NEW k \in Kinds,
             \/ \E v \in Regs!Versions, creatable \in BOOLEAN :
                  Regs!RegisterKind(k, v, creatable)
             \/ Regs!RetireKind(k)
      PROVE  Regs!RegistryInvariant'
  <2>1. UNCHANGED Regs!schemaVars /\ UNCHANGED Regs!keyVars
    BY <1>2 DEF Regs!RegisterKind, Regs!RetireKind
  <2>2. Regs!KindsStayRetired' BY <1>2, KindStep
  <2> QED BY <2>1, <2>2, RegistryPartsAlone
<1>3. ASSUME \/ \E k \in KeyIds, r \in Regs!KeyRecords : Regs!RegisterKey(k, r)
             \/ \E k \in KeyIds, at \in 0 .. MaxKeyTime : Regs!ActivateKey(k, at)
             \/ Regs!Sign
      PROVE  Regs!RegistryInvariant'
  <2>1. UNCHANGED Regs!schemaVars /\ UNCHANGED <<kinds, retired>>
    BY <1>3 DEF Regs!RegisterKey, Regs!ActivateKey, Regs!Sign
  <2>2. Regs!KeysStayOnRecord' BY <1>3, KeyStep
  <2> QED BY <2>1, <2>2, RegistryPartsAlone
<1>4. CASE Regs!Tick BY <1>4, RegistryPartsAlone DEF Regs!Tick
<1> QED BY <1>1, <1>2, <1>3, <1>4 DEF Regs!Next

(***************************************************************************)
(* After any sequence of registrations, migrations, retirements and key    *)
(* rotations: what a key signed while it was valid verifies, an artifact   *)
(* of any known version is read at the write version or not at all, and a  *)
(* retired kind is not creatable (SchemaRegistry.read_latest,              *)
(* KindRegistry.retire, HistoricalKeyRegistry.verify).                     *)
(***************************************************************************)
THEOREM HistoryRemainsReadable ==
  ASSUME Regs!RegistryAssumption PROVE Regs!Spec => []HistoryStaysReadable
<1>1. Regs!Init => Regs!RegistryInvariant
  BY DEF Regs!Init, Regs!RegistryInvariant, Regs!SchemasGrow, Regs!KindsStayRetired,
         Regs!KeysStayOnRecord,
         Regs!RegistryAssumption
<1>2. Regs!RegistryInvariant /\ [Regs!Next]_Regs!vars => Regs!RegistryInvariant'
  <2>1. ASSUME Regs!RegistryInvariant, UNCHANGED Regs!vars PROVE Regs!RegistryInvariant'
    BY <2>1, RegistryPartsAlone DEF Regs!vars, Regs!RegistryInvariant
  <2> QED BY <2>1, RegistryStep
<1>3. Regs!RegistryInvariant => Regs!HistoryStaysReadable BY ReadableByParts
<1>4. Regs!HistoryStaysReadable => HistoryStaysReadable BY DEF HistoryStaysReadable
<1> QED BY <1>1, <1>2, <1>3, <1>4, PTL DEF Regs!Spec

-----------------------------------------------------------------------------
(* Backpressure: the queue and the budget.                                 *)

(* The instance counts as the library does. *)
LEMMA PressureCounts ==
  /\ \A S : Pressure!Cardinality(S) = Cardinality(S)
  /\ \A S : Pressure!IsFiniteSet(S) = IsFiniteSet(S)
<1>1. ASSUME NEW S PROVE Pressure!Cardinality(S) = Cardinality(S)
  BY DEF Pressure!Cardinality, Cardinality
<1>2. ASSUME NEW S PROVE Pressure!IsFiniteSet(S) = IsFiniteSet(S)
  BY DEF Pressure!IsFiniteSet, IsFiniteSet
<1> QED BY <1>1, <1>2

(* A finite set of sets has a smallest one. *)
LEMMA SmallestSet ==
  ASSUME NEW F, F # {}, \A s \in F : IsFiniteSet(s)
  PROVE  \E s \in F : \A t \in F : Cardinality(s) <= Cardinality(t)
<1> DEFINE T == {Cardinality(s) : s \in F}
<1>1. T \subseteq Nat /\ T # {} BY FS_CardinalityType
<1>2. PICK n \in T : \A y \in T : n <= y
  <2> HIDE DEF T
  <2> QED BY <1>1, LeastNumber
<1> QED BY <1>2

(* The element a sum takes next. *)
NextItem(s) == CHOOSE x \in s : TRUE

CostAdds(f, s) == IF s = {} THEN 0 ELSE NextItem(s).cost + f[s \ {NextItem(s)}]

CostSums(f, S) == f = [s \in SUBSET S |-> CostAdds(f, s)]

LEMMA SumIsFold ==
  ASSUME NEW S
  PROVE  Pressure!MapThenSumSet(LAMBDA i : i.cost, S) = (CHOOSE f : CostSums(f, S))[S]
BY Zenon DEF Pressure!MapThenSumSet, Pressure!MapThenFoldSet, CostSums, CostAdds, NextItem

LEMMA FirstIsIn ==
  ASSUME NEW s, s # {} PROVE NextItem(s) \in s
<1>1. \E x \in s : TRUE OBVIOUS
<1> QED BY <1>1, Zenon DEF NextItem

(* Sums of the subsets of up to n elements. *)
SubsetsUpto(S, n) == {s \in SUBSET S : Cardinality(s) <= n}

PartialCosts(f, S, n) == f = [s \in SubsetsUpto(S, n) |-> CostAdds(f, s)]

LEMMA PartialSums ==
  ASSUME NEW S, IsFiniteSet(S), NEW k \in Nat
  PROVE  \E f : PartialCosts(f, S, k)
<1>0. \A s \in SUBSET S : IsFiniteSet(s) /\ Cardinality(s) \in Nat
  BY FS_Subset, FS_CardinalityType
<1> DEFINE T == {m \in Nat : ~(\E f : PartialCosts(f, S, m))}
<1>1. SUFFICES ASSUME T # {} PROVE FALSE OBVIOUS
<1>2. PICK m \in T : \A y \in T : m <= y
  <2>1. T \subseteq Nat OBVIOUS
  <2> HIDE DEF T
  <2> QED BY <1>1, <2>1, LeastNumber
<1>3. m \in Nat /\ ~(\E f : PartialCosts(f, S, m)) OBVIOUS
<1>4. CASE m = 0
  <2> DEFINE g == [s \in SubsetsUpto(S, 0) |-> 0]
  <2>1. \A s \in SubsetsUpto(S, 0) : s = {} BY <1>0, FS_EmptySet DEF SubsetsUpto
  <2>2. g = [s \in SubsetsUpto(S, 0) |-> CostAdds(g, s)] BY <2>1 DEF CostAdds
  <2> QED BY <2>2, <1>3, <1>4 DEF PartialCosts
<1>5. CASE m # 0
  <2>1. m - 1 \in Nat /\ ~(m <= m - 1) BY <1>3, <1>5
  <2>2. PICK f : PartialCosts(f, S, m - 1) BY <2>1, <1>2
  <2> DEFINE g == [s \in SubsetsUpto(S, m) |-> CostAdds(f, s)]
  <2>3. ASSUME NEW s \in SubsetsUpto(S, m - 1) PROVE s \in SubsetsUpto(S, m) /\ g[s] = f[s]
    <3>1. s \in SubsetsUpto(S, m) BY <1>0, <1>3 DEF SubsetsUpto
    <3>2. f[s] = CostAdds(f, s) BY <2>2 DEF PartialCosts
    <3> QED BY <3>1, <3>2
  <2>4. ASSUME NEW s \in SubsetsUpto(S, m), s # {}
        PROVE  s \ {NextItem(s)} \in SubsetsUpto(S, m - 1)
    <3>1. NextItem(s) \in s BY <2>4, FirstIsIn
    <3>2. s \in SUBSET S /\ IsFiniteSet(s) /\ Cardinality(s) \in Nat /\ Cardinality(s) <= m
      BY <1>0 DEF SubsetsUpto
    <3>3. Cardinality(s \ {NextItem(s)}) = Cardinality(s) - 1 BY <3>1, <3>2, FS_RemoveElement
    <3> QED BY <3>2, <3>3, <1>3 DEF SubsetsUpto
  <2>5. ASSUME NEW s \in SubsetsUpto(S, m) PROVE CostAdds(f, s) = CostAdds(g, s)
    <3>1. CASE s = {} BY <3>1 DEF CostAdds
    <3>2. CASE s # {}
      <4>1. g[s \ {NextItem(s)}] = f[s \ {NextItem(s)}] BY <3>2, <2>4, <2>3
      <4> HIDE DEF g
      <4> QED BY <4>1, <3>2 DEF CostAdds
    <3> QED BY <3>1, <3>2
  <2>6. g = [s \in SubsetsUpto(S, m) |-> CostAdds(g, s)]
    <3>1. g = [s \in SubsetsUpto(S, m) |-> CostAdds(f, s)] OBVIOUS
    <3> HIDE DEF g
    <3> QED BY <3>1, <2>5
  <2> QED BY <2>6, <1>3 DEF PartialCosts
<1> QED BY <1>4, <1>5

LEMMA SumExists ==
  ASSUME NEW S, IsFiniteSet(S)
  PROVE  CostSums(CHOOSE g : CostSums(g, S), S)
<1>1. Cardinality(S) \in Nat BY FS_CardinalityType
<1>2. SubsetsUpto(S, Cardinality(S)) = SUBSET S BY FS_Subset DEF SubsetsUpto
<1>3. \E g : CostSums(g, S)
  <2>1. PICK g : PartialCosts(g, S, Cardinality(S)) BY <1>1, PartialSums
  <2>2. CostSums(g, S) BY <2>1, <1>2 DEF CostSums, PartialCosts
  <2> QED BY <2>2
<1> DEFINE D(g) == CostSums(g, S)
<1> HIDE DEF D
<1>4. \E g : D(g) BY <1>3 DEF D
<1>5. D(CHOOSE g : D(g)) BY <1>4, Zenon
<1> QED BY <1>5, Zenon DEF D

(* Two sums agree where they overlap. *)
LEMMA SumsAgree ==
  ASSUME NEW S, NEW R, NEW f, NEW g, IsFiniteSet(S), CostSums(f, S), CostSums(g, R), NEW t,
         t \subseteq S, t \subseteq R
  PROVE  f[t] = g[t]
<1> DEFINE F == {s \in SUBSET t : f[s] # g[s]}
<1>1. SUFFICES ASSUME F # {} PROVE FALSE OBVIOUS
<1>2. \A s \in F : IsFiniteSet(s) BY FS_Subset
<1>3. PICK s \in F : \A u \in F : Cardinality(s) <= Cardinality(u)
  <2> HIDE DEF F
  <2> QED BY <1>1, <1>2, SmallestSet
<1>4. s \in SUBSET t /\ f[s] # g[s] /\ IsFiniteSet(s) BY <1>2
<1>5. f[s] = CostAdds(f, s) /\ g[s] = CostAdds(g, s)
  <2>1. s \in SUBSET S /\ s \in SUBSET R BY <1>4
  <2> QED BY <2>1 DEF CostSums
<1>6. s # {} BY <1>4, <1>5 DEF CostAdds
<1> DEFINE u == s \ {NextItem(s)}
<1>7. NextItem(s) \in s BY <1>6, FirstIsIn
<1>8. Cardinality(u) = Cardinality(s) - 1 /\ Cardinality(s) \in Nat
  BY <1>4, <1>7, FS_RemoveElement, FS_CardinalityType
<1>9. ~(Cardinality(s) <= Cardinality(u)) BY <1>8
<1>10. u \in SUBSET t BY <1>4
<1>11. f[u] = g[u]
  <2> HIDE DEF u
  <2> QED BY <1>9, <1>10, <1>3
<1> QED BY <1>4, <1>5, <1>6, <1>11 DEF CostAdds

(* A total and the sums of the subsets of any larger set. *)
LEMMA TotalBySums ==
  ASSUME NEW S, IsFiniteSet(S)
  PROVE  \E f : CostSums(f, S) /\ \A t \in SUBSET S : f[t] = Pressure!CostOf(t)
<1> DEFINE f == CHOOSE g : CostSums(g, S)
<1>1. CostSums(f, S) BY SumExists
<1>2. ASSUME NEW t \in SUBSET S PROVE f[t] = Pressure!CostOf(t)
  <2> DEFINE h == CHOOSE g : CostSums(g, t)
  <2>1. IsFiniteSet(t) BY FS_Subset
  <2>2. CostSums(h, t) BY <2>1, SumExists
  <2>3. Pressure!CostOf(t) = h[t] BY SumIsFold, Zenon DEF Pressure!CostOf
  <2> HIDE DEF f, h
  <2>4. f[t] = h[t] BY <1>1, <2>2, SumsAgree
  <2> QED BY <2>3, <2>4
<1> HIDE DEF f
<1> QED BY <1>1, <1>2

(* A total is taken off one item at a time. *)
LEMMA TotalRecurs ==
  /\ Pressure!CostOf({}) = 0
  /\ \A S : IsFiniteSet(S) /\ S # {}
       => Pressure!CostOf(S) = NextItem(S).cost + Pressure!CostOf(S \ {NextItem(S)})
<1>1. Pressure!CostOf({}) = 0
  <2>1. IsFiniteSet({}) BY FS_EmptySet
  <2>2. PICK f : CostSums(f, {}) /\ \A t \in SUBSET {} : f[t] = Pressure!CostOf(t)
    BY <2>1, TotalBySums
  <2>3. {} \in SUBSET {} OBVIOUS
  <2>4. f[{}] = 0 BY <2>2, <2>3 DEF CostSums, CostAdds
  <2> QED BY <2>2, <2>3, <2>4
<1>2. ASSUME NEW S, IsFiniteSet(S), S # {}
      PROVE  Pressure!CostOf(S) = NextItem(S).cost + Pressure!CostOf(S \ {NextItem(S)})
  <2>1. PICK f : CostSums(f, S) /\ \A t \in SUBSET S : f[t] = Pressure!CostOf(t)
    BY <1>2, TotalBySums
  <2>2. S \in SUBSET S /\ S \ {NextItem(S)} \in SUBSET S OBVIOUS
  <2>3. f[S] = CostAdds(f, S) BY <2>1, <2>2 DEF CostSums
  <2> QED BY <2>1, <2>2, <2>3, <1>2 DEF CostAdds
<1> QED BY <1>1, <1>2

(* It does not matter which: an item adds its cost. *)
LEMMA TotalAdds ==
  ASSUME NEW S, IsFiniteSet(S), \A i \in S : i.cost \in Int
  PROVE  /\ Pressure!CostOf(S) \in Int
         /\ \A x \in S : Pressure!CostOf(S) = x.cost + Pressure!CostOf(S \ {x})
<1> DEFINE P(s) == /\ Pressure!CostOf(s) \in Int
                   /\ \A x \in s : Pressure!CostOf(s) = x.cost + Pressure!CostOf(s \ {x})
           F == {s \in SUBSET S : ~P(s)}
<1>1. SUFFICES ASSUME F # {} PROVE FALSE
  <2>1. S \in SUBSET S OBVIOUS
  <2> QED BY <2>1
<1>2. \A s \in F : IsFiniteSet(s) BY FS_Subset
<1>3. PICK s \in F : \A u \in F : Cardinality(s) <= Cardinality(u)
  <2> HIDE DEF F
  <2> QED BY <1>1, <1>2, SmallestSet
<1>4. s \in SUBSET S /\ ~P(s) /\ IsFiniteSet(s) BY <1>2
<1>5. ASSUME NEW x \in s PROVE P(s \ {x})
  <2>1. Cardinality(s \ {x}) = Cardinality(s) - 1 /\ Cardinality(s) \in Nat
    BY <1>4, FS_RemoveElement, FS_CardinalityType
  <2>2. ~(Cardinality(s) <= Cardinality(s \ {x})) BY <2>1
  <2>3. s \ {x} \notin F BY <2>2, <1>3
  <2>4. s \ {x} \in SUBSET S BY <1>4
  <2> HIDE DEF P
  <2> QED BY <2>3, <2>4
<1>6. P(s)
  <2>1. CASE s = {} BY <2>1, TotalRecurs
  <2>2. CASE s # {}
    <3> DEFINE y == NextItem(s)
    <3>1. y \in s BY <2>2, FirstIsIn
    <3>2. Pressure!CostOf(s) = y.cost + Pressure!CostOf(s \ {y}) BY <2>2, <1>4, TotalRecurs
    <3> HIDE DEF y
    <3>3. y.cost \in Int /\ Pressure!CostOf(s \ {y}) \in Int BY <3>1, <1>4, <1>5
    <3>4. ASSUME NEW x \in s PROVE Pressure!CostOf(s) = x.cost + Pressure!CostOf(s \ {x})
      <4>1. CASE x = y BY <4>1, <3>2
      <4>2. CASE x # y
        <5>1. x \in s \ {y} /\ y \in s \ {x} BY <4>2, <3>1
        <5>2. (s \ {y}) \ {x} = (s \ {x}) \ {y} OBVIOUS
        <5>3. Pressure!CostOf(s \ {y}) = x.cost + Pressure!CostOf((s \ {y}) \ {x})
          BY <5>1, <3>1, <1>5
        <5>4. Pressure!CostOf(s \ {x}) = y.cost + Pressure!CostOf((s \ {x}) \ {y}) BY <5>1, <1>5
        <5>5. x.cost \in Int /\ Pressure!CostOf(s \ {x}) \in Int BY <1>4, <1>5
        <5>6. Pressure!CostOf((s \ {x}) \ {y}) \in Int
          <6>1. P(s \ {x}) BY <1>5
          <6>2. Cardinality((s \ {x}) \ {y}) = Cardinality(s) - 2 /\ Cardinality(s) \in Nat
            <7>1. IsFiniteSet(s \ {x}) /\ Cardinality(s \ {x}) = Cardinality(s) - 1
                  /\ Cardinality(s) \in Nat
              BY <1>4, FS_RemoveElement, FS_CardinalityType
            <7>2. Cardinality((s \ {x}) \ {y}) = Cardinality(s \ {x}) - 1
              BY <7>1, <5>1, FS_RemoveElement
            <7> QED BY <7>1, <7>2
          <6>3. (s \ {x}) \ {y} \notin F
            <7> HIDE DEF F
            <7>1. ~(Cardinality(s) <= Cardinality((s \ {x}) \ {y})) BY <6>2
            <7> QED BY <7>1, <1>3
          <6>4. (s \ {x}) \ {y} \in SUBSET S BY <1>4
          <6> QED BY <6>3, <6>4
        <5>7. PICK a, b, c : /\ a = Pressure!CostOf(s \ {y}) /\ b = Pressure!CostOf(s \ {x})
                             /\ c = Pressure!CostOf((s \ {x}) \ {y})
          OBVIOUS
        <5>8. a = x.cost + c /\ b = y.cost + c /\ c \in Int
          BY <5>2, <5>3, <5>4, <5>6, <5>7, Zenon
        <5>9. y.cost + a = x.cost + b BY <5>8, <5>5, <3>3
        <5> QED BY <5>7, <5>9, <3>2, Zenon
      <4> QED BY <4>1, <4>2
    <3>5. Pressure!CostOf(s) \in Int
      <4> HIDE DEF F, P
      <4> QED BY <3>2, <3>3
    <3> QED BY <3>4, <3>5
  <2> QED BY <2>1, <2>2
<1> QED BY <1>4, <1>6

(* A total of costs is no less than none. *)
LEMMA TotalIsNat ==
  ASSUME NEW S, IsFiniteSet(S), \A i \in S : i.cost \in Nat
  PROVE  Pressure!CostOf(S) \in Nat
<1> DEFINE F == {s \in SUBSET S : Pressure!CostOf(s) \notin Nat}
<1>1. SUFFICES ASSUME F # {} PROVE FALSE
  <2>1. S \in SUBSET S OBVIOUS
  <2> QED BY <2>1
<1>2. \A s \in F : IsFiniteSet(s) BY FS_Subset
<1>3. PICK s \in F : \A u \in F : Cardinality(s) <= Cardinality(u)
  <2> HIDE DEF F
  <2> QED BY <1>1, <1>2, SmallestSet
<1>4. s \in SUBSET S /\ Pressure!CostOf(s) \notin Nat /\ IsFiniteSet(s) BY <1>2
<1>5. s # {}
  <2> SUFFICES ASSUME s = {} PROVE FALSE OBVIOUS
  <2>1. Pressure!CostOf(s) = 0 BY TotalRecurs
  <2> HIDE DEF F
  <2> QED BY <2>1, <1>4
<1>6. PICK x : x \in s BY <1>5
<1> DEFINE u == s \ {x}
<1>7. Pressure!CostOf(u) \in Nat
  <2>1. Cardinality(u) = Cardinality(s) - 1 /\ Cardinality(s) \in Nat
    BY <1>4, <1>6, FS_RemoveElement, FS_CardinalityType
  <2>2. ~(Cardinality(s) <= Cardinality(u)) BY <2>1
  <2>3. u \notin F BY <2>2, <1>3
  <2>4. u \in SUBSET S BY <1>4
  <2> HIDE DEF u
  <2> QED BY <2>3, <2>4
<1>8. Pressure!CostOf(s) = x.cost + Pressure!CostOf(u)
  <2>1. \A i \in s : i.cost \in Int BY <1>4
  <2> QED BY <2>1, <1>4, <1>6, TotalAdds
<1>9. x.cost \in Nat BY <1>4, <1>6
<1> HIDE DEF F, u
<1> QED BY <1>4, <1>7, <1>8, <1>9

(* Items that leave together take their total with them. *)
LEMMA TotalSplits ==
  ASSUME NEW S, IsFiniteSet(S), \A i \in S : i.cost \in Int, NEW R \in SUBSET S
  PROVE  Pressure!CostOf(S \ R) = Pressure!CostOf(S) - Pressure!CostOf(R)
<1> DEFINE F == {s \in SUBSET R :
                  Pressure!CostOf(S \ s) # Pressure!CostOf(S) - Pressure!CostOf(s)}
<1>1. SUFFICES ASSUME F # {} PROVE FALSE
  <2>1. R \in SUBSET R OBVIOUS
  <2> QED BY <2>1
<1>2. \A s \in F : IsFiniteSet(s) BY FS_Subset
<1>3. PICK s \in F : \A u \in F : Cardinality(s) <= Cardinality(u)
  <2> HIDE DEF F
  <2> QED BY <1>1, <1>2, SmallestSet
<1>4. /\ s \in SUBSET R /\ s \in SUBSET S /\ IsFiniteSet(s)
      /\ Pressure!CostOf(S \ s) # Pressure!CostOf(S) - Pressure!CostOf(s)
  BY <1>2
<1>5. s # {}
  <2> SUFFICES ASSUME s = {} PROVE FALSE OBVIOUS
  <2>1. S \ s = S OBVIOUS
  <2>2. Pressure!CostOf(S) \in Int BY TotalAdds
  <2>3. Pressure!CostOf(s) = 0 BY TotalRecurs
  <2>4. Pressure!CostOf(S \ s) = Pressure!CostOf(S) BY <2>1
  <2> HIDE DEF F
  <2> QED BY <2>2, <2>3, <2>4, <1>4
<1>6. PICK x : x \in s BY <1>5
<1> DEFINE u == s \ {x}
<1>7. Pressure!CostOf(S \ u) = Pressure!CostOf(S) - Pressure!CostOf(u)
  <2>1. Cardinality(u) = Cardinality(s) - 1 /\ Cardinality(s) \in Nat
    BY <1>4, <1>6, FS_RemoveElement, FS_CardinalityType
  <2>2. ~(Cardinality(s) <= Cardinality(u)) BY <2>1
  <2>3. u \notin F BY <2>2, <1>3
  <2>4. u \in SUBSET R BY <1>4
  <2> HIDE DEF u
  <2> QED BY <2>3, <2>4
<1>8. Pressure!CostOf(s) \in Int /\ Pressure!CostOf(s) = x.cost + Pressure!CostOf(u)
  BY <1>4, <1>6, TotalAdds
<1>9. IsFiniteSet(S \ u) /\ IsFiniteSet(u) /\ x \in S \ u /\ (S \ u) \ {x} = S \ s
  BY <1>4, <1>6, FS_Subset
<1>10. /\ Pressure!CostOf(S \ u) \in Int
       /\ Pressure!CostOf(S \ u) = x.cost + Pressure!CostOf(S \ s)
  BY <1>9, TotalAdds
<1>11. /\ Pressure!CostOf(S) \in Int /\ Pressure!CostOf(u) \in Int
       /\ Pressure!CostOf(S \ s) \in Int /\ x.cost \in Int
  <2>1. IsFiniteSet(S \ s) BY FS_Subset
  <2>2. \A i \in u : i.cost \in Int BY <1>4
  <2>3. Pressure!CostOf(u) \in Int
    <3> HIDE DEF u
    <3> QED BY <1>9, <2>2, TotalAdds
  <2> QED BY <2>1, <2>3, <1>4, <1>6, TotalAdds
<1> QED BY <1>4, <1>7, <1>8, <1>10, <1>11


-----------------------------------------------------------------------------
(* What is kept of the first n items. *)
KeepsUpto(f, q, i, k) ==
  f = [n \in 0 .. k |->
         IF n = 0 THEN <<>> ELSE IF q[n] = i THEN f[n-1] ELSE Append(f[n-1], q[n])]

LEMMA KeptExists ==
  ASSUME NEW q, NEW i, NEW k \in Nat PROVE \E f : KeepsUpto(f, q, i, k)
<1> DEFINE T == {m \in Nat : ~(\E f : KeepsUpto(f, q, i, m))}
           Put(s, n) == IF q[n] = i THEN s ELSE Append(s, q[n])
<1>1. SUFFICES ASSUME T # {} PROVE FALSE
  OBVIOUS
<1>2. PICK m \in T : \A y \in T : m <= y
  <2>1. T \subseteq Nat OBVIOUS
  <2> HIDE DEF T
  <2> QED BY <1>1, <2>1, LeastNumber
<1>3. m \in Nat /\ ~(\E f : KeepsUpto(f, q, i, m)) OBVIOUS
<1>4. CASE m = 0
  <2> DEFINE g == [n \in 0..0 |-> <<>>]
  <2>1. KeepsUpto(g, q, i, 0) BY DEF KeepsUpto
  <2> QED BY <2>1, <1>3, <1>4
<1>5. CASE m # 0
  <2>1. m - 1 \in Nat /\ ~(m <= m - 1) BY <1>3, <1>5
  <2>2. PICK f : KeepsUpto(f, q, i, m - 1) BY <2>1, <1>2
  <2> DEFINE g == [n \in 0..m |-> IF n = m THEN Put(f[m-1], m) ELSE f[n]]
  <2>3. ASSUME NEW n \in 0..m PROVE g[n] = IF n = 0 THEN <<>> ELSE Put(g[n-1], n)
    <3>0. n \in Nat /\ (n # 0 => n - 1 \in 0..m-1 /\ n - 1 \in 0..m /\ n - 1 # m)
      BY <1>3
    <3>1. n # 0 => g[n-1] = f[n-1] BY <3>0
    <3>2. g[n] = IF n = m THEN Put(f[m-1], m) ELSE f[n] OBVIOUS
    <3> HIDE DEF g, Put
    <3>3. CASE n = m BY <3>3, <3>1, <3>2, <1>5
    <3>4. CASE n # m
      <4>1. n \in 0..m-1 BY <3>4, <1>3
      <4>2. f[n] = IF n = 0 THEN <<>> ELSE Put(f[n-1], n) BY <4>1, <2>2 DEF KeepsUpto, Put
      <4> QED BY <4>2, <3>1, <3>2, <3>4
    <3> QED BY <3>3, <3>4
  <2>4. g = [n \in 0..m |-> g[n]] OBVIOUS
  <2> HIDE DEF g
  <2>5. g = [n \in 0..m |-> IF n = 0 THEN <<>> ELSE Put(g[n-1], n)]
    <3> HIDE DEF Put
    <3> QED BY <2>3, <2>4
  <2>6. KeepsUpto(g, q, i, m) BY <2>5 DEF KeepsUpto
  <2> QED BY <2>6, <1>3
<1> QED BY <1>4, <1>5

LEMMA WithoutByKeeping ==
  ASSUME NEW q, Len(q) \in Nat, NEW i
  PROVE  \E f : KeepsUpto(f, q, i, Len(q)) /\ Pressure!Without(q, i) = f[Len(q)]
<1> DEFINE D(g) == KeepsUpto(g, q, i, Len(q))
<1>1. Pressure!Without(q, i) = (CHOOSE g : D(g))[Len(q)]
  BY Zenon DEF Pressure!Without, KeepsUpto
<1>2. \E g : D(g) BY KeptExists
<1> HIDE DEF D
<1>3. D(CHOOSE g : D(g)) BY <1>2, Zenon
<1> QED BY <1>1, <1>3 DEF D

(* Removing an item leaves the others, none twice. *)
LEMMA WithoutRemoves ==
  ASSUME NEW I, NEW q \in Seq(I), Pressure!IsInjective(q), NEW i
  PROVE  LET r == Pressure!Without(q, i) IN
         /\ r \in Seq(I) /\ Pressure!IsInjective(r) /\ Len(r) <= Len(q)
         /\ Pressure!ToSet(r) = Pressure!ToSet(q) \ {i}
<1>0. Len(q) \in Nat /\ DOMAIN q = 1..Len(q) OBVIOUS
<1>1. PICK f : KeepsUpto(f, q, i, Len(q)) /\ Pressure!Without(q, i) = f[Len(q)]
  BY <1>0, WithoutByKeeping
<1> DEFINE P(n) == /\ f[n] \in Seq(I) /\ Len(f[n]) <= n /\ Pressure!IsInjective(f[n])
                   /\ Pressure!ToSet(f[n]) = {q[m] : m \in 1..n} \ {i}
           T == {n \in 0..Len(q) : ~P(n)}
<1>2. T = {}
  <2> SUFFICES ASSUME T # {} PROVE FALSE OBVIOUS
  <2>1. T \subseteq Nat OBVIOUS
  <2>2. PICK n \in T : \A y \in T : n <= y
    <3> HIDE DEF T
    <3> QED BY <2>1, LeastNumber
  <2>3. n \in 0..Len(q) /\ ~P(n) OBVIOUS
  <2>4. CASE n = 0
    <3>1. f[0] = <<>> BY <1>0, <1>1 DEF KeepsUpto
    <3>2. P(0)
      <4>1. <<>> \in Seq(I) /\ Len(<<>>) = 0 /\ DOMAIN <<>> = {} OBVIOUS
      <4>2. 1..0 = {} OBVIOUS
      <4> QED BY <3>1, <4>1, <4>2 DEF Pressure!IsInjective, Pressure!ToSet
    <3> QED BY <3>2, <2>3, <2>4
  <2>5. CASE n # 0
    <3>1. /\ n - 1 \in 0..Len(q) /\ ~(n <= n - 1) /\ n \in 1..Len(q) /\ n - 1 \in Nat
          /\ 1..n = (1..(n-1)) \cup {n}
      BY <2>3, <2>5, <1>0
    <3>2. P(n - 1) BY <3>1, <2>2
    <3>3. f[n] = IF q[n] = i THEN f[n-1] ELSE Append(f[n-1], q[n])
      BY <2>3, <2>5, <1>1 DEF KeepsUpto
    <3>4. q[n] \in I BY <3>1
    <3>5. {q[m] : m \in 1..n} = {q[m] : m \in 1..(n-1)} \cup {q[n]} BY <3>1
    <3>6. \A m \in 1..(n-1) : q[m] # q[n] BY <3>1, <1>0 DEF Pressure!IsInjective
    <3>7. PICK s, e : s = f[n-1] /\ e = q[n] OBVIOUS
    <3>8. /\ s \in Seq(I) /\ Len(s) <= n - 1 /\ Pressure!IsInjective(s)
          /\ Pressure!ToSet(s) = {q[m] : m \in 1..(n-1)} \ {i}
      BY <3>2, <3>7
    <3>9. CASE e = i
      <4>1. f[n] = s BY <3>3, <3>7, <3>9
      <4>2. Len(s) \in Nat BY <3>8
      <4>3. Pressure!ToSet(s) = {q[m] : m \in 1..n} \ {i} BY <3>5, <3>7, <3>8, <3>9
      <4>4. Len(s) <= n BY <4>2, <3>8, <3>1
      <4> QED BY <4>1, <4>3, <4>4, <3>8, <2>3
    <3>10. CASE e # i
      <4>1. f[n] = Append(s, e) BY <3>3, <3>7, <3>10
      <4>2. /\ Append(s, e) \in Seq(I) /\ Len(Append(s, e)) = Len(s) + 1
            /\ \A m \in 1..Len(s) : Append(s, e)[m] = s[m]
            /\ Append(s, e)[Len(s) + 1] = e
        BY <3>4, <3>7, <3>8
      <4>3. Len(s) \in Nat /\ DOMAIN s = 1..Len(s) /\ DOMAIN Append(s, e) = 1..(Len(s) + 1)
            /\ 1..(Len(s) + 1) = (1..Len(s)) \cup {Len(s) + 1}
        BY <3>8
      <4>4. Pressure!ToSet(Append(s, e)) = Pressure!ToSet(s) \cup {e}
        BY <4>2, <4>3 DEF Pressure!ToSet
      <4>5. e \notin Pressure!ToSet(s) BY <3>6, <3>7, <3>8
      <4>6. \A m \in 1..Len(s) : s[m] # e BY <4>3, <4>5 DEF Pressure!ToSet
      <4>7. Pressure!IsInjective(Append(s, e))
        <5>1. ASSUME NEW a \in 1..(Len(s)+1), NEW b \in 1..(Len(s)+1),
                     Append(s, e)[a] = Append(s, e)[b]
              PROVE  a = b
          <6>1. CASE a \in 1..Len(s) /\ b \in 1..Len(s)
            BY <6>1, <5>1, <4>2, <4>3, <3>8 DEF Pressure!IsInjective
          <6>2. CASE ~(a \in 1..Len(s)) \/ ~(b \in 1..Len(s))
            BY <6>2, <5>1, <4>2, <4>3, <4>6
          <6> QED BY <6>1, <6>2
        <5> QED BY <5>1, <4>3 DEF Pressure!IsInjective
      <4>8. Pressure!ToSet(f[n]) = {q[m] : m \in 1..n} \ {i}
        BY <4>1, <4>4, <3>5, <3>7, <3>8, <3>10
      <4>9. Len(f[n]) <= n BY <4>1, <4>2, <4>3, <3>1, <3>8
      <4> QED BY <4>1, <4>2, <4>7, <4>8, <4>9, <2>3
    <3> QED BY <3>9, <3>10
  <2> QED BY <2>4, <2>5
<1>3. P(Len(q))
  <2>1. Len(q) \in 0..Len(q) BY <1>0
  <2> HIDE DEF P
  <2> QED BY <2>1, <1>2
<1>4. {q[m] : m \in 1..Len(q)} = Pressure!ToSet(q) BY <1>0 DEF Pressure!ToSet
<1> QED BY <1>1, <1>3, <1>4


-----------------------------------------------------------------------------
(* Items that leave the queue take their counts with them. *)
LEMMA ItemsLeave ==
  ASSUME Pressure!PressureAssumption, Pressure!QueueInvariant,
         NEW gone \in SUBSET Pressure!Queued,
         Pressure!RemoveAccounting(gone), queue' \in Seq(WorkItems),
         Pressure!IsInjective(queue'),
         Len(queue') <= Len(queue), Pressure!Queued' = Pressure!Queued \ gone
  PROVE  Pressure!QueueInvariant'
<1>0. /\ Pressure!Queued \subseteq WorkItems /\ IsFiniteSet(Pressure!Queued)
      /\ queue \in Seq(WorkItems)
      /\ Len(queue) <= MaxItems /\ wsCounts \in [Pressure!Workspaces -> Int]
      /\ cost = Pressure!CostOf(Pressure!Queued) /\ cost <= MaxCost
  BY PressureCounts
     DEF Pressure!QueueInvariant, Pressure!QueueTyped, Pressure!QueueCounts, Pressure!Queued,
         Pressure!ToSet
<1>1. \A i \in WorkItems : i.cost \in Nat BY DEF Pressure!PressureAssumption
<1>2. \A i \in Pressure!Queued : i.cost \in Int BY <1>0, <1>1
<1>3. IsFiniteSet(gone) /\ IsFiniteSet(Pressure!Queued \ gone) BY <1>0, FS_Subset
<1>4. cost' = cost - Pressure!CostOf(gone) BY PressureCounts DEF Pressure!RemoveAccounting
<1>5. Pressure!CostOf(Pressure!Queued \ gone)
        = Pressure!CostOf(Pressure!Queued) - Pressure!CostOf(gone)
  BY <1>0, <1>2, TotalSplits
<1>6. cost' = Pressure!CostOf(Pressure!Queued') BY <1>0, <1>4, <1>5
<1>7. Pressure!CostOf(gone) \in Nat /\ Pressure!CostOf(Pressure!Queued) \in Int
  <2>1. Pressure!CostOf(gone) \in Nat BY <1>0, <1>1, <1>3, TotalIsNat
  <2> QED BY <2>1, <1>0, <1>2, TotalAdds
<1>8. cost' <= MaxCost BY <1>0, <1>4, <1>7 DEF Pressure!PressureAssumption
<1>9. ASSUME NEW w \in Pressure!Workspaces
      PROVE  /\ wsCounts'[w] = Cardinality({i \in Pressure!Queued' : i.ws = w})
             /\ wsCounts'[w] <= PerWorkspace /\ wsCounts'[w] \in Int
  <2> DEFINE A == {i \in Pressure!Queued : i.ws = w}
             B == {i \in gone : i.ws = w}
             C == {i \in Pressure!Queued' : i.ws = w}
  <2>1. wsCounts'[w] = wsCounts[w] - Cardinality(B)
    BY PressureCounts DEF Pressure!RemoveAccounting
  <2>2. wsCounts[w] = Cardinality(A) /\ wsCounts[w] <= PerWorkspace
    BY PressureCounts DEF Pressure!QueueInvariant, Pressure!QueueCounts
  <2>3. IsFiniteSet(A) /\ B \in SUBSET A /\ C = A \ B BY <1>0, FS_Subset
  <2> HIDE DEF A, B, C
  <2>4. Cardinality(C) = Cardinality(A) - Cardinality(B)
    <3>1. A \cap B = B BY <2>3
    <3>2. Cardinality(A \ B) = Cardinality(A) - Cardinality(A \cap B) BY <2>3, FS_Difference
    <3> QED BY <3>1, <3>2, <2>3
  <2>5. Cardinality(A) \in Nat /\ Cardinality(B) \in Nat BY <2>3, FS_Subset, FS_CardinalityType
  <2>6. PerWorkspace \in Nat BY DEF Pressure!PressureAssumption
  <2>7. wsCounts'[w] = Cardinality(C) BY <2>1, <2>2, <2>4
  <2>8. wsCounts'[w] <= PerWorkspace /\ wsCounts'[w] \in Int BY <2>1, <2>2, <2>5, <2>6
  <2> QED BY <2>7, <2>8 DEF C
<1>10. wsCounts' \in [Pressure!Workspaces -> Int]
  <2>1. wsCounts' = [w \in Pressure!Workspaces |-> wsCounts'[w]]
    BY PressureCounts DEF Pressure!RemoveAccounting
  <2> QED BY <2>1, <1>9
<1>11. Len(queue') <= MaxItems
  <2>1. Len(queue) \in Nat /\ Len(queue') \in Nat BY <1>0
  <2> QED BY <2>1, <1>0 DEF Pressure!PressureAssumption
<1>12. Pressure!QueueTyped' BY <1>3, <1>10, PressureCounts DEF Pressure!QueueTyped
<1>13. Pressure!QueueCounts' BY <1>6, <1>8, <1>9, <1>11, PressureCounts DEF Pressure!QueueCounts
<1> QED BY <1>12, <1>13 DEF Pressure!QueueInvariant

(* An item that is admitted is counted. *)
LEMMA ItemEnters ==
  ASSUME Pressure!PressureAssumption, Pressure!QueueInvariant, NEW i \in WorkItems,
         Pressure!Admits(i), Pressure!Enqueue(i)
  PROVE  Pressure!QueueInvariant'
<1>0. /\ Pressure!Queued \subseteq WorkItems /\ IsFiniteSet(Pressure!Queued)
      /\ queue \in Seq(WorkItems)
      /\ wsCounts \in [Pressure!Workspaces -> Int]
      /\ cost = Pressure!CostOf(Pressure!Queued) /\ Pressure!IsInjective(queue)
  BY PressureCounts
     DEF Pressure!QueueInvariant, Pressure!QueueTyped, Pressure!QueueCounts, Pressure!Queued,
         Pressure!ToSet
<1>1. i \notin Pressure!Queued /\ Len(queue) < MaxItems /\ wsCounts[i.ws] < PerWorkspace
      /\ cost + i.cost <= MaxCost
  BY DEF Pressure!Admits
<1>2. queue' = Append(queue, i) /\ wsCounts' = [wsCounts EXCEPT ![i.ws] = @ + 1]
      /\ cost' = cost + i.cost
  BY DEF Pressure!Enqueue
<1>3. /\ queue' \in Seq(WorkItems) /\ Len(queue') = Len(queue) + 1 /\ Len(queue) \in Nat
      /\ DOMAIN queue = 1..Len(queue) /\ DOMAIN queue' = 1..(Len(queue) + 1)
      /\ 1..(Len(queue) + 1) = (1..Len(queue)) \cup {Len(queue) + 1}
      /\ \A m \in 1..Len(queue) : queue'[m] = queue[m]
      /\ queue'[Len(queue) + 1] = i
  BY <1>0, <1>2
<1>4. Pressure!Queued' = Pressure!Queued \cup {i} BY <1>3 DEF Pressure!Queued, Pressure!ToSet
<1>5. \A m \in 1..Len(queue) : queue[m] # i BY <1>1, <1>3 DEF Pressure!Queued, Pressure!ToSet
<1>6. Pressure!IsInjective(queue')
  <2>1. ASSUME NEW a \in 1..(Len(queue)+1), NEW b \in 1..(Len(queue)+1), queue'[a] = queue'[b]
        PROVE  a = b
    <3>1. CASE a \in 1..Len(queue) /\ b \in 1..Len(queue)
      BY <3>1, <2>1, <1>3, <1>0 DEF Pressure!IsInjective
    <3>2. CASE ~(a \in 1..Len(queue)) \/ ~(b \in 1..Len(queue)) BY <3>2, <2>1, <1>3, <1>5
    <3> QED BY <3>1, <3>2
  <2> QED BY <2>1, <1>3 DEF Pressure!IsInjective
<1>7. IsFiniteSet(Pressure!Queued') BY <1>0, <1>4, FS_AddElement
<1>8. cost' = Pressure!CostOf(Pressure!Queued')
  <2>1. \A j \in Pressure!Queued' : j.cost \in Int BY <1>0, <1>4 DEF Pressure!PressureAssumption
  <2>2. i \in Pressure!Queued' /\ Pressure!Queued' \ {i} = Pressure!Queued BY <1>1, <1>4
  <2>3. Pressure!CostOf(Pressure!Queued') = i.cost + Pressure!CostOf(Pressure!Queued)
    BY <1>7, <2>1, <2>2, TotalAdds
  <2>4. Pressure!CostOf(Pressure!Queued) \in Int /\ i.cost \in Int
    BY <2>1, <2>2, <1>0, TotalAdds DEF Pressure!PressureAssumption
  <2> QED BY <2>3, <2>4, <1>0, <1>2
<1>9. ASSUME NEW w \in Pressure!Workspaces
      PROVE  /\ wsCounts'[w] = Cardinality({j \in Pressure!Queued' : j.ws = w})
             /\ wsCounts'[w] <= PerWorkspace /\ wsCounts'[w] \in Int
  <2> DEFINE A == {j \in Pressure!Queued : j.ws = w}
             C == {j \in Pressure!Queued' : j.ws = w}
  <2>0. wsCounts[w] = Cardinality(A) /\ wsCounts[w] <= PerWorkspace /\ wsCounts[w] \in Int
    BY <1>0, PressureCounts DEF Pressure!QueueInvariant, Pressure!QueueCounts
  <2>1. CASE i.ws = w
    <3>1. C = A \cup {i} /\ i \notin A BY <2>1, <1>1, <1>4
    <3>2. IsFiniteSet(A) BY <1>0, FS_Subset
    <3>3. wsCounts'[w] = wsCounts[w] + 1 BY <2>1, <1>0, <1>2
    <3> HIDE DEF A, C
    <3>4. Cardinality(C) = Cardinality(A) + 1 BY <3>1, <3>2, FS_AddElement
    <3>5. wsCounts'[w] = Cardinality(C) BY <3>3, <3>4, <2>0
    <3>6. wsCounts'[w] <= PerWorkspace /\ wsCounts'[w] \in Int
      BY <3>3, <2>0, <2>1, <1>1 DEF Pressure!PressureAssumption
    <3> QED BY <3>5, <3>6 DEF C
  <2>2. CASE i.ws # w
    <3>1. C = A BY <2>2, <1>4
    <3>2. wsCounts'[w] = wsCounts[w] BY <2>2, <1>0, <1>2
    <3> QED BY <3>1, <3>2, <2>0
  <2> QED BY <2>1, <2>2
<1>10. Pressure!QueueTyped'
  <2>1. wsCounts' \in [Pressure!Workspaces -> Int]
    <3>1. wsCounts' = [w \in Pressure!Workspaces |-> wsCounts'[w]] BY <1>0, <1>2
    <3> QED BY <3>1, <1>9
  <2> QED BY <2>1, <1>3, <1>7, PressureCounts DEF Pressure!QueueTyped
<1>11. Len(queue') <= MaxItems BY <1>1, <1>3 DEF Pressure!PressureAssumption
<1>12. Pressure!QueueCounts'
  BY <1>1, <1>2, <1>6, <1>8, <1>9, <1>11, PressureCounts DEF Pressure!QueueCounts
<1> QED BY <1>10, <1>12 DEF Pressure!QueueInvariant

(* What is left of a sequence after its first k. *)
LEMMA RestOfQueue ==
  ASSUME NEW I, NEW q \in Seq(I), NEW k \in 0 .. Len(q)
  PROVE  /\ SubSeq(q, k + 1, Len(q)) \in Seq(I)
         /\ Len(SubSeq(q, k + 1, Len(q))) = Len(q) - k
         /\ \A m \in 1..(Len(q) - k) : SubSeq(q, k + 1, Len(q))[m] = q[m + k]
<1>1. Len(q) \in Nat /\ k \in Nat /\ k <= Len(q) OBVIOUS
<1>2. /\ SubSeq(q, k + 1, Len(q)) \in Seq(I)
      /\ Len(SubSeq(q, k + 1, Len(q))) = Len(q) - k
  BY <1>1, SMTT(30)
<1>3. ASSUME NEW m \in 1..(Len(q) - k) PROVE SubSeq(q, k + 1, Len(q))[m] = q[m + k]
  BY <1>1, SMTT(30)
<1> QED BY <1>2, <1>3

(* pop takes the items at the front. *)
LEMMA PopLeaves ==
  ASSUME Pressure!PressureAssumption, Pressure!QueueInvariant, NEW w, Pressure!Pop(w)
  PROVE  Pressure!QueueInvariant'
<1> DEFINE live == {n \in DOMAIN queue : ~Pressure!Expired(queue[n])}
           k == IF live = {} THEN Len(queue) ELSE Pressure!Min(live)
           gone == {queue[m] : m \in 1 .. k}
<1>1. /\ queue' = SubSeq(queue, k + 1, Len(queue))
      /\ Pressure!RemoveAccounting(gone) /\ queue # <<>>
  BY Zenon DEF Pressure!Pop
<1>2. queue \in Seq(WorkItems) /\ Pressure!IsInjective(queue)
  BY PressureCounts DEF Pressure!QueueInvariant, Pressure!QueueTyped, Pressure!QueueCounts
<1>3. Len(queue) \in Nat /\ DOMAIN queue = 1..Len(queue) BY <1>2
<1>4. k \in 0..Len(queue)
  <2>1. CASE live = {} BY <2>1, <1>3
  <2>2. CASE live # {}
    <3>1. live \subseteq Nat /\ live \subseteq 1..Len(queue) BY <1>3
    <3> HIDE DEF live
    <3>2. Pressure!Min(live) \in live
      <4> DEFINE P(x) == \A y \in live : x <= y
      <4>1. \E x \in live : P(x) BY <3>1, <2>2, LeastNumber
      <4>2. Pressure!Min(live) = CHOOSE x \in live : P(x) BY Zenon DEF Pressure!Min
      <4> HIDE DEF P
      <4> QED BY <4>1, <4>2, Zenon
    <3>3. Pressure!Min(live) \in 1..Len(queue) BY <3>1, <3>2
    <3> QED BY <3>3, <2>2, <1>3
  <2> QED BY <2>1, <2>2
<1> HIDE DEF k
<1>5. /\ queue' \in Seq(WorkItems) /\ Len(queue') = Len(queue) - k
      /\ DOMAIN queue' = 1..(Len(queue) - k)
      /\ \A m \in 1..(Len(queue) - k) : queue'[m] = queue[m + k]
  <2>2. /\ SubSeq(queue, k + 1, Len(queue)) \in Seq(WorkItems)
        /\ Len(SubSeq(queue, k + 1, Len(queue))) = Len(queue) - k
        /\ \A m \in 1..(Len(queue) - k) : SubSeq(queue, k + 1, Len(queue))[m] = queue[m + k]
    BY <1>2, <1>4, RestOfQueue
  <2> QED BY <2>2, <1>1
<1>6. Pressure!IsInjective(queue')
  <2>1. ASSUME NEW a \in 1..(Len(queue) - k), NEW b \in 1..(Len(queue) - k),
               queue'[a] = queue'[b]
        PROVE  a = b
    <3>1. a + k \in 1..Len(queue) /\ b + k \in 1..Len(queue) BY <1>3, <1>4
    <3>2. queue[a + k] = queue[b + k] BY <2>1, <1>5
    <3>3. a + k = b + k BY <3>1, <3>2, <1>2, <1>3 DEF Pressure!IsInjective
    <3> QED BY <3>3, <1>3, <1>4
  <2> QED BY <2>1, <1>5 DEF Pressure!IsInjective
<1>7. gone \in SUBSET Pressure!Queued BY <1>3, <1>4 DEF Pressure!Queued, Pressure!ToSet
<1>8. Pressure!Queued' = Pressure!Queued \ gone
  <2>1. ASSUME NEW x \in Pressure!Queued' PROVE x \in Pressure!Queued /\ x \notin gone
    <3>1. PICK m \in 1..(Len(queue) - k) : x = queue[m + k]
      BY <2>1, <1>5 DEF Pressure!Queued, Pressure!ToSet
    <3>2. m + k \in 1..Len(queue) /\ m + k \notin 1..k BY <1>3, <1>4
    <3>3. ASSUME NEW j \in 1..k, x = queue[j] PROVE FALSE
      <4>1. j \in 1..Len(queue) BY <1>3, <1>4
      <4>2. j = m + k BY <4>1, <3>1, <3>2, <3>3, <1>2, <1>3 DEF Pressure!IsInjective
      <4> QED BY <4>2, <3>2
    <3> QED BY <3>1, <3>2, <3>3, <1>3 DEF Pressure!Queued, Pressure!ToSet
  <2>2. ASSUME NEW x \in Pressure!Queued, x \notin gone PROVE x \in Pressure!Queued'
    <3>1. PICK j \in 1..Len(queue) : x = queue[j] BY <1>3 DEF Pressure!Queued, Pressure!ToSet
    <3>2. j \notin 1..k BY <3>1, <2>2
    <3>3. j - k \in 1..(Len(queue) - k) /\ (j - k) + k = j BY <3>2, <1>3, <1>4
    <3>4. x = queue'[j - k] BY <3>1, <3>3, <1>5
    <3> QED BY <3>3, <3>4, <1>5 DEF Pressure!Queued, Pressure!ToSet
  <2> QED BY <2>1, <2>2
<1>9. Len(queue') <= Len(queue) BY <1>3, <1>4, <1>5
<1> HIDE DEF gone
<1> QED BY <1>1, <1>5, <1>6, <1>7, <1>8, <1>9, ItemsLeave

(* Cancelling takes one item. *)
LEMMA CancelLeaves ==
  ASSUME Pressure!PressureAssumption, Pressure!QueueInvariant, NEW i \in Pressure!Queued,
         Pressure!Dequeue(i)
  PROVE  Pressure!QueueInvariant'
<1>1. queue' = Pressure!Without(queue, i) /\ Pressure!RemoveAccounting({i})
  BY DEF Pressure!Dequeue
<1>2. queue \in Seq(WorkItems) /\ Pressure!IsInjective(queue)
  BY PressureCounts DEF Pressure!QueueInvariant, Pressure!QueueTyped, Pressure!QueueCounts
<1>3. /\ queue' \in Seq(WorkItems) /\ Pressure!IsInjective(queue') /\ Len(queue') <= Len(queue)
      /\ Pressure!ToSet(queue') = Pressure!ToSet(queue) \ {i}
  BY <1>1, <1>2, WithoutRemoves
<1>4. Pressure!Queued' = Pressure!Queued \ {i} BY <1>3 DEF Pressure!Queued
<1>5. {i} \in SUBSET Pressure!Queued OBVIOUS
<1> QED BY <1>1, <1>3, <1>4, <1>5, ItemsLeave


-----------------------------------------------------------------------------
(* What an operation has spent stays within the budget. *)
LEMMA BudgetSet ==
  ASSUME Pressure!PressureAssumption, Pressure!BudgetInvariant, NEW op, NEW b,
         Pressure!SetBudget(op, b),
         op \in DOMAIN budget \/ Cardinality(DOMAIN budget) < MaxOperations,
         b.attempts \in 1 .. MaxAttempts, b.total \in Nat, b.total <= MaxTotal
  PROVE  Pressure!BudgetInvariant'
<1> DEFINE D == DOMAIN budget
<1>1. /\ DOMAIN budget' = D \cup {op}
      /\ \A o \in D \cup {op} : budget'[o] = IF o = op THEN b ELSE budget[o]
  BY DEF Pressure!SetBudget
<1>2. /\ IsFiniteSet(D) /\ Cardinality(D) <= MaxOperations
      /\ \A o \in D : /\ budget[o].attempts \in 1 .. MaxAttempts
                       /\ budget[o].total \in Nat /\ budget[o].total <= MaxTotal
  BY PressureCounts DEF Pressure!BudgetInvariant, Pressure!BudgetTyped, Pressure!BudgetBounds
<1>3. IsFiniteSet(D \cup {op}) /\ Cardinality(D \cup {op}) <= MaxOperations
  <2> HIDE DEF D
  <2>1. /\ IsFiniteSet(D \cup {op}) /\ Cardinality(D) \in Nat
        /\ Cardinality(D \cup {op}) = IF op \in D THEN Cardinality(D) ELSE Cardinality(D) + 1
    BY <1>2, FS_AddElement, FS_CardinalityType
  <2> QED BY <2>1, <1>2 DEF D, Pressure!PressureAssumption
<1>4. \A o \in DOMAIN budget' : /\ budget'[o].attempts \in 1 .. MaxAttempts
                                 /\ budget'[o].total \in Nat /\ budget'[o].total <= MaxTotal
  BY <1>1, <1>2
<1>5. Pressure!BudgetTyped' BY <1>1, <1>3, <1>4, PressureCounts DEF Pressure!BudgetTyped
<1>6. Pressure!BudgetBounds' BY <1>1, <1>3, <1>4, PressureCounts DEF Pressure!BudgetBounds
<1> QED BY <1>5, <1>6 DEF Pressure!BudgetInvariant

LEMMA BudgetDropped ==
  ASSUME Pressure!PressureAssumption, Pressure!BudgetInvariant, NEW op, Pressure!DropBudget(op)
  PROVE  Pressure!BudgetInvariant'
<1> DEFINE D == DOMAIN budget
<1>1. DOMAIN budget' = D \ {op} /\ \A o \in D \ {op} : budget'[o] = budget[o]
  BY DEF Pressure!DropBudget
<1>2. /\ IsFiniteSet(D) /\ Cardinality(D) <= MaxOperations
      /\ \A o \in D : /\ budget[o].attempts \in 1 .. MaxAttempts
                       /\ budget[o].total \in Nat /\ budget[o].total <= MaxTotal
  BY PressureCounts DEF Pressure!BudgetInvariant, Pressure!BudgetTyped, Pressure!BudgetBounds
<1>3. IsFiniteSet(D \ {op}) /\ Cardinality(D \ {op}) <= MaxOperations
  <2> HIDE DEF D
  <2>1. /\ IsFiniteSet(D \ {op}) /\ Cardinality(D) \in Nat /\ Cardinality(D \ {op}) \in Nat
        /\ Cardinality(D \ {op}) <= Cardinality(D)
    BY <1>2, FS_Subset, FS_CardinalityType
  <2> QED BY <2>1, <1>2 DEF Pressure!PressureAssumption
<1>4. Pressure!BudgetTyped' BY <1>1, <1>2, <1>3, PressureCounts DEF Pressure!BudgetTyped
<1>5. Pressure!BudgetBounds' BY <1>1, <1>2, <1>3, PressureCounts DEF Pressure!BudgetBounds
<1> QED BY <1>4, <1>5 DEF Pressure!BudgetInvariant

LEMMA BudgetReserved ==
  ASSUME Pressure!PressureAssumption, Pressure!BudgetInvariant, NEW i \in WorkItems,
         Pressure!MayReserve(i), Pressure!Reserve(i)
  PROVE  Pressure!BudgetInvariant'
<1> DEFINE b == [attempts |-> Pressure!Spent(i.op).attempts + 1,
                 total |-> Pressure!Spent(i.op).total + i.cost]
<1>1. Pressure!SetBudget(i.op, b) BY DEF Pressure!Reserve
<1>2. /\ i.op \in DOMAIN budget \/ Cardinality(DOMAIN budget) < MaxOperations
      /\ Pressure!Spent(i.op).attempts < MaxAttempts
      /\ Pressure!Spent(i.op).total + i.cost <= MaxTotal
  BY PressureCounts DEF Pressure!MayReserve
<1>3. Pressure!Spent(i.op).attempts \in Nat /\ Pressure!Spent(i.op).total \in Nat
  <2>1. CASE i.op \in DOMAIN budget
    <3>1. budget[i.op].attempts \in 1..MaxAttempts /\ budget[i.op].total \in Nat
      BY <2>1, PressureCounts
         DEF Pressure!BudgetInvariant, Pressure!BudgetTyped, Pressure!BudgetBounds
    <3> QED BY <3>1, <2>1 DEF Pressure!Spent, Pressure!PressureAssumption
  <2>2. CASE i.op \notin DOMAIN budget BY <2>2 DEF Pressure!Spent
  <2> QED BY <2>1, <2>2
<1>4. b.attempts \in 1..MaxAttempts /\ b.total \in Nat /\ b.total <= MaxTotal
  BY <1>2, <1>3 DEF Pressure!PressureAssumption
<1> HIDE DEF b
<1> QED BY <1>1, <1>2, <1>4, BudgetSet

LEMMA BudgetRolledBack ==
  ASSUME Pressure!PressureAssumption, Pressure!BudgetInvariant, NEW i \in WorkItems,
         ~Pressure!Underflow(i), Pressure!Rollback(i)
  PROVE  Pressure!BudgetInvariant'
<1>1. CASE i.op \notin DOMAIN budget
  <2>1. budget' = budget BY <1>1 DEF Pressure!Rollback
  <2> QED BY <2>1, PressureCounts
             DEF Pressure!BudgetInvariant, Pressure!BudgetTyped, Pressure!BudgetBounds
<1>2. CASE i.op \in DOMAIN budget /\ budget[i.op].attempts = 1
  BY <1>2, BudgetDropped DEF Pressure!Rollback
<1>3. CASE i.op \in DOMAIN budget /\ budget[i.op].attempts # 1
  <2> DEFINE b == [attempts |-> budget[i.op].attempts - 1,
                   total |-> budget[i.op].total - i.cost]
  <2>1. Pressure!SetBudget(i.op, b) BY <1>3 DEF Pressure!Rollback
  <2>2. /\ budget[i.op].attempts \in 1..MaxAttempts /\ budget[i.op].total \in Nat
        /\ budget[i.op].total <= MaxTotal /\ i.cost \in Nat
        /\ ~(budget[i.op].total < i.cost)
    BY <1>3, PressureCounts
       DEF Pressure!BudgetInvariant, Pressure!BudgetTyped, Pressure!BudgetBounds,
           Pressure!PressureAssumption, Pressure!Underflow
  <2>3. b.attempts \in 1..MaxAttempts /\ b.total \in Nat /\ b.total <= MaxTotal
    BY <2>2, <1>3 DEF Pressure!PressureAssumption
  <2> HIDE DEF b
  <2> QED BY <2>1, <2>3, <1>3, BudgetSet
<1> QED BY <1>1, <1>2, <1>3

(***************************************************************************)
(* The counters of the queue say what is in it, nothing is in it twice,    *)
(* and queue and budget stay within their limits, for any items, workers   *)
(* and limits, whatever the order of submits, cancels, expiries and        *)
(* reports (BoundedWorkQueue, RetryBudget, BackpressureController).        *)
(***************************************************************************)
THEOREM QueueStaysAccounted ==
  ASSUME Pressure!PressureAssumption PROVE Pressure!Spec => []QueueAccounting
<1>1. Pressure!Init => Pressure!QueueInvariant /\ Pressure!BudgetInvariant
  <2> SUFFICES ASSUME Pressure!Init
               PROVE  Pressure!QueueInvariant /\ Pressure!BudgetInvariant
    OBVIOUS
  <2>1. queue = <<>> /\ wsCounts = [w \in Pressure!Workspaces |-> 0] /\ cost = 0
        /\ budget = [o \in {} |-> None]
    BY DEF Pressure!Init
  <2>2. queue \in Seq(WorkItems) /\ Len(queue) = 0 /\ DOMAIN queue = {} BY <2>1
  <2>3. Pressure!Queued = {} /\ IsFiniteSet({}) /\ Cardinality({}) = 0
    BY <2>2, FS_EmptySet DEF Pressure!Queued, Pressure!ToSet
  <2>4. Pressure!IsInjective(queue) BY <2>2 DEF Pressure!IsInjective
  <2>5. Pressure!CostOf(Pressure!Queued) = 0 BY <2>3, TotalRecurs
  <2>6. \A w : {i \in Pressure!Queued : i.ws = w} = {} BY <2>3
  <2>7. Pressure!QueueTyped BY <2>1, <2>2, <2>3, PressureCounts DEF Pressure!QueueTyped
  <2>8. Pressure!QueueCounts
    BY <2>1, <2>2, <2>3, <2>4, <2>5, <2>6, PressureCounts
       DEF Pressure!QueueCounts, Pressure!PressureAssumption
  <2>9. DOMAIN budget = {} BY <2>1
  <2>10. Pressure!BudgetTyped /\ Pressure!BudgetBounds
    BY <2>9, <2>3, PressureCounts
       DEF Pressure!BudgetTyped, Pressure!BudgetBounds, Pressure!PressureAssumption
  <2> QED BY <2>7, <2>8, <2>10 DEF Pressure!QueueInvariant, Pressure!BudgetInvariant
<1>2. Pressure!QueueInvariant /\ Pressure!BudgetInvariant /\ [Pressure!Next]_Pressure!vars
      => Pressure!QueueInvariant' /\ Pressure!BudgetInvariant'
  <2> SUFFICES ASSUME Pressure!QueueInvariant, Pressure!BudgetInvariant,
                      [Pressure!Next]_Pressure!vars
               PROVE  Pressure!QueueInvariant' /\ Pressure!BudgetInvariant'
    OBVIOUS
  <2>1. ASSUME queue' = queue, wsCounts' = wsCounts, cost' = cost PROVE Pressure!QueueInvariant'
    BY <2>1, PressureCounts
       DEF Pressure!QueueInvariant, Pressure!QueueTyped, Pressure!QueueCounts, Pressure!Queued
  <2>2. ASSUME budget' = budget PROVE Pressure!BudgetInvariant'
    BY <2>2, PressureCounts
       DEF Pressure!BudgetInvariant, Pressure!BudgetTyped, Pressure!BudgetBounds
  <2>3. ASSUME NEW i \in WorkItems, Pressure!SubmitDenied(i)
        PROVE  Pressure!QueueInvariant' /\ Pressure!BudgetInvariant'
    BY <2>1, <2>2, <2>3 DEF Pressure!SubmitDenied
  <2>4. ASSUME NEW i \in WorkItems, Pressure!SubmitAccepted(i)
        PROVE  Pressure!QueueInvariant' /\ Pressure!BudgetInvariant'
    BY <2>4, ItemEnters, BudgetReserved DEF Pressure!SubmitAccepted
  <2>5. ASSUME NEW i \in WorkItems, Pressure!Cancel(i)
        PROVE  Pressure!QueueInvariant' /\ Pressure!BudgetInvariant'
    <3>1. CASE i \notin Pressure!Queued BY <3>1, <2>1, <2>2, <2>5 DEF Pressure!Cancel
    <3>2. CASE i \in Pressure!Queued
      <4>1. Pressure!Dequeue(i) BY <3>2, <2>5 DEF Pressure!Cancel
      <4>2. Pressure!QueueInvariant' BY <3>2, <4>1, CancelLeaves
      <4>3. CASE Pressure!Underflow(i) BY <4>2, <4>3, <3>2, <2>2, <2>5 DEF Pressure!Cancel
      <4>4. CASE ~Pressure!Underflow(i)
        <5>1. Pressure!Rollback(i) BY <4>4, <3>2, <2>5 DEF Pressure!Cancel
        <5> QED BY <5>1, <4>2, <4>4, BudgetRolledBack
      <4> QED BY <4>3, <4>4
    <3> QED BY <3>1, <3>2
  <2>6. ASSUME NEW w \in Workers, Pressure!Pop(w)
        PROVE  Pressure!QueueInvariant' /\ Pressure!BudgetInvariant'
    <3>1. budget' = budget BY <2>6 DEF Pressure!Pop
    <3> QED BY <3>1, <2>2, <2>6, PopLeaves
  <2>7. ASSUME NEW w \in Workers, Pressure!CompleteBudget(w)
        PROVE  Pressure!QueueInvariant' /\ Pressure!BudgetInvariant'
    <3>1. /\ Pressure!DropBudget(hand[w].item.op)
          /\ queue' = queue /\ wsCounts' = wsCounts /\ cost' = cost
      BY <2>7 DEF Pressure!CompleteBudget
    <3>2. PICK o : o = hand[w].item.op OBVIOUS
    <3>3. Pressure!DropBudget(o) BY <3>1, <3>2 DEF Pressure!DropBudget
    <3> QED BY <3>1, <3>3, <2>1, BudgetDropped
  <2>8. ASSUME NEW w \in Workers, Pressure!CloseCircuit(w) \/ Pressure!Fail(w)
        PROVE  Pressure!QueueInvariant' /\ Pressure!BudgetInvariant'
    BY <2>1, <2>2, <2>8 DEF Pressure!CloseCircuit, Pressure!Fail
  <2>9. CASE Pressure!Tick BY <2>1, <2>2, <2>9 DEF Pressure!Tick
  <2>10. CASE UNCHANGED Pressure!vars BY <2>1, <2>2, <2>10 DEF Pressure!vars
  <2> QED BY <2>3, <2>4, <2>5, <2>6, <2>7, <2>8, <2>9, <2>10 DEF Pressure!Next
<1>3. Pressure!QueueInvariant /\ Pressure!BudgetInvariant => Pressure!QueueAccounting
  BY DEF Pressure!QueueInvariant, Pressure!BudgetInvariant, Pressure!QueueAccounting
<1>4. Pressure!QueueAccounting => QueueAccounting BY DEF QueueAccounting
<1> QED BY <1>1, <1>2, <1>3, <1>4, PTL DEF Pressure!Spec

=============================================================================
