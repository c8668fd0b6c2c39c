--------------------------- MODULE ReleaseProofs ----------------------------
(***************************************************************************)
(* Proofs about what moves evidence and data between stores, for any       *)
(* parameters: the export authorizations, the cutover and release gates    *)
(* and the fixture capture.                                                *)
(***************************************************************************)
EXTENDS MCRelease, FiniteSetTheorems, SequenceTheorems, NaturalsInduction,
        WellFoundedInduction, TLAPS
\* What a process carries depends on its phase.
LEMMA ProcessFields ==
  ASSUME NEW o \in Processes
  PROVE  /\ o.phase \in {"idle", "reserved", "granted", "claimed", "produced", "writing"}
         /\ o = Idle <=> o.phase = "idle"
         /\ o.phase # "idle" => o.auth \in Auths
         /\ o.phase \in {"produced", "writing"} => o.identity \in Identities
BY DEF Processes, Idle

\* A process without a grant holds nothing.
LEMMA IdleProcess == Idle \in Processes /\ Idle.phase = "idle"
BY DEF Idle, Processes

\* Times and grants only grow, and a directory keeps its owner and identity.
ExportGrows ==
  /\ clock \in Nat /\ clock' \in Nat /\ clock <= clock' /\ granted \subseteq granted'
  /\ dest # None => dest' # None /\ dest'.auth = dest.auth /\ dest'.identity = dest.identity

\* A grant that a time rests on stays.
LEMMA GrantStays ==
  ASSUME ExportInvariant, ExportGrows, NEW a, NEW at \in Nat, NEW later \in Nat,
         GrantedBy(a, at), at <= later
  PROVE  \E g \in granted' : g.auth = a /\ g.at <= later
<1>1. PICK g \in granted : g.auth = a /\ g.at <= at
  BY DEF GrantedBy
<1>2. g \in granted' /\ g.at <= later
  BY <1>1 DEF ExportGrows, ExportInvariant
<1> QED BY <1>1, <1>2

\* A process that does not move keeps what it holds, unless its authorization
\* is granted meanwhile.
LEMMA ProcessStays ==
  ASSUME ExportInvariant, ExportGrows, NEW q \in Procs, procs'[q] = procs[q],
         procs[q].phase = "reserved" => \A g \in granted' : g.auth # procs[q].auth
  PROVE  ProcessHolds(q)'
<1>1. PICK o \in Processes : o = procs[q]
  BY DEF ExportInvariant, GrantIsOnce, TypeOK
<1>2. /\ o.phase \in {"granted", "claimed"} => GrantedBy(o.auth, clock)
      /\ o.phase \in {"claimed", "produced", "writing"} => o.auth \in Captures
      /\ o.phase \in {"produced", "writing"} => GrantedBy(o.auth, o.identity.at)
      /\ o.phase = "writing" => dest # None /\ dest.auth = o.auth /\ dest.identity = o.identity
  BY <1>1 DEF ExportInvariant, ProcessHolds
<1>3. o.phase \in {"granted", "claimed"} =>
        \E g \in granted' : g.auth = o.auth /\ g.at <= clock'
  BY <1>2, GrantStays DEF ExportGrows
<1>4. o.phase \in {"produced", "writing"} =>
        \E g \in granted' : g.auth = o.auth /\ g.at <= o.identity.at
  <2>1. o.phase \in {"produced", "writing"} => o.identity.at \in Nat
    BY ProcessFields DEF Identities
  <2> QED BY <1>2, <2>1, GrantStays
<1>5. o.phase = "writing" => dest' # None /\ dest'.auth = o.auth /\ dest'.identity = o.identity
  BY <1>2 DEF ExportGrows
<1>6. procs'[q] = o /\ (o.phase = "reserved" => \A g \in granted' : g.auth # o.auth)
  BY <1>1
<1> QED BY <1>2, <1>3, <1>4, <1>5, <1>6 DEF ProcessHolds, GrantedBy

\* An authorization that was issued keeps its window.
BodiesKept ==
  \A a \in Auths :
    auths[a] # None => /\ auths'[a] # None /\ auths'[a].issued = auths[a].issued
                       /\ auths'[a].expires = auths[a].expires

\* Grants that are given stay single and in their window.
LEMMA GrantsKept ==
  ASSUME ExportInvariant, ExportGrows, BodiesKept, UNCHANGED granted
  PROVE  /\ GrantsAreOnce'
         /\ \A g \in granted' : g.auth \in Auths /\ g.at \in Nat /\ g.at <= clock'
<1>1. \A g \in granted : /\ g.auth \in Auths /\ g.at \in Nat /\ g.at <= clock
                         /\ auths[g.auth] # None
  BY DEF ExportInvariant, SpentIsRefused, Spent
<1>2. \A g \in granted' : g.auth \in Auths /\ g.at \in Nat /\ g.at <= clock'
  BY <1>1 DEF ExportGrows
<1>3. GrantsAreOnce
  BY DEF ExportInvariant, GrantIsOnce
<1> QED BY <1>1, <1>2, <1>3 DEF GrantsAreOnce, BodiesKept

\* Receipts, live plans and the directory keep the grants they rest on.
LEMMA EvidenceKept ==
  ASSUME ExportInvariant, ExportGrows, UNCHANGED <<receipts, verified>>,
         Whole => dest' = dest,
         dest = None => dest' = None
  PROVE  ReceiptsAreWhole' /\ PlansAreGranted' /\ TreeIsGranted'
<1>1. ReceiptsAreWhole /\ PlansAreGranted /\ TreeIsGranted /\ granted \subseteq granted'
  BY DEF ExportInvariant, GrantIsOnce, ExportGrows
<1>2. ReceiptsAreWhole'
  BY <1>1 DEF ReceiptsAreWhole, Whole
<1>3. PlansAreGranted'
  BY <1>1 DEF PlansAreGranted
<1>4. TreeIsGranted'
  BY <1>1 DEF TreeIsGranted, GrantedBy, ExportGrows
<1> QED BY <1>2, <1>3, <1>4

\* What the nonce database refuses, it goes on refusing, when no more is spent.
LEMMA SpentStays ==
  ASSUME ExportInvariant, BodiesKept, UNCHANGED <<store, created>>,
         \A a \in Auths : Spent(a)' => Spent(a)
  PROVE  SpentIsRefused'
BY DEF ExportInvariant, SpentIsRefused, BodiesKept, Valid

\* A process drops its authorization or goes on with it.
LEMMA ProcessMoves ==
  ASSUME ExportInvariant, ExportGrows, NEW p \in Procs, NEW o \in Processes,
         procs' = [procs EXCEPT ![p] = o],
         o.phase # "idle" => procs[p].phase # "idle" /\ o.auth = procs[p].auth,
         \A g \in granted' : g \in granted \/ Holds(p, g.auth),
         ProcessHolds(p)'
  PROVE  /\ procs' \in [Procs -> Processes] /\ HoldersDiffer'
         /\ \A q \in Procs : ProcessHolds(q)'
         /\ \A a \in Auths : Spent(a)' => Spent(a)
<1>1. procs \in [Procs -> Processes]
  BY DEF ExportInvariant, GrantIsOnce, TypeOK
<1>2. /\ procs' \in [Procs -> Processes] /\ procs'[p] = o
      /\ \A q \in Procs \ {p} : procs'[q] = procs[q]
  BY <1>1
<1>3. \A q \in Procs : \A a \in Auths : Holds(q, a)' => Holds(q, a)
  BY <1>2 DEF Holds
<1>4. HoldersDiffer'
  BY <1>3 DEF ExportInvariant, HoldersDiffer
<1>5. \A a \in Auths : Spent(a)' => Spent(a)
  BY <1>3 DEF Spent
<1>6. ASSUME NEW q \in Procs, q # p PROVE ProcessHolds(q)'
  <2>1. procs'[q] = procs[q]
    BY <1>2, <1>6
  <2>2. ASSUME procs[q].phase = "reserved", NEW g \in granted'
        PROVE  g.auth # procs[q].auth
    <3>1. CASE g \in granted
      BY <2>2, <3>1 DEF ExportInvariant, ProcessHolds
    <3>2. CASE Holds(p, g.auth)
      <4>1. procs[q].auth \in Auths
        BY <1>1, <2>2, ProcessFields
      <4>2. g.auth = procs[q].auth => Holds(q, g.auth)
        BY <2>2 DEF Holds
      <4> QED BY <1>6, <3>2, <4>1, <4>2 DEF ExportInvariant, HoldersDiffer
    <3> QED BY <3>1, <3>2
  <2> QED BY <2>1, <2>2, ProcessStays
<1> QED BY <1>2, <1>4, <1>5, <1>6

\* No process moves.
LEMMA ProcessesStay ==
  ASSUME ExportInvariant, ExportGrows, UNCHANGED <<procs, granted>>
  PROVE  /\ procs' \in [Procs -> Processes] /\ HoldersDiffer'
         /\ \A q \in Procs : ProcessHolds(q)'
         /\ \A a \in Auths : Spent(a)' => Spent(a)
<1>1. procs' \in [Procs -> Processes]
  BY DEF ExportInvariant, GrantIsOnce, TypeOK
<1>2. \A q \in Procs : ProcessHolds(q)'
  BY ProcessStays DEF ExportInvariant, ProcessHolds
<1>3. HoldersDiffer' /\ \A a \in Auths : Spent(a)' => Spent(a)
  BY DEF ExportInvariant, HoldersDiffer, Holds, Spent
<1> QED BY <1>1, <1>2, <1>3

-----------------------------------------------------------------------------
(* ExportAuthorization: authorizations, the nonce database and live plans. *)

\* A step of neither a process nor a grant: time passes, a body is issued or
\* signed, evidence is drawn up.
LEMMA BodyStep ==
  ASSUME ExportInvariant, ExportGrows, BodiesKept,
         UNCHANGED <<storeVars, procs, granted, dest, receipts, verified>>,
         auths' \in [Auths -> {auths'[a] : a \in Auths}],
         \A a \in Auths : auths'[a] # None =>
           /\ auths'[a] \in Body(auths'[a].digests)
           /\ auths'[a].kind = "capture" => a \in Captures
  PROVE  ExportInvariant'
<1>0. UNCHANGED <<store, created, backup>>
  BY DEF storeVars
<1>1. /\ procs' \in [Procs -> Processes] /\ HoldersDiffer'
      /\ \A q \in Procs : ProcessHolds(q)'
      /\ \A a \in Auths : Spent(a)' => Spent(a)
  BY ProcessesStay
<1>2. SpentIsRefused'
  BY <1>0, <1>1, SpentStays
<1>3. ReceiptsAreWhole' /\ PlansAreGranted' /\ TreeIsGranted'
  BY EvidenceKept
<1>4. TypeOK' /\ NothingBefore'
  BY <1>0, <1>1 DEF ExportInvariant, GrantIsOnce, TypeOK, ExportGrows, NothingBefore
<1> QED BY <1>1, <1>2, <1>3, <1>4, GrantsKept DEF ExportInvariant, GrantIsOnce

\* Issuing and signing: a window is set once.
LEMMA IssueAndSign ==
  ASSUME ExportAssumption, ExportInvariant,
         \/ \E a \in Captures, digests \in {"zero", "named"} : CreateCapture(a, digests)
         \/ \E a \in Exports : CreateExport(a)
         \/ \E a \in Auths, role \in Roles : Sign(a, role)
  PROVE  ExportInvariant'
<1>0. /\ clock \in Nat /\ auths \in [Auths -> {auths[a] : a \in Auths}] /\ Window \in Nat
      /\ \A a \in Auths : auths[a] # None =>
           /\ auths[a] \in Body(auths[a].digests)
           /\ auths[a].kind = "capture" => a \in Captures
  BY DEF ExportInvariant, GrantIsOnce, TypeOK, ExportAssumption
<1>1. /\ UNCHANGED <<storeVars, procs, granted, dest, receipts, verified, clock>>
  BY DEF CreateCapture, CreateExport, Sign, liveVars
<1>2. ExportGrows
  BY <1>0, <1>1 DEF ExportGrows
<1>3. ASSUME NEW a \in Auths, NEW b, auths' = [auths EXCEPT ![a] = b], b # None,
             b \in Body(b.digests), b.kind = "capture" => a \in Captures,
             auths[a] # None => b.issued = auths[a].issued /\ b.expires = auths[a].expires
      PROVE  ExportInvariant'
  <2>1. /\ auths'[a] = b /\ DOMAIN auths' = Auths
        /\ \A x \in Auths \ {a} : auths'[x] = auths[x]
        /\ auths' = [x \in Auths |-> auths'[x]]
    BY <1>0, <1>3
  <2>2. auths' \in [Auths -> {auths'[x] : x \in Auths}]
    BY <2>1
  <2>3. BodiesKept
    BY <1>3, <2>1 DEF BodiesKept
  <2>4. \A x \in Auths : auths'[x] # None =>
          /\ auths'[x] \in Body(auths'[x].digests)
          /\ auths'[x].kind = "capture" => x \in Captures
    BY <1>0, <1>3, <2>1
  <2> QED BY <1>1, <1>2, <2>2, <2>3, <2>4, BodyStep
<1>4. ASSUME NEW a \in Captures, NEW digests \in {"zero", "named"}, CreateCapture(a, digests)
      PROVE  ExportInvariant'
  <2> DEFINE b == CaptureBody(digests)
  <2>1. a \in Auths /\ auths[a] = None /\ auths' = [auths EXCEPT ![a] = b]
    BY <1>4 DEF CreateCapture, Auths
  <2>2. b # None /\ b \in Body(b.digests)
    BY <1>0 DEF CaptureBody, Body, None
  <2> HIDE DEF b
  <2> QED BY <1>3, <2>1, <2>2
<1>5. ASSUME NEW a \in Exports, CreateExport(a)
      PROVE  ExportInvariant'
  <2> DEFINE b == ExportBody(plan)
  <2>1. a \in Auths /\ auths[a] = None /\ auths' = [auths EXCEPT ![a] = b]
    BY <1>5 DEF CreateExport, Auths
  <2>2. b # None /\ b \in Body(b.digests) /\ b.kind # "capture"
    BY <1>0 DEF ExportBody, Body, None
  <2> HIDE DEF b
  <2> QED BY <1>3, <2>1, <2>2
<1>6. ASSUME NEW a \in Auths, NEW role \in Roles, Sign(a, role)
      PROVE  ExportInvariant'
  <2> DEFINE o == auths[a]
             b == [o EXCEPT !.sigs = o.sigs \cup {role}]
  <2>1. o # None /\ auths' = [auths EXCEPT ![a] = b]
    BY <1>6 DEF Sign
  <2>2. o \in Body(o.digests)
    BY <1>0, <2>1
  <2> HIDE DEF o
  <2>3. /\ b \in Body(b.digests) /\ b.kind = o.kind /\ b.issued = o.issued
        /\ b.expires = o.expires
    BY <2>2 DEF Body
  <2>4. b # None
    BY <2>3, <2>2 DEF None, Body
  <2> HIDE DEF b
  <2> QED BY <1>0, <1>3, <2>1, <2>3, <2>4 DEF o
<1> QED BY <1>4, <1>5, <1>6

\* The file of the nonce database is made, lost, restored and activated: a copy
\* refuses everything until its floor is later than every authorization issued.
LEMMA StoreStep ==
  ASSUME ExportInvariant,
         \/ Precreate \/ ApplyV1 \/ Backup \/ LoseStore \/ Restore
         \/ ActivateRestored(clock)
  PROVE  ExportInvariant'
<1>0. /\ TypeOK /\ clock \in Nat /\ SpentIsRefused /\ store \in Databases /\ backup \in Databases
  BY DEF ExportInvariant, GrantIsOnce, TypeOK
<1>1. UNCHANGED <<clock, auths, procs, dest, verified, granted, receipts>>
  BY DEF Precreate, ApplyV1, Backup, LoseStore, Restore, ActivateRestored, liveVars
<1>2. ExportGrows /\ BodiesKept
  BY <1>0, <1>1 DEF ExportGrows, BodiesKept
<1>3. /\ procs' \in [Procs -> Processes] /\ HoldersDiffer'
      /\ \A q \in Procs : ProcessHolds(q)'
      /\ \A a \in Auths : Spent(a)' => Spent(a)
  BY <1>1, <1>2, ProcessesStay
<1>4. ReceiptsAreWhole' /\ PlansAreGranted' /\ TreeIsGranted'
  BY <1>1, <1>2, EvidenceKept
<1>5. /\ store' \in Databases /\ backup' \in Databases /\ created' \in BOOLEAN
      /\ created => created'
      /\ \A a \in Auths : created /\ store.state # "empty" /\ auths[a] # None =>
           /\ store'.state # "empty" /\ (Valid(store') =>
                \/ store' = store
                \/ store'.state = "RESTORE_QUARANTINED"
                \/ auths[a].issued < store'.floor)
  <2>1. CASE Precreate
    BY <1>0, <2>1 DEF Precreate, Databases, Absent, TypeOK
  <2>2. CASE ApplyV1
    BY <1>0, <2>2 DEF ApplyV1, Databases, TypeOK
  <2>3. CASE Backup
    BY <1>0, <2>3 DEF Backup, TypeOK
  <2>4. CASE LoseStore
    BY <1>0, <2>4 DEF LoseStore, Databases, Absent, Valid, TypeOK
  <2>5. CASE Restore
    BY <1>0, <2>5 DEF Restore, Databases, Absent, Valid, TypeOK
  <2>6. CASE ActivateRestored(clock)
    <3>1. /\ store' = [store EXCEPT !.state = "ACTIVE", !.floor = clock]
          /\ store.state = "RESTORE_QUARANTINED" /\ UNCHANGED <<backup, created>>
          /\ \A a \in Auths : auths[a] # None => auths[a].issued < clock
      BY <2>6 DEF ActivateRestored, FloorIsSafe
    <3>2. store \in [state : {"ACTIVE", "RESTORE_QUARANTINED"}, floor : Nat,
                    consumed : SUBSET Auths]
      BY <1>0, <3>1 DEF Databases, Absent
    <3>3. store' \in Databases /\ store'.state = "ACTIVE" /\ store'.floor = clock
      BY <1>0, <3>1, <3>2 DEF Databases
    <3> QED BY <1>0, <3>1, <3>3 DEF TypeOK
  <2> QED BY <2>1, <2>2, <2>3, <2>4, <2>5, <2>6
<1>6. SpentIsRefused'
  BY <1>0, <1>1, <1>3, <1>5 DEF SpentIsRefused, Valid
<1>7. TypeOK'
  BY <1>0, <1>1, <1>3, <1>5 DEF TypeOK
<1>8. NothingBefore'
  BY DEF ExportInvariant, NothingBefore, Precreate, ApplyV1, Backup, LoseStore, Restore,
         ActivateRestored, Valid, Absent
<1> QED BY <1>1, <1>2, <1>3, <1>4, <1>6, <1>7, <1>8, GrantsKept
        DEF ExportInvariant, GrantIsOnce

\* Time passes; proofs and plans are drawn up; a plan is verified against the
\* directory, whose identity is fresh.
LEMMA LiveStep ==
  ASSUME ExportAssumption, ExportInvariant,
         \/ Tick \/ ProveQuiescence \/ DrawUpPlan \/ UNCHANGED vars
         \/ \E a \in Exports : VerifyLivePlan(a)
  PROVE  ExportInvariant'
<1>0. /\ TypeOK /\ clock \in Nat /\ auths \in [Auths -> {auths[a] : a \in Auths}]
      /\ \A a \in Auths : auths[a] # None =>
           /\ auths[a] \in Body(auths[a].digests)
           /\ auths[a].kind = "capture" => a \in Captures
  BY DEF ExportInvariant, GrantIsOnce, TypeOK
<1>1. CASE Tick \/ ProveQuiescence \/ DrawUpPlan \/ UNCHANGED vars
  <2>1. /\ UNCHANGED <<auths, storeVars, procs, granted, dest, receipts, verified>>
        /\ clock' \in {clock, clock + 1}
    BY <1>1 DEF Tick, ProveQuiescence, DrawUpPlan, vars, liveVars
  <2>2. ExportGrows /\ BodiesKept
    BY <1>0, <2>1 DEF ExportGrows, BodiesKept
  <2> QED BY <1>0, <2>1, <2>2, BodyStep
<1>2. ASSUME NEW a \in Exports, VerifyLivePlan(a)
      PROVE  ExportInvariant'
  <2> DEFINE v == [auth |-> a, at |-> clock, identity |-> dest.identity]
  <2>1. /\ Whole /\ clock - dest.identity.at <= Window
        /\ verified' = verified \cup {v}
        /\ UNCHANGED <<clock, auths, storeVars, procs, dest, granted, receipts>>
    BY <1>2 DEF VerifyLivePlan, Fresh
  <2>2. ExportGrows /\ BodiesKept /\ UNCHANGED <<store, created, backup>>
    BY <1>0, <2>1 DEF ExportGrows, BodiesKept, storeVars
  <2>3. /\ procs' \in [Procs -> Processes] /\ HoldersDiffer'
        /\ \A q \in Procs : ProcessHolds(q)'
        /\ \A x \in Auths : Spent(x)' => Spent(x)
    BY <2>1, <2>2, ProcessesStay
  <2>4. v.at = clock /\ v.identity = dest.identity
    OBVIOUS
  <2>5. \E g \in granted : g.auth \in Captures /\ g.at <= dest.identity.at
    BY <2>1 DEF ExportInvariant, TreeIsGranted, GrantedBy, Whole
  <2> HIDE DEF v
  <2>6. PlansAreGranted'
    BY <2>1, <2>4, <2>5 DEF ExportInvariant, GrantIsOnce, PlansAreGranted
  <2>7. ReceiptsAreWhole' /\ TreeIsGranted' /\ SpentIsRefused'
    BY <2>1, <2>2, <2>3, SpentStays
       DEF ExportInvariant, GrantIsOnce, ReceiptsAreWhole, TreeIsGranted, GrantedBy, Whole
  <2>8. TypeOK' /\ NothingBefore'
    BY <1>0, <2>1, <2>2, <2>3 DEF TypeOK, ExportInvariant, NothingBefore
  <2> QED BY <1>0, <2>1, <2>2, <2>3, <2>6, <2>7, <2>8, GrantsKept
          DEF ExportInvariant, GrantIsOnce
<1> QED BY <1>1, <1>2

-----------------------------------------------------------------------------
(* ExportAuthorization: processes.                                         *)

\* reserve_and_consume: only what the database does not refuse is reserved, and
\* then it is consumed.
LEMMA Reserves ==
  ASSUME ExportInvariant, NEW p \in Procs, NEW a \in Auths, ReserveAndConsume(p, a)
  PROVE  ExportInvariant'
<1>0. /\ TypeOK /\ clock \in Nat /\ SpentIsRefused /\ HoldersDiffer /\ store \in Databases
      /\ procs \in [Procs -> Processes]
  BY DEF ExportInvariant, GrantIsOnce, TypeOK
<1> DEFINE refused == store.state = "RESTORE_QUARANTINED" \/ auths[a].issued < store.floor
           o == [phase |-> "reserved", auth |-> a]
<1>1. /\ procs[p] = Idle /\ auths[a] # None /\ Valid(store) /\ a \notin store.consumed
      /\ store' = [store EXCEPT !.consumed = store.consumed \cup {a}]
      /\ procs' = IF refused THEN procs ELSE [procs EXCEPT ![p] = o]
      /\ UNCHANGED <<clock, auths, created, backup, dest, verified, granted, receipts>>
  BY DEF ReserveAndConsume, liveVars
<1>2. store \in [state : {"ACTIVE", "RESTORE_QUARANTINED"}, floor : Nat, consumed : SUBSET Auths]
  BY <1>0, <1>1 DEF Databases, Absent, Valid
<1>3. /\ store' \in Databases /\ store'.state = store.state /\ store'.floor = store.floor
      /\ store'.consumed = store.consumed \cup {a}
  BY <1>1, <1>2 DEF Databases
<1>4. o \in Processes /\ o.phase = "reserved" /\ o.auth = a
  BY DEF Processes
<1>5. ~refused => ~Spent(a)
  BY <1>0, <1>1 DEF SpentIsRefused
<1> HIDE DEF o, refused
<1>6. ExportGrows /\ BodiesKept
  BY <1>0, <1>1 DEF ExportGrows, BodiesKept
<1>7. ReceiptsAreWhole' /\ PlansAreGranted' /\ TreeIsGranted' /\ NothingBefore'
  BY <1>1, <1>6, EvidenceKept DEF ExportInvariant, NothingBefore, Valid, Absent
<1>8. CASE refused
  <2>1. UNCHANGED procs
    BY <1>1, <1>8
  <2>2. /\ procs' \in [Procs -> Processes] /\ HoldersDiffer'
        /\ \A q \in Procs : ProcessHolds(q)'
        /\ \A x \in Auths : Spent(x)' => Spent(x)
    BY <1>1, <1>6, <2>1, ProcessesStay
  <2>3. SpentIsRefused'
    BY <1>0, <1>1, <1>3, <2>2 DEF SpentIsRefused, Valid
  <2>4. TypeOK'
    BY <1>0, <1>1, <1>3, <2>2 DEF TypeOK
  <2> QED BY <1>1, <1>6, <1>7, <2>2, <2>3, <2>4, GrantsKept DEF ExportInvariant, GrantIsOnce
<1>9. CASE ~refused
  <2>1. /\ procs' \in [Procs -> Processes] /\ procs'[p] = o
        /\ \A q \in Procs \ {p} : procs'[q] = procs[q]
    BY <1>0, <1>1, <1>4, <1>9
  <2>2. ~Spent(a)
    BY <1>5, <1>9
  <2>3. /\ \A q \in Procs \ {p} : \A x \in Auths : Holds(q, x)' <=> Holds(q, x)
        /\ \A x \in Auths : Holds(p, x)' => x = a
    BY <1>4, <2>1 DEF Holds
  <2>4. HoldersDiffer'
    <3> SUFFICES ASSUME NEW q \in Procs, NEW s \in Procs, NEW x \in Auths,
                        Holds(q, x)', Holds(s, x)'
                 PROVE  q = s
      BY DEF HoldersDiffer
    <3>1. CASE q # p /\ s # p
      BY <1>0, <2>3, <3>1 DEF HoldersDiffer
    <3>2. CASE q = p /\ s # p
      BY <2>2, <2>3, <3>2 DEF Spent
    <3>3. CASE q # p /\ s = p
      BY <2>2, <2>3, <3>3 DEF Spent
    <3> QED BY <3>1, <3>2, <3>3
  <2>5. \A x \in Auths : Spent(x)' => Spent(x) \/ x = a
    BY <1>1, <2>3 DEF Spent
  <2>6. created /\ store.state # "empty"
    BY <1>1 DEF ExportInvariant, NothingBefore, Valid, Absent
  <2>7. SpentIsRefused'
    <3> SUFFICES ASSUME NEW x \in Auths, Spent(x)'
                 PROVE  /\ created' /\ store'.state # "empty" /\ auths'[x] # None
                        /\ Valid(store') => \/ x \in store'.consumed
                                            \/ store'.state = "RESTORE_QUARANTINED"
                                            \/ auths'[x].issued < store'.floor
      BY DEF SpentIsRefused, Valid
    <3>1. CASE x = a
      BY <1>1, <1>3, <2>6, <3>1
    <3>2. CASE x # a
      BY <1>0, <1>1, <1>3, <2>5, <3>2 DEF SpentIsRefused, Valid
    <3> QED BY <3>1, <3>2
  <2>8. ASSUME NEW q \in Procs PROVE ProcessHolds(q)'
    <3>1. CASE q = p
      <4>1. \A g \in granted : g.auth # a
        BY <2>2 DEF Spent
      <4> QED BY <1>1, <1>4, <2>1, <3>1, <4>1 DEF ProcessHolds
    <3>2. CASE q # p
      <4>1. procs[q].phase = "reserved" => \A g \in granted' : g.auth # procs[q].auth
        BY <1>1 DEF ExportInvariant, ProcessHolds
      <4> QED BY <1>6, <2>1, <3>2, <4>1, ProcessStays
    <3> QED BY <3>1, <3>2
  <2>9. TypeOK'
    BY <1>0, <1>1, <1>3, <2>1 DEF TypeOK
  <2> QED BY <1>1, <1>6, <1>7, <2>4, <2>7, <2>8, <2>9, GrantsKept
          DEF ExportInvariant, GrantIsOnce
<1> QED BY <1>8, <1>9

\* The grant of a reserved authorization is its first, inside the window and
\* with both signatures.
LEMMA Grants ==
  ASSUME ExportInvariant, NEW p \in Procs, NEW expected \in BOOLEAN, IssueGrant(p, expected)
  PROVE  ExportInvariant'
<1>0. /\ TypeOK /\ clock \in Nat /\ GrantsAreOnce /\ SpentIsRefused /\ NothingBefore
      /\ procs \in [Procs -> Processes] /\ ProcessHolds(p) /\ procs[p] \in Processes
      /\ \A g \in granted : g.auth \in Auths /\ g.at \in Nat /\ g.at <= clock
  BY DEF ExportInvariant, GrantIsOnce, TypeOK
<1> DEFINE a == procs[p].auth
           good == expected /\ InWindow(a) /\ BindSignatures(a)
           n == [auth |-> a, by |-> p, at |-> clock, sigs |-> auths[a].sigs]
           o == IF good THEN [phase |-> "granted", auth |-> a] ELSE Idle
<1>1. /\ procs[p].phase = "reserved" /\ procs' = [procs EXCEPT ![p] = o]
      /\ granted' = IF good THEN granted \cup {n} ELSE granted
      /\ UNCHANGED <<clock, auths, store, created, backup, dest, verified, receipts>>
  BY DEF IssueGrant, storeVars, liveVars
<1>2. a \in Auths /\ Holds(p, a) /\ \A g \in granted : g.auth # a
  BY <1>0, <1>1, ProcessFields DEF Holds, ProcessHolds
<1>3. auths[a] # None
  BY <1>0, <1>2 DEF SpentIsRefused, Spent
<1>4. n.auth = a /\ n.at = clock /\ n.sigs = auths[a].sigs
  OBVIOUS
<1>5. good => auths[a].issued <= clock /\ clock < auths[a].expires /\ auths[a].sigs = Roles
  BY DEF InWindow, BindSignatures
<1>6. /\ o \in Processes /\ (o.phase # "idle" => o.auth = a /\ o.phase = "granted" /\ good)
  BY <1>2, IdleProcess DEF Processes
<1> HIDE DEF n, o, good, a
<1>7. ExportGrows /\ BodiesKept
  BY <1>0, <1>1 DEF ExportGrows, BodiesKept
<1>8. ReceiptsAreWhole' /\ PlansAreGranted' /\ TreeIsGranted'
  BY <1>1, <1>7, EvidenceKept
<1>9. GrantsAreOnce'
  BY <1>0, <1>1, <1>2, <1>4, <1>5 DEF GrantsAreOnce
<1>10. \A g \in granted' : g.auth \in Auths /\ g.at \in Nat /\ g.at <= clock'
  BY <1>0, <1>1, <1>2, <1>4
<1>11. procs'[p] = o /\ (good => n \in granted')
  BY <1>0, <1>1
<1>12. ProcessHolds(p)'
  <2>1. o.phase \in {"idle", "granted"}
    BY <1>6
  <2>2. o.phase = "granted" => n \in granted' /\ n.auth = o.auth /\ n.at <= clock'
    BY <1>0, <1>1, <1>4, <1>6, <1>11
  <2> QED BY <1>11, <2>1, <2>2 DEF ProcessHolds, GrantedBy
<1>13. \A g \in granted' : g \in granted \/ Holds(p, g.auth)
  BY <1>1, <1>2, <1>4
<1>14. /\ procs' \in [Procs -> Processes] /\ HoldersDiffer'
       /\ \A q \in Procs : ProcessHolds(q)'
       /\ \A x \in Auths : Spent(x)' => Spent(x)
  BY <1>1, <1>6, <1>7, <1>12, <1>13, ProcessMoves DEF a
<1>15. SpentIsRefused'
  BY <1>1, <1>7, <1>14, SpentStays
<1>16. TypeOK' /\ NothingBefore'
  BY <1>0, <1>1, <1>14 DEF TypeOK, NothingBefore
<1> QED BY <1>1, <1>8, <1>9, <1>10, <1>14, <1>15, <1>16 DEF ExportInvariant, GrantIsOnce

\* A process moves without a new grant.
LEMMA CaptureStep ==
  ASSUME ExportInvariant, NEW p \in Procs, NEW o \in Processes,
         procs' = [procs EXCEPT ![p] = o],
         o.phase # "idle" => procs[p].phase # "idle" /\ o.auth = procs[p].auth,
         ProcessHolds(p)', ExportGrows,
         ReceiptsAreWhole', TreeIsGranted', dest' \in Trees \cup {None},
         UNCHANGED <<clock, auths, store, created, backup, verified, granted>>
  PROVE  ExportInvariant'
<1>0. TypeOK /\ clock \in Nat /\ NothingBefore /\ PlansAreGranted
  BY DEF ExportInvariant, GrantIsOnce, TypeOK
<1>1. BodiesKept /\ PlansAreGranted' /\ NothingBefore'
  BY <1>0 DEF BodiesKept, PlansAreGranted, NothingBefore
<1>2. /\ procs' \in [Procs -> Processes] /\ HoldersDiffer'
      /\ \A q \in Procs : ProcessHolds(q)'
      /\ \A a \in Auths : Spent(a)' => Spent(a)
  BY ProcessMoves
<1>3. SpentIsRefused'
  BY <1>1, <1>2, SpentStays
<1>4. TypeOK'
  BY <1>0, <1>2 DEF TypeOK
<1> QED BY <1>1, <1>2, <1>3, <1>4, GrantsKept DEF ExportInvariant, GrantIsOnce

\* The grant is claimed, the catalog read, or the process stops.
LEMMA ClaimAndQuery ==
  ASSUME ExportInvariant, NEW p \in Procs,
         \/ Claim(p) \/ Crash(p) \/ \E malformed \in {{}, {"columns"}} : QueryCatalog(p, malformed)
  PROVE  ExportInvariant'
<1>0. /\ TypeOK /\ clock \in Nat /\ procs \in [Procs -> Processes] /\ procs[p] \in Processes
      /\ ProcessHolds(p) /\ dest \in Trees \cup {None} /\ SpentIsRefused
      /\ ReceiptsAreWhole /\ TreeIsGranted
  BY DEF ExportInvariant, GrantIsOnce, TypeOK
<1>1. UNCHANGED <<clock, auths, store, created, backup, dest, verified, granted, receipts>>
  BY DEF Claim, Crash, QueryCatalog, storeVars, liveVars
<1>2. ExportGrows
  BY <1>0, <1>1 DEF ExportGrows
<1>3. ReceiptsAreWhole' /\ TreeIsGranted' /\ dest' \in Trees \cup {None}
  BY <1>0, <1>1, <1>2, EvidenceKept
<1>4. ASSUME procs' = [procs EXCEPT ![p] = Idle] PROVE ExportInvariant'
  <2>1. procs'[p] = Idle
    BY <1>0, <1>4
  <2>2. ProcessHolds(p)'
    BY <2>1, IdleProcess DEF ProcessHolds
  <2> QED BY <1>1, <1>2, <1>3, <1>4, <2>2, IdleProcess, CaptureStep
<1>5. CASE Crash(p)
  BY <1>4, <1>5 DEF Crash
<1>6. CASE Claim(p)
  <2> DEFINE a == procs[p].auth
             o == [phase |-> "claimed", auth |-> a]
  <2>1. /\ procs[p].phase = "granted"
        /\ \/ procs' = [procs EXCEPT ![p] = Idle]
           \/ procs' = [procs EXCEPT ![p] = o] /\ auths[a].kind = "capture"
    BY <1>6 DEF Claim
  <2>2. a \in Auths /\ GrantedBy(a, clock)
    BY <1>0, <2>1, ProcessFields DEF ProcessHolds
  <2>3. auths[a] # None
    BY <1>0, <2>1, <2>2 DEF SpentIsRefused, Spent, Holds
  <2>4. o \in Processes /\ o.phase = "claimed" /\ o.auth = a
    BY <2>2 DEF Processes
  <2> HIDE DEF o, a
  <2>5. ASSUME procs' = [procs EXCEPT ![p] = o], auths[a].kind = "capture"
        PROVE  ExportInvariant'
    <3>1. procs'[p] = o /\ a \in Captures
      BY <1>0, <2>2, <2>3, <2>5 DEF ExportInvariant
    <3>2. ProcessHolds(p)'
      BY <1>1, <2>2, <2>4, <3>1 DEF ProcessHolds, GrantedBy
    <3> QED BY <1>1, <1>2, <1>3, <2>1, <2>4, <2>5, <3>2, CaptureStep DEF a
  <2> QED BY <1>4, <2>1, <2>5
<1>7. ASSUME NEW malformed \in {{}, {"columns"}}, QueryCatalog(p, malformed)
      PROVE  ExportInvariant'
  <2> DEFINE a == procs[p].auth
             i == IdentityReceipt(a)
             o == [phase |-> "produced", auth |-> a, identity |-> i]
  <2>1. /\ procs[p].phase = "claimed"
        /\ procs' = [procs EXCEPT ![p] = Idle] \/ procs' = [procs EXCEPT ![p] = o]
    BY <1>7 DEF QueryCatalog
  <2>2. a \in Captures /\ a \in Auths /\ GrantedBy(a, clock)
    BY <1>0, <2>1, ProcessFields DEF ProcessHolds
  <2>3. i \in Identities /\ i.at = clock
    BY <1>0, <2>2 DEF IdentityReceipt, Identities
  <2> HIDE DEF i
  <2>4. o \in Processes /\ o.phase = "produced" /\ o.auth = a /\ o.identity = i
    BY <2>2, <2>3 DEF Processes
  <2> HIDE DEF o, a
  <2>5. ASSUME procs' = [procs EXCEPT ![p] = o] PROVE ExportInvariant'
    <3>1. procs'[p] = o
      BY <1>0, <2>5
    <3>2. ProcessHolds(p)'
      BY <1>1, <2>2, <2>3, <2>4, <3>1 DEF ProcessHolds, GrantedBy
    <3> QED BY <1>1, <1>2, <1>3, <2>1, <2>4, <2>5, <3>2, CaptureStep DEF a
  <2> QED BY <1>4, <2>1, <2>5
<1> QED BY <1>5, <1>6, <1>7

\* The directory is made once, filled by its maker, and receipted when whole.
LEMMA WriteTree ==
  ASSUME ExportAssumption, ExportInvariant, NEW p \in Procs,
         MakeDirectory(p) \/ PublishFile(p) \/ CaptureReceipt(p)
  PROVE  ExportInvariant'
<1>0. /\ TypeOK /\ clock \in Nat /\ procs \in [Procs -> Processes] /\ procs[p] \in Processes
      /\ ProcessHolds(p) /\ dest \in Trees \cup {None} /\ MaxFiles \in Nat
      /\ ReceiptsAreWhole /\ TreeIsGranted /\ PlansAreGranted
  BY DEF ExportInvariant, GrantIsOnce, TypeOK, ExportAssumption
<1>1. UNCHANGED <<clock, auths, store, created, backup, verified, granted>>
  BY DEF MakeDirectory, PublishFile, CaptureReceipt, storeVars, liveVars
<1>2. ASSUME procs' = [procs EXCEPT ![p] = Idle], UNCHANGED dest, ReceiptsAreWhole'
      PROVE  ExportInvariant'
  <2>1. procs'[p] = Idle
    BY <1>0, <1>2
  <2>2. ProcessHolds(p)'
    BY <2>1, IdleProcess DEF ProcessHolds
  <2>3. ExportGrows /\ TreeIsGranted'
    BY <1>0, <1>1, <1>2 DEF ExportGrows, TreeIsGranted, GrantedBy
  <2> QED BY <1>0, <1>1, <1>2, <2>2, <2>3, IdleProcess, CaptureStep
<1>3. CASE MakeDirectory(p)
  <2> DEFINE a == procs[p].auth
             i == procs[p].identity
             o == [phase |-> "writing", auth |-> a, identity |-> i]
  <2>1. procs[p].phase = "produced" /\ UNCHANGED receipts
    BY <1>3 DEF MakeDirectory
  <2>2. a \in Auths /\ a \in Captures /\ i \in Identities /\ GrantedBy(a, i.at)
    BY <1>0, <2>1, ProcessFields DEF ProcessHolds
  <2>3. CASE dest # None
    <3>1. UNCHANGED dest /\ procs' = [procs EXCEPT ![p] = Idle]
      BY <1>3, <2>3 DEF MakeDirectory
    <3>2. ReceiptsAreWhole'
      BY <1>0, <1>1, <2>1, <3>1 DEF ReceiptsAreWhole, Whole
    <3> QED BY <1>2, <3>1, <3>2
  <2>4. CASE dest = None
    <3>1. dest' = OutputTree(a, i) /\ procs' = [procs EXCEPT ![p] = o]
      BY <1>3, <2>4 DEF MakeDirectory
    <3>2. dest' \in Trees /\ dest' # None /\ dest'.auth = a /\ dest'.identity = i
      BY <1>0, <2>2, <3>1 DEF OutputTree, Trees, None
    <3>3. o \in Processes /\ o.phase = "writing" /\ o.auth = a /\ o.identity = i
      BY <2>2 DEF Processes
    <3> HIDE DEF o, a, i
    <3>4. procs'[p] = o
      BY <1>0, <3>1
    <3>5. ProcessHolds(p)' /\ TreeIsGranted'
      BY <1>1, <2>2, <3>2, <3>3, <3>4 DEF ProcessHolds, TreeIsGranted, GrantedBy
    <3>6. receipts = {} /\ ReceiptsAreWhole' /\ ExportGrows
      BY <1>0, <1>1, <2>1, <2>4 DEF ReceiptsAreWhole, Whole, ExportGrows
    <3> QED BY <1>1, <2>1, <3>1, <3>2, <3>3, <3>5, <3>6, CaptureStep DEF a
  <2> QED BY <2>3, <2>4
<1>4. CASE PublishFile(p)
  <2>1. /\ procs[p].phase = "writing" /\ dest.files < MaxFiles
        /\ dest' = [dest EXCEPT !.files = dest.files + 1] /\ UNCHANGED <<procs, receipts>>
    BY <1>4 DEF PublishFile
  <2>2. dest # None /\ dest \in Trees
    BY <1>0, <2>1 DEF ProcessHolds
  <2>3. dest' \in Trees /\ dest'.auth = dest.auth /\ dest'.identity = dest.identity
    BY <1>0, <2>1, <2>2 DEF Trees
  <2>4. dest' # None
    BY <2>3 DEF Trees, None
  <2>5. ~Whole /\ receipts = {}
    BY <1>0, <2>1, <2>2 DEF Whole, Trees, ReceiptsAreWhole
  <2>6. ExportGrows /\ BodiesKept
    BY <1>0, <1>1, <2>3, <2>4 DEF ExportGrows, BodiesKept
  <2>7. ReceiptsAreWhole' /\ PlansAreGranted' /\ TreeIsGranted'
    BY <1>1, <2>1, <2>2, <2>5, <2>6, EvidenceKept
  <2>8. /\ procs' \in [Procs -> Processes] /\ HoldersDiffer'
        /\ \A q \in Procs : ProcessHolds(q)'
        /\ \A a \in Auths : Spent(a)' => Spent(a)
    BY <1>1, <2>1, <2>6, ProcessesStay
  <2>9. SpentIsRefused' /\ NothingBefore'
    BY <1>1, <2>6, <2>8, SpentStays DEF ExportInvariant, NothingBefore
  <2>10. TypeOK'
    BY <1>0, <1>1, <2>3, <2>8 DEF TypeOK
  <2> QED BY <1>1, <2>6, <2>7, <2>8, <2>9, <2>10, GrantsKept DEF ExportInvariant, GrantIsOnce
<1>5. CASE CaptureReceipt(p)
  <2> DEFINE a == procs[p].auth
             i == procs[p].identity
             r == Receipt(a, i)
  <2>1. /\ procs[p].phase = "writing" /\ dest.files = MaxFiles
        /\ receipts' = receipts \cup {r} /\ procs' = [procs EXCEPT ![p] = Idle]
        /\ UNCHANGED dest
    BY <1>5 DEF CaptureReceipt
  <2>2. /\ dest # None /\ dest.auth = a /\ dest.identity = i /\ GrantedBy(a, i.at)
    BY <1>0, <2>1 DEF ProcessHolds
  <2>3. r.auth = a /\ r.identity = i
    BY DEF Receipt
  <2> HIDE DEF r, a, i
  <2>4. ReceiptsAreWhole'
    BY <1>0, <1>1, <2>1, <2>2, <2>3 DEF ReceiptsAreWhole, GrantedBy, Whole
  <2> QED BY <1>2, <2>1, <2>4
<1> QED BY <1>3, <1>4, <1>5

\* One grant per authorization, whoever presents it, crashes, or restores an
\* older nonce database; one whole capture per receipt, under such a grant; and
\* live plans that rest on a granted capture, for any number of authorizations
\* and processes (reserve_and_consume, the capture service,
\* verify_live_export_plan).
THEOREM GrantStaysOnce ==
  ASSUME ExportAssumption
  PROVE  Spec => []GrantIsOnce
<1>1. Init => ExportInvariant
  <2> SUFFICES ASSUME Init PROVE ExportInvariant
    OBVIOUS
  <2>1. /\ TypeOK
    BY IdleProcess DEF Init, TypeOK, Databases
  <2>2. GrantsAreOnce /\ ReceiptsAreWhole /\ PlansAreGranted
    BY DEF Init, GrantsAreOnce, ReceiptsAreWhole, PlansAreGranted
  <2>3. \A p \in Procs : procs[p].phase = "idle"
    BY IdleProcess DEF Init
  <2>4. SpentIsRefused /\ HoldersDiffer /\ TreeIsGranted /\ NothingBefore
    BY <2>3 DEF Init, SpentIsRefused, Spent, Holds, HoldersDiffer, TreeIsGranted, NothingBefore
  <2>5. \A p \in Procs : ProcessHolds(p)
    BY <2>3 DEF ProcessHolds
  <2>6. /\ \A g \in granted : g.auth \in Auths /\ g.at \in Nat /\ g.at <= clock
        /\ \A a \in Auths : auths[a] # None /\ auths[a].kind = "capture" => a \in Captures
    BY DEF Init
  <2> QED BY <2>1, <2>2, <2>4, <2>5, <2>6 DEF ExportInvariant, GrantIsOnce
<1>2. ExportInvariant /\ [Next]_vars => ExportInvariant'
  <2> SUFFICES ASSUME ExportInvariant, [Next]_vars PROVE ExportInvariant'
    OBVIOUS
  <2>1. CASE \/ Tick \/ ProveQuiescence \/ DrawUpPlan \/ UNCHANGED vars
             \/ \E a \in Exports : VerifyLivePlan(a)
    BY <2>1, LiveStep
  <2>2. CASE \/ \E a \in Captures, digests \in {"zero", "named"} : CreateCapture(a, digests)
             \/ \E a \in Exports : CreateExport(a)
             \/ \E a \in Auths, role \in Roles : Sign(a, role)
    BY <2>2, IssueAndSign
  <2>3. CASE \/ Precreate \/ ApplyV1 \/ Backup \/ LoseStore \/ Restore
             \/ ActivateRestored(clock)
    BY <2>3, StoreStep
  <2>4. ASSUME NEW p \in Procs,
               \/ \E a \in Auths : ReserveAndConsume(p, a)
               \/ \E expected \in BOOLEAN : IssueGrant(p, expected)
        PROVE  ExportInvariant'
    BY <2>4, Reserves, Grants
  <2>5. ASSUME NEW p \in Procs,
               \/ Claim(p) \/ Crash(p)
               \/ \E malformed \in {{}, {"columns"}} : QueryCatalog(p, malformed)
        PROVE  ExportInvariant'
    BY <2>5, ClaimAndQuery
  <2>6. ASSUME NEW p \in Procs, MakeDirectory(p) \/ PublishFile(p) \/ CaptureReceipt(p)
        PROVE  ExportInvariant'
    BY <2>6, WriteTree
  <2> QED BY <2>1, <2>2, <2>3, <2>4, <2>5, <2>6 DEF Next
<1>3. ExportInvariant => GrantIsOnce
  BY DEF ExportInvariant
<1> QED BY <1>1, <1>2, <1>3, PTL DEF Spec

-----------------------------------------------------------------------------
(* SecondBrainRelease: the gates of a cutover and of a product release.    *)

\* The states that a cohort passes through before its route is switched.
LEMMA PreparedStates ==
  ASSUME NEW s \in DOMAIN Cutover!Transitions, NEW next \in Cutover!Transitions[s]
  PROVE  /\ next \in DOMAIN Cutover!Transitions
         /\ s \in {"ROUTE_SWITCHED_NO_MUTATION"} \cup Cutover!Mutated =>
              next \in {"ROLLED_BACK_RECONCILE"} \cup Cutover!Mutated
BY DEF Cutover!Transitions, Cutover!Mutated

\* The gates that move a cohort keep the invariant and take a CutoverStep.
LEMMA CohortMoves ==
  ASSUME Cutover!ReleaseAssumption, Cutover!ReleaseInvariant,
         \/ \E next \in DOMAIN Cutover!Transitions : Cutover!Prepare(next)
         \/ \E s \in MigrationSources : Cutover!RebuildCohort(s)
         \/ Cutover!ExternalRollback \/ Cutover!Mutate \/ Cutover!CloseRollback
  PROVE  Cutover!ReleaseInvariant' /\ Cutover!CutoverStep
<1> USE DEF Cutover!ReleaseAssumption
<1>1. CASE \E next \in DOMAIN Cutover!Transitions : Cutover!Prepare(next)
  <2>1. PICK next \in DOMAIN Cutover!Transitions : Cutover!Prepare(next)
    BY <1>1
  <2>2. cohort'.state = next
        /\ next \notin {"ROUTE_SWITCHED_NO_MUTATION"} \cup Cutover!Mutated
    BY <2>1 DEF Cutover!Prepare, Cutover!Mutated, Cutover!ReleaseInvariant, Cutover!TypeOK
  <2>3. cohort.state \notin {"ROUTE_SWITCHED_NO_MUTATION"} \cup Cutover!Mutated
    BY <2>1, PreparedStates, <2>2
       DEF Cutover!Prepare, Cutover!ReleaseInvariant, Cutover!TypeOK
  <2>4. Cutover!ReleaseInvariant'
    BY <2>1, <2>2, <2>3
       DEF Cutover!Prepare, Cutover!ReleaseInvariant, Cutover!TypeOK,
           Cutover!RouteFollowsCohort
  <2> QED BY <2>1, <2>2, <2>3, <2>4
             DEF Cutover!Prepare, Cutover!CutoverStep, Cutover!ReleaseInvariant,
                 Cutover!Mutated
<1>2. CASE \E s \in MigrationSources : Cutover!RebuildCohort(s)
  <2>1. PICK s \in MigrationSources : Cutover!RebuildCohort(s)
    BY <1>2
  <2>2. cohort' \in [source : MigrationSources, state : DOMAIN Cutover!Transitions, scope : 1..MaxScope]
        /\ cohort'.state = "DISCOVERED"
    BY <2>1
       DEF Cutover!RebuildCohort, Cutover!Manifest, Cutover!ReleaseInvariant,
           Cutover!TypeOK, Cutover!Transitions
  <2>3. Cutover!ReleaseInvariant'
    BY <2>1, <2>2
       DEF Cutover!RebuildCohort, Cutover!ReleaseInvariant, Cutover!TypeOK,
           Cutover!RouteFollowsCohort, Cutover!Mutated
  <2> QED BY <2>1, <2>2, <2>3
             DEF Cutover!RebuildCohort, Cutover!CutoverStep, Cutover!ReleaseInvariant,
                                  Cutover!RouteFollowsCohort, Cutover!Mutated
<1>3. CASE Cutover!ExternalRollback
  <2>1. cohort'.state = "ROLLED_BACK_RECONCILE" /\ Cutover!ReleaseInvariant'
    BY <1>3
       DEF Cutover!ExternalRollback, Cutover!RollBack, Cutover!ReleaseInvariant,
           Cutover!TypeOK, Cutover!RouteFollowsCohort,
                Cutover!Mutated, Cutover!Transitions
  <2> QED BY <1>3, <2>1
             DEF Cutover!ExternalRollback, Cutover!RollBack, Cutover!CutoverStep,
                 Cutover!ReleaseInvariant, Cutover!TypeOK, Cutover!Mutated
<1>4. CASE Cutover!Mutate
  <2>1. /\ cohort.state \in {"ROUTE_SWITCHED_NO_MUTATION"}
        /\ cohort'.state = "CANONICAL_MUTATED" /\ Cutover!ReleaseInvariant'
    BY <1>4
       DEF Cutover!Mutate, Cutover!ReleaseInvariant, Cutover!TypeOK,
           Cutover!RouteFollowsCohort, Cutover!Mutated, Cutover!Transitions
  <2> QED BY <1>4, <2>1
             DEF Cutover!Mutate, Cutover!CutoverStep, Cutover!ReleaseInvariant,
                 Cutover!TypeOK, Cutover!Mutated
<1>5. CASE Cutover!CloseRollback
  <2>1. /\ cohort.state = "CANONICAL_MUTATED"
        /\ cohort'.state = "ROLLBACK_CLOSED" /\ Cutover!ReleaseInvariant'
    BY <1>5
       DEF Cutover!CloseRollback, Cutover!ReleaseInvariant, Cutover!TypeOK,
           Cutover!RouteFollowsCohort, Cutover!Mutated,
                Cutover!Transitions
  <2> QED BY <1>5, <2>1
             DEF Cutover!CloseRollback, Cutover!CutoverStep, Cutover!ReleaseInvariant,
                 Cutover!TypeOK, Cutover!Mutated
<1> QED BY <1>1, <1>2, <1>3, <1>4, <1>5

\* A switch of the route rests on a decision that observed this manifest long
\* enough, and a decommission on the whole retention.
LEMMA RouteMoves ==
  ASSUME Cutover!ReleaseAssumption, Cutover!ReleaseInvariant,
         \/ \E d \in decisions, approved \in BOOLEAN : Cutover!SwitchRoute(d, approved)
         \/ \E ev, approved \in BOOLEAN : Cutover!Decommission(ev, approved)
  PROVE  Cutover!ReleaseInvariant' /\ Cutover!CutoverStep
<1> USE DEF Cutover!ReleaseAssumption
<1>1. CASE \E d \in decisions, approved \in BOOLEAN : Cutover!SwitchRoute(d, approved)
  <2>1. PICK d \in decisions, approved \in BOOLEAN : Cutover!SwitchRoute(d, approved)
    BY <1>1
  <2>2. cohort'.state = "ROUTE_SWITCHED_NO_MUTATION" /\ Cutover!ReleaseInvariant'
    BY <2>1
       DEF Cutover!SwitchRoute, Cutover!ReleaseInvariant, Cutover!TypeOK,
           Cutover!RouteFollowsCohort, Cutover!Mutated,
                Cutover!Transitions
  <2>3. /\ d.manifest = cohort /\ d.scope = scope /\ d.pass /\ d.days >= MinDays
        /\ cohort.source \in enabled[scope] /\ cohort.state = "CUTOVER_READY"
    BY <2>1
       DEF Cutover!SwitchRoute, Cutover!Joins, Cutover!CohortInScope,
           Cutover!ReleaseInvariant
  <2> QED BY <2>1, <2>2, <2>3
             DEF Cutover!SwitchRoute, Cutover!CutoverStep, Cutover!ReleaseInvariant,
                 Cutover!Mutated
<1>2. CASE \E ev, approved \in BOOLEAN : Cutover!Decommission(ev, approved)
  <2>1. /\ cohort.state = "ROLLBACK_CLOSED" /\ cohort'.state = "DECOMMISSIONED"
        /\ day - closedOn >= MinDays /\ route' = route /\ UNCHANGED <<released, drills>>
    BY <1>2 DEF Cutover!Decommission, Cutover!ReleaseInvariant, Cutover!TypeOK
  <2>2. Cutover!ReleaseInvariant'
    BY <1>2, <2>1
       DEF Cutover!Decommission, Cutover!ReleaseInvariant, Cutover!TypeOK,
           Cutover!RouteFollowsCohort, Cutover!Mutated,
                      Cutover!Transitions
  <2>3. day >= closedOn + MinDays /\ route = "canonical"
    BY <2>1
       DEF Cutover!ReleaseInvariant, Cutover!TypeOK, Cutover!RouteFollowsCohort,
           Cutover!Mutated
  <2> QED BY <2>1, <2>2, <2>3
             DEF Cutover!CutoverStep, Cutover!ReleaseInvariant, Cutover!Mutated
<1> QED BY <1>1, <1>2

\* Scopes, decisions, drills and the calendar move no cohort.
LEMMA EvidenceMoves ==
  ASSUME Cutover!ReleaseAssumption, Cutover!ReleaseInvariant,
         \/ Cutover!ResolveScope \/ Cutover!Admit \/ Cutover!Tick
         \/ \E rates, changed \in BOOLEAN : Cutover!Decide(rates, changed)
         \/ \E k \in Drills, o \in {"PASS", "FAIL"} : Cutover!RunDrill(k, o)
         \/ \E f \in Foundations : Cutover!WithdrawFoundation(f)
         \/ \E fs \in SUBSET Foundations : Cutover!BuildEnvelope(fs)
         \/ UNCHANGED Cutover!vars
  PROVE  Cutover!ReleaseInvariant' /\ Cutover!CutoverStep
<1> USE DEF Cutover!ReleaseAssumption
<1>1. UNCHANGED <<cohort, route, enabled, closedOn>> /\ Cutover!TypeOK'
  <2>1. UNCHANGED <<cohort, route, enabled, closedOn>>
    BY DEF Cutover!ResolveScope, Cutover!Admit, Cutover!Tick, Cutover!Decide,
           Cutover!RunDrill, Cutover!WithdrawFoundation, Cutover!BuildEnvelope, Cutover!vars
  <2>2. scope' \in 1..MaxScope /\ day' \in Nat
    BY DEF Cutover!ReleaseInvariant, Cutover!TypeOK, Cutover!ResolveScope, Cutover!Admit,
           Cutover!Tick, Cutover!Decide, Cutover!RunDrill,
           Cutover!WithdrawFoundation, Cutover!BuildEnvelope, Cutover!vars
  <2>3. drills' \in [Drills -> {"NONE", "PASS", "FAIL"}]
    BY DEF Cutover!ReleaseInvariant, Cutover!TypeOK, Cutover!ResolveScope, Cutover!Admit,
           Cutover!Tick, Cutover!Decide, Cutover!RunDrill,
           Cutover!WithdrawFoundation, Cutover!BuildEnvelope, Cutover!vars
  <2> QED BY <2>1, <2>2, <2>3 DEF Cutover!ReleaseInvariant, Cutover!TypeOK
<1>2. \A d \in decisions' : d.pass => d.days >= MinDays
  <2>1. CASE \E rates, changed \in BOOLEAN : Cutover!Decide(rates, changed)
    <3>1. PICK rates \in BOOLEAN, changed \in BOOLEAN : Cutover!Decide(rates, changed)
      BY <2>1
    <3> DEFINE new == [manifest |-> cohort, scope |-> scope, days |-> day,
                       pass |-> Cutover!Formula(day, rates, changed)]
    <3>2. new.days = day /\ (new.pass => day >= MinDays)
      BY Zenon DEF Cutover!Formula
    <3>3. decisions' = decisions \cup {new}
      BY <3>1 DEF Cutover!Decide
    <3> HIDE DEF new
    <3> QED BY <3>2, <3>3 DEF Cutover!ReleaseInvariant
  <2>2. CASE decisions' = decisions
    BY <2>2 DEF Cutover!ReleaseInvariant
  <2> QED BY <2>1, <2>2
             DEF Cutover!ResolveScope, Cutover!Admit, Cutover!Tick, Cutover!RunDrill,
                 Cutover!WithdrawFoundation,
                            Cutover!BuildEnvelope, Cutover!vars
<1>3. released' => \A k \in Drills : drills'[k] = "PASS"
  <2>1. CASE Cutover!Admit
    BY <2>1 DEF Cutover!Admit, Cutover!DrillsPass
  <2>2. CASE \E k \in Drills, o \in {"PASS", "FAIL"} : Cutover!RunDrill(k, o)
    BY <2>2 DEF Cutover!RunDrill, Cutover!ReleaseInvariant, Cutover!TypeOK
  <2>3. CASE UNCHANGED <<released, drills>>
    BY <2>3 DEF Cutover!ReleaseInvariant
  <2> QED BY <2>1, <2>2, <2>3
             DEF Cutover!ResolveScope, Cutover!Tick, Cutover!Decide,
                 Cutover!WithdrawFoundation,
                                  Cutover!BuildEnvelope, Cutover!vars
<1>4. Cutover!ReleaseInvariant'
  BY <1>1, <1>2, <1>3 DEF Cutover!ReleaseInvariant, Cutover!RouteFollowsCohort
<1> QED BY <1>1, <1>3, <1>4 DEF Cutover!CutoverStep

\* Every step is a CutoverStep: the route moves to the canonical store only on a
\* decision that observed this manifest under this scope, never back after the
\* first mutation, and a release rests on drills that all passed, whatever
\* scopes, decisions and rollbacks came before (second_brain_cutover.py,
\* second_brain_product_release.py).
THEOREM CutoverStaysEarned ==
  ASSUME Cutover!ReleaseAssumption PROVE Cutover!Spec => CutoverIsEarned
<1>1. Cutover!Init => Cutover!ReleaseInvariant
  BY DEF Cutover!Init, Cutover!Manifest, Cutover!ReleaseAssumption,
         Cutover!ReleaseInvariant, Cutover!TypeOK, Cutover!RouteFollowsCohort,
         Cutover!Mutated, Cutover!Transitions
<1>2. Cutover!ReleaseInvariant
      /\ [Cutover!Next]_Cutover!vars => Cutover!ReleaseInvariant' /\ Cutover!CutoverStep
  BY CohortMoves, RouteMoves, EvidenceMoves DEF Cutover!Next
<1>3. [Cutover!CutoverStep]_Cutover!vars => [active = "cutover" => Cutover!CutoverStep]_cutoverVars
  BY DEF Cutover!vars, cutoverVars
<1> QED BY <1>1, <1>2, <1>3, PTL DEF Cutover!Spec, CutoverIsEarned

-----------------------------------------------------------------------------
(* FixtureCapture: the capture of source evidence.                         *)

\* What a worker carries while it captures.
LEMMA WorkerCarries ==
  ASSUME Capture!TypeOK, NEW w \in Procs
  PROVE  /\ work[w] = Capture!Idle <=> work[w].phase = "idle"
         /\ work[w] # Capture!Idle => /\ work[w].aggregate \in Capture!Aggregates
                              /\ work[w].phase \in {"content", "native-mapping", "read"}
BY DEF Capture!TypeOK, Capture!Idle

\* The reference of a checkpoint.
LEMMA RefType ==
  ASSUME Capture!TypeOK, NEW s \in Sources
  PROVE  /\ Capture!Ref(s) \in Capture!Refs
         /\ checkpoint[s] = Capture!None <=> Capture!Ref(s) = Capture!None
         /\ checkpoint[s] # Capture!None => checkpoint[s].scan \in Capture!Scans
BY DEF Capture!TypeOK, Capture!Ref, Capture!Refs, Capture!None

\* An aggregate is drawn up from what its author has seen, and lists itself.
LEMMA AggregateType ==
  ASSUME Capture!TypeOK, NEW scan \in Capture!Scans, NEW ev \in Capture!Evidence,
         NEW c \in Cohorts,
         NEW others \in SUBSET Sources, \A s \in others : checkpoint[s] # Capture!None
  PROVE  /\ Capture!Aggregate(scan, ev, c, others) \in Capture!Aggregates
         /\ Capture!Aggregate(scan, ev, c, others).scan = scan
         /\ Capture!RosterEntry(scan) \in Capture!Aggregate(scan, ev, c, others).roster
<1>1. Capture!Ref(scan.source) \in Capture!Refs
  BY RefType DEF Capture!Scans
<1>2. Capture!Roster(scan, others) \subseteq Capture!Entries
      /\ Capture!RosterEntry(scan) \in Capture!Roster(scan, others)
  BY RefType DEF Capture!Roster, Capture!RosterEntry, Capture!Entries
<1> QED BY <1>1, <1>2 DEF Capture!Aggregate, Capture!Aggregates

\* Nothing durable changes when a worker only reads, seals or gives up.
LEMMA DurableStays ==
  ASSUME Capture!CaptureInvariant, UNCHANGED <<rows, checkpoint, captureCohorts, advances>>,
         bindings \subseteq bindings'
  PROVE  Capture!CaptureIsWhole' /\ \A s \in Sources : Capture!CheckpointIsLast(s)'
<1>1. \A r \in rows' : Capture!RowIsWhole(r)'
  BY DEF Capture!CaptureInvariant, Capture!CaptureIsWhole, Capture!RowIsWhole
<1>2. \A c \in Cohorts : Capture!CohortIsCaptured(c)'
  BY DEF Capture!CaptureInvariant, Capture!CaptureIsWhole, Capture!CohortIsCaptured
<1>3. \A s \in Sources : Capture!AdvancesChain(s)'
  BY DEF Capture!CaptureInvariant, Capture!CaptureIsWhole, Capture!AdvancesChain
<1>4. \A s \in Sources : Capture!CheckpointIsLast(s)'
  BY DEF Capture!CaptureInvariant, Capture!CheckpointIsLast, Capture!Ref
<1> QED BY <1>1, <1>2, <1>3, <1>4 DEF Capture!CaptureIsWhole

\* A worker that moves leaves the others where they are.
LEMMA WorkerMoves ==
  ASSUME Capture!CaptureInvariant, NEW w \in Procs,
         NEW o \in {Capture!Idle} \cup
           [phase : {"content", "native-mapping", "read"}, aggregate : Capture!Aggregates],
         o # Capture!Idle => Capture!RosterEntry(o.aggregate.scan) \in o.aggregate.roster,
         work' = [work EXCEPT ![w] = o]
  PROVE  /\ work' \in [Procs -> {Capture!Idle} \cup
              [phase : {"content", "native-mapping", "read"}, aggregate : Capture!Aggregates]]
         /\ \A v \in Procs : Capture!ListsItself(v)'
<1> DEFINE W == {Capture!Idle} \cup
      [phase : {"content", "native-mapping", "read"}, aggregate : Capture!Aggregates]
<1>1. work \in [Procs -> W]
  BY DEF Capture!CaptureInvariant, Capture!TypeOK
<1> HIDE DEF W
<1>2. work' \in [Procs -> W] /\ \A v \in Procs : work'[v] = IF v = w THEN o ELSE work[v]
  BY <1>1 DEF W
<1>3. ASSUME NEW v \in Procs PROVE Capture!ListsItself(v)'
  BY <1>2 DEF Capture!CaptureInvariant, Capture!ListsItself
<1> QED BY <1>2, <1>3 DEF W

\* Start draws up the aggregate.
LEMMA StartKeeps ==
  ASSUME Capture!CaptureInvariant, NEW w \in Procs, NEW scan \in Capture!Scans,
         NEW ev \in Capture!Evidence,
         NEW c \in Cohorts, NEW others \in SUBSET Sources,
         Capture!Start(w, scan, ev, c, others)
  PROVE  Capture!CaptureInvariant'
<1> DEFINE a == Capture!Aggregate(scan, ev, c, others)
           o == [phase |-> "content", aggregate |-> a]
<1>1. a \in Capture!Aggregates /\ Capture!RosterEntry(a.scan) \in a.roster
  BY AggregateType DEF Capture!CaptureInvariant, Capture!Start
<1>2. /\ work' = [work EXCEPT ![w] = o]
      /\ UNCHANGED <<bindings, rows, checkpoint, captureCohorts, advances>>
  BY DEF Capture!Start
<1> HIDE DEF a
<1>3. /\ o \in {Capture!Idle} \cup
           [phase : {"content", "native-mapping", "read"}, aggregate : Capture!Aggregates]
      /\ Capture!RosterEntry(o.aggregate.scan) \in o.aggregate.roster
  BY <1>1
<1> HIDE DEF o
<1>4. Capture!CaptureIsWhole' /\ \A s \in Sources : Capture!CheckpointIsLast(s)'
  BY <1>2, DurableStays
<1>5. /\ work' \in [Procs -> {Capture!Idle} \cup
              [phase : {"content", "native-mapping", "read"}, aggregate : Capture!Aggregates]]
      /\ \A v \in Procs : Capture!ListsItself(v)'
  BY <1>2, <1>3, WorkerMoves
<1> QED BY <1>2, <1>4, <1>5 DEF Capture!CaptureInvariant, Capture!TypeOK

\* A worker that is refused, or dies, holds nothing.
LEMMA GivesUp ==
  ASSUME Capture!CaptureInvariant, NEW w \in Procs,
         work' = [work EXCEPT ![w] = Capture!Idle],
         UNCHANGED <<bindings, rows, checkpoint, captureCohorts, advances>>
  PROVE  Capture!CaptureInvariant'
<1>1. Capture!CaptureIsWhole' /\ \A s \in Sources : Capture!CheckpointIsLast(s)'
  BY DurableStays
<1>2. /\ work' \in [Procs -> {Capture!Idle} \cup
              [phase : {"content", "native-mapping", "read"}, aggregate : Capture!Aggregates]]
      /\ \A v \in Procs : Capture!ListsItself(v)'
  BY WorkerMoves
<1> QED BY <1>1, <1>2 DEF Capture!CaptureInvariant, Capture!TypeOK

\* Sealing only adds bindings.
LEMMA SealKeeps ==
  ASSUME Capture!CaptureInvariant, NEW w \in Procs, NEW kind \in Capture!Kinds,
         Capture!Seal(w, kind)
  PROVE  Capture!CaptureInvariant'
<1> DEFINE a == work[w].aggregate
<1>1. /\ work[w] # Capture!Idle /\ a \in Capture!Aggregates
      /\ Capture!RosterEntry(a.scan) \in a.roster
  BY WorkerCarries
     DEF Capture!CaptureInvariant, Capture!Seal, Capture!Kinds, Capture!ListsItself
<1>2. UNCHANGED <<rows, checkpoint, captureCohorts, advances>>
  BY DEF Capture!Seal
<1>3. /\ bindings \subseteq bindings'
      /\ bindings' \subseteq [scan : Capture!Scans, kind : Capture!Kinds, evidence : Capture!Evidence]
  BY <1>1 DEF Capture!Seal, Capture!CaptureInvariant, Capture!TypeOK, Capture!Aggregates
<1>4. PICK o \in {Capture!Idle, [phase |-> Capture!NextPhase(kind), aggregate |-> a]} :
        work' = [work EXCEPT ![w] = o]
  BY DEF Capture!Seal
<1>5. /\ o \in {Capture!Idle} \cup
           [phase : {"content", "native-mapping", "read"}, aggregate : Capture!Aggregates]
      /\ o # Capture!Idle => Capture!RosterEntry(o.aggregate.scan) \in o.aggregate.roster
  BY <1>1, <1>4 DEF Capture!NextPhase
<1>6. Capture!CaptureIsWhole' /\ \A s \in Sources : Capture!CheckpointIsLast(s)'
  BY <1>2, <1>3, DurableStays
<1>7. /\ work' \in [Procs -> {Capture!Idle} \cup
              [phase : {"content", "native-mapping", "read"}, aggregate : Capture!Aggregates]]
      /\ \A v \in Procs : Capture!ListsItself(v)'
  BY <1>4, <1>5, WorkerMoves
<1> QED BY <1>2, <1>3, <1>6, <1>7 DEF Capture!CaptureInvariant, Capture!TypeOK

\* A cohort lends its handle only to an aggregate whose row exists: the scan is
\* on the roster, so it was captured, and the row that exists has to match.
LEMMA LentHandle ==
  ASSUME Capture!CaptureInvariant, NEW a \in Capture!Aggregates,
         Capture!RosterEntry(a.scan) \in a.roster,
         Capture!Persistable(a)
  PROVE  /\ Capture!Row(a) \in [scan : Capture!Scans, evidence : Capture!Evidence, locator : Capture!Aggregates]
         /\ Capture!Locator(a) \in Capture!Aggregates /\ Capture!RowIsWhole(Capture!Row(a))
<1>1. Capture!Locator(a) \in Capture!Aggregates
  BY DEF Capture!Locator, Capture!CaptureInvariant, Capture!TypeOK, Capture!Aggregates,
         Capture!None
<1>2. Capture!Row(a).scan = a.scan /\ Capture!Row(a).evidence = a.evidence
      /\ Capture!Row(a).locator = Capture!Locator(a)
  BY DEF Capture!Row
<1>3. \A kind \in Capture!Kinds :
        [scan |-> a.scan, kind |-> kind, evidence |-> a.evidence] \in bindings
  <2> SUFFICES ASSUME NEW kind \in Capture!Kinds
               PROVE  [scan |-> a.scan, kind |-> kind, evidence |-> a.evidence] \in bindings
    OBVIOUS
  <2>1. PICK b \in bindings : b.scan = a.scan /\ b.kind = kind /\ b.evidence = a.evidence
    BY DEF Capture!Persistable, Capture!ReceiptBindingsHold, Capture!Bound
  <2> QED BY <2>1 DEF Capture!CaptureInvariant, Capture!TypeOK
<1>4. Capture!Locator(a).scan = a.scan /\ Capture!Locator(a).evidence = a.evidence
  <2>1. CASE captureCohorts[a.cohort] = Capture!None
    BY <2>1 DEF Capture!Locator
  <2>2. CASE captureCohorts[a.cohort] # Capture!None
    <3>1. Capture!RosterEntry(a.scan) \in captureCohorts[a.cohort].roster
      BY <2>2 DEF Capture!Persistable, Capture!CohortAgrees
    <3>2. PICK r \in rows : r.scan = a.scan
      BY <2>2, <3>1
         DEF Capture!CaptureInvariant, Capture!CaptureIsWhole, Capture!CohortIsCaptured,
             Capture!RosterEntry,
                        Capture!Aggregates
    <3>3. r = Capture!Row(a) /\ Capture!RowIsWhole(r)
      BY <3>2
         DEF Capture!Persistable, Capture!Matches, Capture!CaptureInvariant,
             Capture!CaptureIsWhole
    <3> QED BY <1>2, <3>3 DEF Capture!RowIsWhole
  <2> QED BY <2>1, <2>2
<1> QED BY <1>1, <1>2, <1>3, <1>4 DEF Capture!Row, Capture!RowIsWhole, Capture!Aggregates

\* Persisting the aggregate extends the source's advances at their end.
LEMMA PersistKeeps ==
  ASSUME Capture!CaptureInvariant, NEW w \in Procs, NEW observed \in Capture!Evidence,
         Capture!Persist(w, observed)
  PROVE  Capture!CaptureInvariant'
<1>0. PICK a \in Capture!Aggregates : a = work[w].aggregate
  BY WorkerCarries DEF Capture!CaptureInvariant, Capture!Persist
<1>1. /\ Capture!RosterEntry(a.scan) \in a.roster /\ Capture!Persistable(a)
      /\ a.scan \in Capture!Scans /\ a.scan.source \in Sources /\ a.cohort \in Cohorts
      /\ a.roster \subseteq Capture!Entries /\ a.previous \in Capture!Refs
  BY <1>0, WorkerCarries
     DEF Capture!CaptureInvariant, Capture!Persist, Capture!ListsItself,
         Capture!Aggregates, Capture!Scans
<1>2. PICK row \in [scan : Capture!Scans, evidence : Capture!Evidence, locator : Capture!Aggregates] :
        row = Capture!Row(a) /\ row.scan = a.scan /\ row.locator = Capture!Locator(a)
  BY <1>1, LentHandle DEF Capture!Row
<1>3. Capture!RowIsWhole(row)
  BY <1>1, <1>2, LentHandle
<1> DEFINE s == a.scan.source
           to == [kind |-> "checkpoint", scan |-> a.scan]
           cp == [kind |-> "row", scan |-> a.scan, locator |-> row.locator]
           lent == [kind |-> "cohort", roster |-> a.roster, locator |-> row.locator]
           step == [from |-> a.previous, to |-> to]
<1>4. /\ rows' = rows \cup {row} /\ UNCHANGED bindings
      /\ checkpoint' = [checkpoint EXCEPT ![s] = cp]
      /\ captureCohorts' = [captureCohorts EXCEPT ![a.cohort] = lent]
      /\ advances' = IF Capture!Ref(s) = to THEN advances
                     ELSE [advances EXCEPT ![s] = Append(advances[s], step)]
      /\ work' = [work EXCEPT ![w] = Capture!Idle]
  BY <1>0, <1>2 DEF Capture!Persist
<1>5. /\ cp \in [kind : {"row"}, scan : Capture!Scans, locator : Capture!Aggregates]
      /\ cp # Capture!None
      /\ lent \in [kind : {"cohort"}, roster : SUBSET Capture!Entries, locator : Capture!Aggregates]
      /\ lent.roster = a.roster /\ cp.scan = a.scan
      /\ to \in Capture!Refs /\ to # Capture!None /\ step \in Capture!Steps /\ step.to = to
      /\ step.from = a.previous
  BY <1>1, <1>2 DEF Capture!None, Capture!Refs, Capture!Steps
<1>6. Capture!Ref(s) # to => Capture!Ref(s) = a.previous
  BY <1>1 DEF Capture!Persistable, Capture!CompareAndSwap
<1> HIDE DEF s, cp, lent, to, step
<1>s. s \in Sources
  BY <1>1 DEF s
<1>7. /\ rows' \subseteq [scan : Capture!Scans, evidence : Capture!Evidence, locator : Capture!Aggregates]
      /\ checkpoint' \in
           [Sources -> {Capture!None} \cup [kind : {"row"}, scan : Capture!Scans, locator : Capture!Aggregates]]
      /\ captureCohorts' \in [Cohorts -> {Capture!None} \cup
                         [kind : {"cohort"}, roster : SUBSET Capture!Entries, locator : Capture!Aggregates]]
  BY <1>4, <1>5 DEF Capture!CaptureInvariant, Capture!TypeOK
<1>8. \A q \in Sources : checkpoint'[q] = IF q = s THEN cp ELSE checkpoint[q]
  BY <1>4, <1>s DEF Capture!CaptureInvariant, Capture!TypeOK
<1>9. Capture!Ref(s)' = to
  BY <1>5, <1>8, <1>s DEF Capture!Ref, to
<1>10. ASSUME NEW q \in Sources
       PROVE  /\ advances'[q] \in Seq(Capture!Steps) /\ Capture!AdvancesChain(q)'
              /\ Capture!CheckpointIsLast(q)'
  <2>1. advances[q] \in Seq(Capture!Steps) /\ Capture!AdvancesChain(q)
        /\ Capture!CheckpointIsLast(q)
    BY DEF Capture!CaptureInvariant, Capture!TypeOK, Capture!CaptureIsWhole
  <2>2. CASE q # s
    <3>1. advances'[q] = advances[q] /\ checkpoint'[q] = checkpoint[q]
      BY <1>4, <1>8, <2>2 DEF Capture!CaptureInvariant, Capture!TypeOK
    <3> QED BY <2>1, <3>1 DEF Capture!AdvancesChain, Capture!CheckpointIsLast, Capture!Ref
  <2>3. CASE q = s /\ Capture!Ref(s) = to
    <3>1. advances'[q] = advances[q] /\ checkpoint'[q] # Capture!None
          /\ Capture!Ref(q)' = Capture!Ref(q)
      BY <1>4, <1>5, <1>8, <1>9, <2>3
    <3>2. advances[q] # <<>>
      BY <2>1, <2>3, <1>5, <1>s, RefType
         DEF Capture!CheckpointIsLast, Capture!CaptureInvariant
    <3> QED BY <2>1, <3>1, <3>2 DEF Capture!AdvancesChain, Capture!CheckpointIsLast
  <2>4. CASE q = s /\ Capture!Ref(s) # to
    <3>1. advances'[q] = Append(advances[q], step) /\ checkpoint'[q] # Capture!None
      BY <1>4, <1>5, <1>8, <2>4 DEF Capture!CaptureInvariant, Capture!TypeOK
    <3>2. PICK n \in Nat : n = Len(advances[q])
      BY <2>1
    <3>3. /\ advances'[q] \in Seq(Capture!Steps) /\ Len(advances'[q]) = n + 1
          /\ advances'[q][n + 1] = step
          /\ \A i \in 1..n : advances'[q][i] = advances[q][i]
      BY <2>1, <3>1, <3>2, <1>5, AppendProperties
    <3>4. n > 0 => step.from = advances[q][n].to
      BY <1>5, <1>6, <2>1, <2>4, <3>2 DEF Capture!CheckpointIsLast
    <3>5. Capture!AdvancesChain(q)'
      <4> SUFFICES ASSUME NEW i \in 2..(n + 1)
                   PROVE  advances'[q][i].from = advances'[q][i - 1].to
        BY <3>3 DEF Capture!AdvancesChain
      <4>1. CASE i = n + 1
        BY <4>1, <3>3, <3>4
      <4>2. CASE i \in 2..n
        <5>1. i - 1 \in 1..n /\ i \in 1..n
          BY <4>2
        <5>2. advances[q][i].from = advances[q][i - 1].to
          BY <4>2, <3>2, <2>1 DEF Capture!AdvancesChain
        <5> QED BY <5>1, <5>2, <3>3
      <4> QED BY <4>1, <4>2
    <3>6. Capture!CheckpointIsLast(q)'
      <4>1. advances'[q] # <<>>
        BY <3>3
      <4>2. Capture!Ref(q)' = to
        BY <1>9, <2>4
      <4>3. advances'[q][Len(advances'[q])].to = to
        BY <3>3, <1>5
      <4> QED BY <4>1, <4>2, <4>3, <3>1 DEF Capture!CheckpointIsLast
    <3> QED BY <3>3, <3>5, <3>6
  <2> QED BY <2>2, <2>3, <2>4
<1>11. advances' \in [Sources -> Seq(Capture!Steps)]
  <2>1. DOMAIN advances' = Sources /\ advances' = [q \in Sources |-> advances'[q]]
    BY <1>4 DEF Capture!CaptureInvariant, Capture!TypeOK
  <2> QED BY <2>1, <1>10
<1>12. \A r \in rows' : Capture!RowIsWhole(r)'
  BY <1>3, <1>4 DEF Capture!CaptureInvariant, Capture!CaptureIsWhole, Capture!RowIsWhole
<1>13. ASSUME NEW c \in Cohorts PROVE Capture!CohortIsCaptured(c)'
  <2> SUFFICES ASSUME captureCohorts'[c] # Capture!None, NEW entry \in captureCohorts'[c].roster
               PROVE  \E r \in rows' : r.scan = entry.scan
    BY DEF Capture!CohortIsCaptured
  <2>1. CASE c = a.cohort
    <3>1. entry \in a.roster
      BY <1>4, <1>5, <2>1 DEF Capture!CaptureInvariant, Capture!TypeOK
    <3> QED BY <1>1, <1>2, <1>4, <3>1 DEF Capture!Persistable, Capture!DurableCohort
  <2>2. CASE c # a.cohort
    <3>1. captureCohorts'[c] = captureCohorts[c]
      BY <1>4, <2>2 DEF Capture!CaptureInvariant, Capture!TypeOK
    <3> QED BY <1>4, <3>1
               DEF Capture!CaptureInvariant, Capture!CaptureIsWhole,
                   Capture!CohortIsCaptured
  <2> QED BY <2>1, <2>2
<1>14. /\ work' \in [Procs -> {Capture!Idle} \cup
              [phase : {"content", "native-mapping", "read"}, aggregate : Capture!Aggregates]]
       /\ \A v \in Procs : Capture!ListsItself(v)'
  BY <1>4, WorkerMoves
<1>15. Capture!CaptureIsWhole' /\ \A q \in Sources : Capture!CheckpointIsLast(q)'
  BY <1>10, <1>12, <1>13 DEF Capture!CaptureIsWhole
<1>16. Capture!TypeOK'
  BY <1>4, <1>7, <1>11, <1>14 DEF Capture!CaptureInvariant, Capture!TypeOK
<1> QED BY <1>14, <1>15, <1>16 DEF Capture!CaptureInvariant

\* Whatever workers seal, persist and die beside each other, every captured row
\* has both halves of its evidence and a handle that opens its own scan, captureCohorts
\* list what was captured, and no advance of a checkpoint is lost
\* (persist_capture_aggregate).
THEOREM CapturesStayWhole == Capture!Spec => []CaptureIsWhole
<1>1. Capture!Init => Capture!CaptureInvariant
  <2> SUFFICES ASSUME Capture!Init PROVE Capture!CaptureInvariant
    OBVIOUS
  <2>1. Capture!TypeOK
    BY DEF Capture!Init, Capture!TypeOK
  <2>2. Capture!CaptureIsWhole
    BY DEF Capture!Init, Capture!CaptureIsWhole, Capture!RowIsWhole,
           Capture!CohortIsCaptured, Capture!AdvancesChain
  <2>3. \A s \in Sources : Capture!CheckpointIsLast(s)
    BY DEF Capture!Init, Capture!CheckpointIsLast
  <2>4. \A w \in Procs : Capture!ListsItself(w)
    BY DEF Capture!Init, Capture!ListsItself
  <2> QED BY <2>1, <2>2, <2>3, <2>4 DEF Capture!CaptureInvariant
<1>2. Capture!CaptureInvariant /\ [Capture!Next]_Capture!vars => Capture!CaptureInvariant'
  <2> SUFFICES ASSUME Capture!CaptureInvariant, [Capture!Next]_Capture!vars
               PROVE  Capture!CaptureInvariant'
    OBVIOUS
  <2>1. CASE UNCHANGED Capture!vars
    <3>1. Capture!CaptureIsWhole' /\ \A s \in Sources : Capture!CheckpointIsLast(s)'
      BY <2>1, DurableStays DEF Capture!vars
    <3> QED BY <2>1, <3>1
               DEF Capture!vars, Capture!CaptureInvariant, Capture!TypeOK,
                   Capture!ListsItself
  <2>2. ASSUME NEW w \in Procs, NEW observed \in Capture!Evidence,
               Capture!Refuse(w, observed) \/ Capture!Crash(w)
        PROVE  Capture!CaptureInvariant'
    BY <2>2, GivesUp DEF Capture!Refuse, Capture!Crash
  <2>3. ASSUME NEW w \in Procs, Capture!Crash(w) PROVE Capture!CaptureInvariant'
    BY <2>3, GivesUp DEF Capture!Crash
  <2> QED BY <2>1, <2>2, <2>3, StartKeeps, SealKeeps, PersistKeeps DEF Capture!Next
<1>3. Capture!CaptureInvariant => CaptureIsWhole
  BY DEF Capture!CaptureInvariant, CaptureIsWhole
<1> QED BY <1>1, <1>2, <1>3, PTL DEF Capture!Spec

-----------------------------------------------------------------------------
(* RuntimeLedgers: attention and write proposals.                          *)

(* The instance counts as the library does. *)
LEMMA LedgersCount ==
  /\ \A S : Ledgers!Cardinality(S) = Cardinality(S)
  /\ \A S : Ledgers!IsFiniteSet(S) = IsFiniteSet(S)
<1>1. ASSUME NEW S PROVE Ledgers!Cardinality(S) = Cardinality(S)
  BY DEF Ledgers!Cardinality, Cardinality
<1>2. ASSUME NEW S PROVE Ledgers!IsFiniteSet(S) = IsFiniteSet(S)
  BY DEF Ledgers!IsFiniteSet, IsFiniteSet
<1> QED BY <1>1, <1>2

(* A later time is on the same day or on a later one. *)
LEMMA LaterDay ==
  ASSUME Ledgers!LedgerAssumption, NEW s \in Nat, NEW t \in Nat, s <= t
  PROVE  Ledgers!Day(s) \in Nat /\ Ledgers!Day(s) <= Ledgers!Day(t)
BY DEF Ledgers!Day, Ledgers!LedgerAssumption

(* A part of a finite set is finite and no larger. *)
LEMMA SmallerPart ==
  ASSUME NEW S, IsFiniteSet(S), NEW T, T \subseteq S
  PROVE  IsFiniteSet(T) /\ Cardinality(T) \in Nat /\ Cardinality(T) <= Cardinality(S)
BY FS_Subset, FS_CardinalityType

(* One more element. *)
LEMMA OneMore ==
  ASSUME NEW S, IsFiniteSet(S), NEW x, NEW T, T \subseteq S \union {x}
  PROVE  IsFiniteSet(T) /\ Cardinality(T) \in Nat /\ Cardinality(T) <= Cardinality(S) + 1
<1>1. /\ IsFiniteSet(S \union {x})
      /\ Cardinality(S \union {x}) = IF x \in S THEN Cardinality(S) ELSE Cardinality(S) + 1
  BY FS_AddElement
<1>2. /\ IsFiniteSet(T) /\ Cardinality(T) \in Nat
      /\ Cardinality(T) <= Cardinality(S \union {x})
  BY <1>1, FS_Subset, FS_CardinalityType
<1> QED BY <1>1, <1>2, FS_CardinalityType

(* Less is live later, and a day that has begun holds no record of before. *)
LEMMA RecordsAfterTick ==
  ASSUME Ledgers!LedgerAssumption, Ledgers!RecordsRationed, Ledgers!Tick
  PROVE  Ledgers!RecordsRationed'
<1>1. ledgerClock' = ledgerClock + 1 /\ ledgerClock \in Nat /\ ledgerClock' \in Nat
      /\ records' = records
  BY DEF Ledgers!Tick, Ledgers!attention, Ledgers!RecordsRationed
<1>2. Ledgers!Active' \subseteq Ledgers!Active /\ Ledgers!Active \subseteq records
      /\ IsFiniteSet(Ledgers!Active)
  BY <1>1, FS_Subset, LedgersCount DEF Ledgers!Active, Ledgers!RecordsRationed
<1>3. ASSUME NEW topic \in Topics
      PROVE  Cardinality({ r \in Ledgers!Active' : r.topic = topic }) <= TopicCap
  <2> DEFINE A == { r \in Ledgers!Active : r.topic = topic }
             B == { r \in Ledgers!Active' : r.topic = topic }
  <2>1. B \subseteq A /\ A \subseteq Ledgers!Active BY <1>2
  <2>2. Cardinality(B) \in Nat /\ Cardinality(A) \in Nat /\ Cardinality(B) <= Cardinality(A)
    BY <2>1, <1>2, SmallerPart
  <2>3. Cardinality(A) <= TopicCap BY LedgersCount DEF Ledgers!RecordsRationed
  <2> QED BY <2>2, <2>3 DEF Ledgers!LedgerAssumption
<1>4. Cardinality({ r \in Ledgers!Active' : Ledgers!Day(r.created) = Ledgers!Day(ledgerClock') }) <= DailyCap
  <2> DEFINE A == { r \in Ledgers!Active : Ledgers!Day(r.created) = Ledgers!Day(ledgerClock) }
             B == { r \in Ledgers!Active' : Ledgers!Day(r.created) = Ledgers!Day(ledgerClock') }
  <2>1. A \subseteq Ledgers!Active BY DEF A
  <2>2. CASE Ledgers!Day(ledgerClock') = Ledgers!Day(ledgerClock)
    <3>1. B \subseteq A BY <2>2, <1>2
    <3>2. Cardinality(B) \in Nat /\ Cardinality(A) \in Nat
          /\ Cardinality(B) <= Cardinality(A)
      BY <2>1, <3>1, <1>2, SmallerPart
    <3>3. Cardinality(A) <= DailyCap BY LedgersCount DEF Ledgers!RecordsRationed
    <3> QED BY <3>2, <3>3 DEF Ledgers!LedgerAssumption
  <2>3. CASE Ledgers!Day(ledgerClock') # Ledgers!Day(ledgerClock)
    <3>1. ASSUME NEW r \in Ledgers!Active'
          PROVE  Ledgers!Day(r.created) # Ledgers!Day(ledgerClock')
      <4>1. r.created \in Nat /\ r.created <= ledgerClock
        BY <1>2, <1>1 DEF Ledgers!RecordsRationed
      <4>2. Ledgers!Day(r.created) \in Nat /\ Ledgers!Day(ledgerClock) \in Nat
            /\ Ledgers!Day(r.created) <= Ledgers!Day(ledgerClock)
        BY <4>1, <1>1, LaterDay
      <4>3. Ledgers!Day(ledgerClock) <= Ledgers!Day(ledgerClock') /\ Ledgers!Day(ledgerClock') \in Nat
        BY <1>1, LaterDay
      <4> QED BY <4>2, <4>3, <2>3
    <3>2. B = {} BY <3>1
    <3>3. Cardinality(B) = 0 BY <3>2, FS_EmptySet
    <3> QED BY <3>3 DEF Ledgers!LedgerAssumption
  <2> QED BY <2>2, <2>3
<1>5. \A r \in records' : r.created \in 0..ledgerClock' /\ r.expires \in Nat
  BY <1>1, LedgersCount DEF Ledgers!RecordsRationed
<1>6. \A r, s \in Ledgers!Active' : r.key = s.key => r = s BY <1>2 DEF Ledgers!RecordsRationed
<1> QED BY <1>1, <1>3, <1>4, <1>5, <1>6, LedgersCount DEF Ledgers!RecordsRationed

(* admit counts before it adds. *)
LEMMA RecordsAfterEvaluate ==
  ASSUME Ledgers!LedgerAssumption, Ledgers!RecordsRationed, NEW topic \in Topics,
         NEW key \in SuggestionKeys,
         NEW c \in 0..ledgerClock, NEW e \in Nat,
         Ledgers!Evaluate([topic |-> topic, key |-> key, created |-> c, expires |-> e])
  PROVE  Ledgers!RecordsRationed'
<1> DEFINE r == [topic |-> topic, key |-> key, created |-> c, expires |-> e]
<1>1. /\ records' = records \union {r} /\ ledgerClock' = ledgerClock /\ ledgerClock \in Nat
      /\ r.expires > ledgerClock /\ Ledgers!Admit(r)
  BY DEF Ledgers!Evaluate, Ledgers!RecordsRationed
<1>2. Ledgers!Active' = Ledgers!Active \union {r} /\ Ledgers!Active \subseteq records
  BY <1>1 DEF Ledgers!Active
<1>3. IsFiniteSet(records') BY <1>1, FS_AddElement, LedgersCount DEF Ledgers!RecordsRationed
<1>4. IsFiniteSet(Ledgers!Active) BY <1>2, FS_Subset, LedgersCount DEF Ledgers!RecordsRationed
<1>5. \A x \in records' : x.created \in 0..ledgerClock' /\ x.expires \in Nat
  BY <1>1, LedgersCount DEF Ledgers!RecordsRationed
<1>6. ASSUME NEW u \in Topics
      PROVE  Cardinality({ x \in Ledgers!Active' : x.topic = u }) <= TopicCap
  <2> DEFINE A == { x \in Ledgers!Active : x.topic = u }
             B == { x \in Ledgers!Active' : x.topic = u }
  <2>1. IsFiniteSet(A) /\ Cardinality(A) \in Nat BY <1>4, SmallerPart
  <2>2. Cardinality(A) <= TopicCap BY LedgersCount DEF Ledgers!RecordsRationed
  <2>3. CASE u = topic
    <3>1. Cardinality(A) < TopicCap BY <1>1, <2>3, LedgersCount DEF Ledgers!Admit
    <3>2. B \subseteq A \union {r} BY <1>2
    <3>3. Cardinality(B) \in Nat /\ Cardinality(B) <= Cardinality(A) + 1
      BY <2>1, <3>2, OneMore
    <3> QED BY <3>1, <3>3, <2>1 DEF Ledgers!LedgerAssumption
  <2>4. CASE u # topic
    <3>1. B = A BY <1>2, <2>4
    <3> QED BY <3>1, <2>2
  <2> QED BY <2>3, <2>4
<1>7. Cardinality({ x \in Ledgers!Active' : Ledgers!Day(x.created) = Ledgers!Day(ledgerClock') }) <= DailyCap
  <2> DEFINE A == { x \in Ledgers!Active : Ledgers!Day(x.created) = Ledgers!Day(ledgerClock) }
             B == { x \in Ledgers!Active' : Ledgers!Day(x.created) = Ledgers!Day(ledgerClock') }
  <2>1. IsFiniteSet(A) /\ Cardinality(A) \in Nat BY <1>4, SmallerPart
  <2>2. Cardinality(A) < DailyCap BY <1>1, LedgersCount DEF Ledgers!Admit
  <2>3. B \subseteq A \union {r} BY <1>1, <1>2
  <2>4. Cardinality(B) \in Nat /\ Cardinality(B) <= Cardinality(A) + 1
    BY <2>1, <2>3, OneMore
  <2> QED BY <2>1, <2>2, <2>4 DEF Ledgers!LedgerAssumption
<1>8. \A x, y \in Ledgers!Active' : x.key = y.key => x = y
  BY <1>1, <1>2 DEF Ledgers!RecordsRationed, Ledgers!Admit
<1> QED BY <1>1, <1>3, <1>5, <1>6, <1>7, <1>8, LedgersCount DEF Ledgers!RecordsRationed

(* A question is shown only when the last one under its key has expired. *)
LEMMA QuestionsAfterSelect ==
  ASSUME Ledgers!QuestionsCovered, ledgerClock \in Nat, NEW o \in Ops, NEW q \in Questions,
         NEW e \in Nat,
         Ledgers!Select(o, q, e)
  PROVE  Ledgers!QuestionsCovered'
<1> DEFINE n == [key |-> q, op |-> o, from |-> ledgerClock, until |-> e]
<1>1. /\ questions' = Ledgers!With(questions, q, Ledgers!Question(o, e))
      /\ asked' = asked \union {n}
      /\ e > ledgerClock /\ ~Ledgers!Seen(o, q)
  BY DEF Ledgers!Select
<1>2. /\ DOMAIN questions' = DOMAIN questions \union {q}
      /\ questions'[q].expires = e
      /\ \A x \in DOMAIN questions : x # q => questions'[x] = questions[x]
  BY <1>1 DEF Ledgers!With, Ledgers!Question
<1>3. q \in DOMAIN questions =>
        questions[q].expires <= ledgerClock /\ questions[q].expires <= e
  BY <1>1 DEF Ledgers!Seen, Ledgers!QuestionsCovered
<1>4. \A x \in DOMAIN questions' : questions'[x].expires \in Nat
  BY <1>2 DEF Ledgers!QuestionsCovered
<1>5. \A a \in asked : a.key = q => a.until <= ledgerClock /\ a.until <= e
  BY <1>3 DEF Ledgers!QuestionsCovered
<1>6. n.from = ledgerClock /\ n.until = e /\ n.key = q OBVIOUS
<1>7. ASSUME NEW a \in asked'
      PROVE  /\ a.from \in Nat /\ a.until \in Nat
             /\ a.key \in DOMAIN questions' /\ a.until <= questions'[a.key].expires
  <2>1. CASE a = n BY <2>1, <1>6, <1>2
  <2>2. CASE a \in asked BY <2>2, <1>5, <1>2 DEF Ledgers!QuestionsCovered
  <2> QED BY <2>1, <2>2, <1>1
<1>8. ASSUME NEW a \in asked', NEW b \in asked', a.key = b.key, a # b
      PROVE  a.until <= b.from \/ b.until <= a.from
  <2>1. CASE a \in asked /\ b \in asked BY <2>1, <1>8 DEF Ledgers!QuestionsCovered
  <2>2. CASE a = n \/ b = n BY <2>2, <1>8, <1>1, <1>5, <1>6
  <2> QED BY <2>1, <2>2, <1>1
<1> QED BY <1>4, <1>7, <1>8 DEF Ledgers!QuestionsCovered

(* What the core holds it holds for good. *)
LEMMA KeptStays ==
  ASSUME NEW id, NEW v, core' = Ledgers!With(core, id, v), id \notin DOMAIN core, NEW p,
         NEW r, Ledgers!Kept(core, p, r)
  PROVE  Ledgers!Kept(core', p, r)
BY DEF Ledgers!Kept, Ledgers!With

LEMMA ResultsAfterExecute ==
  ASSUME Ledgers!ResultsKept, NEW t \in Procs, NEW result \in Ledgers!Results,
         Ledgers!Execute(t, result)
  PROVE  Ledgers!ResultsKept'
<1> DEFINE p == submits[t].proposal
           given == IF <<p>> \in DOMAIN core THEN core[<<p>>].result ELSE result
           held == [at |-> "put", proposal |-> p, result |-> given]
           entry == [proposal |-> p, result |-> result]
<1>1. /\ submits[t].at = "core" /\ proposalReceipts' = proposalReceipts
      /\ submits' = [submits EXCEPT ![t] = held]
      /\ core' = IF <<p>> \in DOMAIN core \/ result = "retry_later" THEN core
                 ELSE Ledgers!With(core, <<p>>, entry)
  BY DEF Ledgers!Execute, Ledgers!CommandId
<1>2. submits[t] \in Ledgers!Holding /\ p \in Proposals
  BY <1>1 DEF Ledgers!ResultsKept, Ledgers!Holding, Ledgers!Idle
<1>3. given \in Ledgers!Results BY DEF Ledgers!ResultsKept
<1>4. held \in Ledgers!Holding BY <1>2, <1>3 DEF Ledgers!Holding
<1>5. submits' \in [Procs -> Ledgers!Holding] BY <1>1, <1>4 DEF Ledgers!ResultsKept
<1>6. ASSUME NEW i \in DOMAIN core'
      PROVE  /\ core'[i] \in [proposal : Proposals, result : Ledgers!Results \ {"retry_later"}]
             /\ i = <<core'[i].proposal>>
  <2>1. CASE i \in DOMAIN core /\ core'[i] = core[i] BY <2>1 DEF Ledgers!ResultsKept
  <2>2. CASE i = <<p>> /\ core'[i] = entry /\ result # "retry_later" BY <2>2, <1>2
  <2>3. \/ i \in DOMAIN core /\ core'[i] = core[i]
        \/ i = <<p>> /\ core'[i] = entry /\ result # "retry_later"
    BY <1>1 DEF Ledgers!With
  <2> QED BY <2>1, <2>2, <2>3
<1>7. ASSUME NEW q, NEW r, Ledgers!Kept(core, q, r) PROVE Ledgers!Kept(core', q, r)
  <2>1. CASE <<p>> \in DOMAIN core \/ result = "retry_later"
    BY <2>1, <1>1, <1>7 DEF Ledgers!Kept
  <2>2. CASE <<p>> \notin DOMAIN core /\ result # "retry_later"
    BY <2>2, <1>1, <1>7, KeptStays
  <2> QED BY <2>1, <2>2
<1>8. given # "retry_later" => Ledgers!Kept(core', p, given)
  <2>1. CASE <<p>> \in DOMAIN core
    <3>1. core[<<p>>] \in [proposal : Proposals, result : Ledgers!Results \ {"retry_later"}]
      BY <2>1 DEF Ledgers!ResultsKept
    <3>2. <<p>> = <<core[<<p>>].proposal>> BY <2>1 DEF Ledgers!ResultsKept
    <3>3. core[<<p>>].proposal = p BY <3>2
    <3>4. Ledgers!Kept(core, p, given) BY <3>1, <3>3, <2>1 DEF Ledgers!Kept
    <3> QED BY <3>4, <1>7
  <2>2. CASE <<p>> \notin DOMAIN core BY <2>2, <1>1 DEF Ledgers!Kept, Ledgers!With
  <2> QED BY <2>1, <2>2
<1>9. ASSUME NEW q \in DOMAIN proposalReceipts'
      PROVE  proposalReceipts'[q] \in Ledgers!Results
             /\ Ledgers!Kept(core', q, proposalReceipts'[q])
  BY <1>1, <1>7 DEF Ledgers!ResultsKept
<1>10. ASSUME NEW u \in Procs, submits'[u].at \in {"put", "done"},
              submits'[u].result # "retry_later"
       PROVE  Ledgers!Kept(core', submits'[u].proposal, submits'[u].result)
  <2>1. CASE u = t
    <3>1. submits'[u] = held BY <2>1, <1>1 DEF Ledgers!ResultsKept
    <3> QED BY <3>1, <1>8, <1>10
  <2>2. CASE u # t
    <3>1. submits'[u] = submits[u] BY <2>2, <1>1 DEF Ledgers!ResultsKept
    <3>2. Ledgers!Kept(core, submits[u].proposal, submits[u].result)
      BY <3>1, <1>10 DEF Ledgers!ResultsKept
    <3> QED BY <3>1, <3>2, <1>7
  <2> QED BY <2>1, <2>2
<1> QED BY <1>5, <1>6, <1>9, <1>10 DEF Ledgers!ResultsKept

(* The steps of submit that leave the core alone. *)
LEMMA ResultsAfterSubmit ==
  ASSUME Ledgers!ResultsKept, NEW t \in Procs, NEW p \in Proposals, Ledgers!Submit(t, p)
  PROVE  Ledgers!ResultsKept'
<1>1. /\ core' = core /\ proposalReceipts' = proposalReceipts
      /\ submits' = [submits EXCEPT ![t] =
                       IF p \in DOMAIN proposalReceipts
                       THEN [at |-> "done", proposal |-> p, result |-> proposalReceipts[p]]
                       ELSE [at |-> "core", proposal |-> p]]
  BY DEF Ledgers!Submit
<1>2. submits' \in [Procs -> Ledgers!Holding] BY <1>1 DEF Ledgers!ResultsKept, Ledgers!Holding
<1>3. \A q, r : Ledgers!Kept(core, q, r) => Ledgers!Kept(core', q, r) BY <1>1 DEF Ledgers!Kept
<1>4. ASSUME NEW u \in Procs, submits'[u].at \in {"put", "done"},
             submits'[u].result # "retry_later"
      PROVE  Ledgers!Kept(core, submits'[u].proposal, submits'[u].result)
  <2>1. CASE u = t BY <2>1, <1>1, <1>4 DEF Ledgers!ResultsKept
  <2>2. CASE u # t BY <2>2, <1>1, <1>4 DEF Ledgers!ResultsKept
  <2> QED BY <2>1, <2>2
<1> QED BY <1>1, <1>2, <1>3, <1>4 DEF Ledgers!ResultsKept, Ledgers!Kept

LEMMA ResultsAfterPut ==
  ASSUME Ledgers!ResultsKept, NEW t \in Procs, Ledgers!PutReceipt(t)
  PROVE  Ledgers!ResultsKept'
<1> DEFINE s == submits[t]
           done == [s EXCEPT !.at = "done"]
<1>1. /\ core' = core /\ s.at = "put"
      /\ submits' = [submits EXCEPT ![t] = done]
      /\ proposalReceipts' = IF s.result = "retry_later" \/ s.proposal \in DOMAIN proposalReceipts THEN proposalReceipts
                     ELSE Ledgers!With(proposalReceipts, s.proposal, s.result)
  BY DEF Ledgers!PutReceipt
<1>2. s \in [at : {"put", "done"}, proposal : Proposals, result : Ledgers!Results]
  BY <1>1 DEF Ledgers!ResultsKept, Ledgers!Holding, Ledgers!Idle
<1>3. /\ done \in [at : {"put", "done"}, proposal : Proposals, result : Ledgers!Results]
      /\ done.proposal = s.proposal /\ done.result = s.result
  BY <1>2
<1>4. submits' \in [Procs -> Ledgers!Holding]
  BY <1>1, <1>3 DEF Ledgers!ResultsKept, Ledgers!Holding
<1>5. s.result # "retry_later" => Ledgers!Kept(core, s.proposal, s.result)
  BY <1>1 DEF Ledgers!ResultsKept
<1>6. \A q \in DOMAIN proposalReceipts' :
        proposalReceipts'[q] \in Ledgers!Results
        /\ Ledgers!Kept(core, q, proposalReceipts'[q])
  BY <1>1, <1>2, <1>5 DEF Ledgers!ResultsKept, Ledgers!With
<1>7. ASSUME NEW u \in Procs, submits'[u].at \in {"put", "done"},
             submits'[u].result # "retry_later"
      PROVE  Ledgers!Kept(core, submits'[u].proposal, submits'[u].result)
  <2>1. CASE u = t
    <3>1. submits'[u] = done BY <2>1, <1>1 DEF Ledgers!ResultsKept
    <3> QED BY <3>1, <1>3, <1>5, <1>7
  <2>2. CASE u # t BY <2>2, <1>1, <1>7 DEF Ledgers!ResultsKept
  <2> QED BY <2>1, <2>2
<1> QED BY <1>1, <1>4, <1>6, <1>7 DEF Ledgers!ResultsKept, Ledgers!Kept

LEMMA ResultsAfterReturn ==
  ASSUME Ledgers!ResultsKept, NEW t \in Procs, Ledgers!Return(t) PROVE Ledgers!ResultsKept'
<1>1. core' = core /\ proposalReceipts' = proposalReceipts
      /\ submits' = [submits EXCEPT ![t] = Ledgers!Idle]
  BY DEF Ledgers!Return
<1>2. submits' \in [Procs -> Ledgers!Holding] BY <1>1 DEF Ledgers!ResultsKept, Ledgers!Holding
<1>3. \A u \in Procs : u # t => submits'[u] = submits[u] BY <1>1 DEF Ledgers!ResultsKept
<1>4. submits'[t].at = "idle" BY <1>1 DEF Ledgers!ResultsKept, Ledgers!Idle
<1> QED BY <1>1, <1>2, <1>3, <1>4 DEF Ledgers!ResultsKept, Ledgers!Kept

LEMMA ResultsAfterRestart ==
  ASSUME Ledgers!ResultsKept, Ledgers!Restart PROVE Ledgers!ResultsKept'
<1>1. /\ core' = core /\ proposalReceipts' = <<>>
      /\ submits' = [t \in Procs |-> Ledgers!Idle]
  BY DEF Ledgers!Restart
<1>2. submits' \in [Procs -> Ledgers!Holding] BY <1>1 DEF Ledgers!Holding
<1>3. \A u \in Procs : submits'[u].at = "idle" BY <1>1 DEF Ledgers!Idle
<1>4. DOMAIN proposalReceipts' = {} BY <1>1
<1> QED BY <1>1, <1>2, <1>3, <1>4 DEF Ledgers!ResultsKept, Ledgers!Kept

(* The three parts together are the property. *)
LEMMA RationedByParts ==
  ASSUME Ledgers!LedgerInvariant PROVE Ledgers!AttentionIsRationed
<1>1. ASSUME NEW i \in DOMAIN core, NEW j \in DOMAIN core,
             core[i].proposal = core[j].proposal
      PROVE  i = j
  BY <1>1 DEF Ledgers!LedgerInvariant, Ledgers!ResultsKept
<1>2. ASSUME NEW t \in Procs, submits[t].at = "done", submits[t].result # "retry_later"
      PROVE  \E i \in DOMAIN core :
               core[i] = [proposal |-> submits[t].proposal, result |-> submits[t].result]
  BY <1>2 DEF Ledgers!LedgerInvariant, Ledgers!ResultsKept, Ledgers!Kept
<1> QED
  BY <1>1, <1>2
     DEF Ledgers!LedgerInvariant, Ledgers!AttentionIsRationed, Ledgers!QuestionsCovered,
         Ledgers!RecordsRationed

(* Whatever leaves its variables alone keeps a part. *)
LEMMA PartsAlone ==
  ASSUME Ledgers!LedgerInvariant
  PROVE  /\ UNCHANGED <<questions, asked>> => Ledgers!QuestionsCovered'
         /\ UNCHANGED <<ledgerClock, records>> => Ledgers!RecordsRationed'
         /\ UNCHANGED Ledgers!writes => Ledgers!ResultsKept'
<1>1. UNCHANGED <<questions, asked>> => Ledgers!QuestionsCovered'
  BY DEF Ledgers!LedgerInvariant, Ledgers!QuestionsCovered
<1>2. UNCHANGED <<ledgerClock, records>> => Ledgers!RecordsRationed'
  BY DEF Ledgers!LedgerInvariant, Ledgers!RecordsRationed, Ledgers!Active
<1>3. UNCHANGED Ledgers!writes => Ledgers!ResultsKept'
  BY DEF Ledgers!LedgerInvariant, Ledgers!ResultsKept, Ledgers!Kept, Ledgers!writes
<1> QED BY <1>1, <1>2, <1>3

LEMMA LedgerStep ==
  ASSUME Ledgers!LedgerAssumption, Ledgers!LedgerInvariant, Ledgers!Next
  PROVE  Ledgers!LedgerInvariant'
<1> USE DEF Ledgers!LedgerInvariant
<1>1. CASE Ledgers!Tick
  <2>1. UNCHANGED <<questions, asked>> /\ UNCHANGED Ledgers!writes
    BY <1>1 DEF Ledgers!Tick, Ledgers!attention
  <2> QED BY <2>1, <1>1, PartsAlone, RecordsAfterTick
<1>2. ASSUME NEW o \in Ops, NEW q \in Questions, NEW e \in 1..MaxTime + 1,
             Ledgers!Select(o, q, e)
      PROVE  Ledgers!LedgerInvariant'
  <2>1. UNCHANGED <<ledgerClock, records>> /\ UNCHANGED Ledgers!writes
    BY <1>2 DEF Ledgers!Select
  <2>2. e \in Nat BY DEF Ledgers!LedgerAssumption
  <2>3. ledgerClock \in Nat BY DEF Ledgers!RecordsRationed
  <2>4. Ledgers!QuestionsCovered' BY <2>2, <2>3, <1>2, QuestionsAfterSelect
  <2> QED BY <2>1, <2>4, PartsAlone
<1>3. ASSUME NEW topic \in Topics, NEW key \in SuggestionKeys, NEW c \in 0..ledgerClock,
             NEW e \in 1..MaxTime + 1,
             Ledgers!Evaluate([topic |-> topic, key |-> key, created |-> c, expires |-> e])
      PROVE  Ledgers!LedgerInvariant'
  <2>1. UNCHANGED <<questions, asked>> /\ UNCHANGED Ledgers!writes BY <1>3 DEF Ledgers!Evaluate
  <2>2. e \in Nat BY DEF Ledgers!LedgerAssumption
  <2>3. Ledgers!RecordsRationed' BY <2>2, <1>3, RecordsAfterEvaluate
  <2> QED BY <2>1, <2>3, PartsAlone
<1>4. ASSUME NEW t \in Procs,
             \/ \E p \in Proposals : Ledgers!Submit(t, p)
             \/ \E result \in {"accepted", "rejected", "retry_later"} :
                  Ledgers!Execute(t, result)
             \/ Ledgers!PutReceipt(t) \/ Ledgers!Return(t)
      PROVE  Ledgers!LedgerInvariant'
  <2>1. UNCHANGED <<questions, asked>> /\ UNCHANGED <<ledgerClock, records>>
    BY <1>4
       DEF Ledgers!Submit, Ledgers!Execute, Ledgers!PutReceipt, Ledgers!Return,
           Ledgers!attention
  <2>2. Ledgers!ResultsKept'
    BY <1>4, ResultsAfterSubmit, ResultsAfterExecute, ResultsAfterPut, ResultsAfterReturn
       DEF Ledgers!Results
  <2> QED BY <2>1, <2>2, PartsAlone
<1>5. CASE Ledgers!Restart
  <2>1. Ledgers!QuestionsCovered' BY <1>5 DEF Ledgers!Restart, Ledgers!QuestionsCovered
  <2>2. Ledgers!RecordsRationed'
    <3>1. records' = {} /\ ledgerClock' = ledgerClock BY <1>5 DEF Ledgers!Restart
    <3>2. Ledgers!Active' = {} BY <3>1 DEF Ledgers!Active
    <3>3. IsFiniteSet({}) /\ Cardinality({}) = 0 BY FS_EmptySet
    <3>4. \A topic : { r \in Ledgers!Active' : r.topic = topic } = {} BY <3>2
    <3>5. { r \in Ledgers!Active' : Ledgers!Day(r.created) = Ledgers!Day(ledgerClock') } = {}
      BY <3>2
    <3> QED BY <3>1, <3>2, <3>3, <3>4, <3>5, LedgersCount
               DEF Ledgers!RecordsRationed, Ledgers!LedgerAssumption
  <2> QED BY <2>1, <2>2, <1>5, ResultsAfterRestart
<1> QED BY <1>1, <1>2, <1>3, <1>4, <1>5 DEF Ledgers!Next

(***************************************************************************)
(* What the ledgers let through is rationed: no question is shown again    *)
(* while it lives, the caps hold on every day and for every topic, and all *)
(* callers of one proposal are given the one result that the core keeps,   *)
(* whatever the interleaving of the callers, the retries and the restarts  *)
(* (ClarificationEngine.select, InMemoryAttentionLedger.admit,             *)
(* WriteProposalGateway.submit).                                           *)
(***************************************************************************)
THEOREM AttentionStaysRationed ==
  ASSUME Ledgers!LedgerAssumption PROVE Ledgers!Spec => []AttentionIsRationed
<1>1. Ledgers!Init => Ledgers!LedgerInvariant
  <2> SUFFICES ASSUME Ledgers!Init PROVE Ledgers!LedgerInvariant OBVIOUS
  <2> USE DEF Ledgers!Init
  <2>1. Ledgers!QuestionsCovered BY DEF Ledgers!QuestionsCovered
  <2>2. Ledgers!RecordsRationed
    <3>1. Ledgers!Active = {} BY DEF Ledgers!Active
    <3>2. IsFiniteSet({}) /\ Cardinality({}) = 0 BY FS_EmptySet
    <3>3. \A topic : { r \in Ledgers!Active : r.topic = topic } = {} BY <3>1
    <3>4. { r \in Ledgers!Active : Ledgers!Day(r.created) = Ledgers!Day(ledgerClock) } = {}
      BY <3>1
    <3> QED BY <3>1, <3>2, <3>3, <3>4, LedgersCount DEF Ledgers!RecordsRationed, Ledgers!LedgerAssumption
  <2>3. Ledgers!ResultsKept
    <3>1. submits \in [Procs -> Ledgers!Holding] BY DEF Ledgers!Holding
    <3>2. \A u \in Procs : submits[u].at = "idle" BY DEF Ledgers!Idle
    <3> QED BY <3>1, <3>2 DEF Ledgers!ResultsKept
  <2> QED BY <2>1, <2>2, <2>3 DEF Ledgers!LedgerInvariant
<1>2. Ledgers!LedgerInvariant /\ [Ledgers!Next]_Ledgers!vars => Ledgers!LedgerInvariant'
  <2>1. ASSUME Ledgers!LedgerInvariant, UNCHANGED Ledgers!vars
        PROVE  Ledgers!LedgerInvariant'
    BY <2>1, PartsAlone DEF Ledgers!vars, Ledgers!attention, Ledgers!LedgerInvariant
  <2> QED BY <2>1, LedgerStep
<1>3. Ledgers!LedgerInvariant => Ledgers!AttentionIsRationed BY RationedByParts
<1>4. Ledgers!AttentionIsRationed => AttentionIsRationed BY DEF AttentionIsRationed
<1> QED BY <1>1, <1>2, <1>3, <1>4, PTL DEF Ledgers!Spec

-----------------------------------------------------------------------------
(* SnapshotTransfer: packages and their import.                            *)

(* The instance counts as the library does. *)
LEMMA SnapshotCounts ==
  /\ \A S : Snapshot!Cardinality(S) = Cardinality(S)
  /\ \A S : Snapshot!IsFiniteSet(S) = IsFiniteSet(S)
<1>1. ASSUME NEW S PROVE Snapshot!Cardinality(S) = Cardinality(S)
  BY DEF Snapshot!Cardinality, Cardinality
<1>2. ASSUME NEW S PROVE Snapshot!IsFiniteSet(S) = IsFiniteSet(S)
  BY DEF Snapshot!IsFiniteSet, IsFiniteSet
<1> QED BY <1>1, <1>2

(* Two live rows have two payload names. *)
LEMMA NamesDiffer ==
  ASSUME Snapshot!TransferAssumption, NEW f, NEW i \in Snapshot!Live(f),
         NEW j \in Snapshot!Live(f), i < j
  PROVE  Snapshot!PayloadName(f, i) \in Nat
         /\ Snapshot!PayloadName(f, i) < Snapshot!PayloadName(f, j)
<1> DEFINE A == {k \in Snapshot!Live(f) : k < i}
           B == {k \in Snapshot!Live(f) : k < j}
<1>1. i \in Int /\ j \in Int /\ Snapshot!Live(f) \subseteq Int
  BY DEF Snapshot!Live, Snapshot!Ids
<1>2. IsFiniteSet(Snapshot!Live(f))
  <2>1. IsFiniteSet(1..Rows) BY FS_Interval DEF Snapshot!TransferAssumption
  <2>2. Snapshot!Live(f) \subseteq 1..Rows BY DEF Snapshot!Live, Snapshot!Ids
  <2> QED BY <2>1, <2>2, FS_Subset
<1>3. IsFiniteSet(A) /\ IsFiniteSet(B) BY <1>2, FS_Subset
<1>4. A \cup {i} \subseteq B /\ i \notin A BY <1>1
<1> HIDE DEF A, B
<1>5. Cardinality(A \cup {i}) = Cardinality(A) + 1 BY <1>3, <1>4, FS_AddElement
<1>6. Cardinality(A \cup {i}) <= Cardinality(B) BY <1>3, <1>4, FS_Subset
<1>7. Cardinality(A) \in Nat /\ Cardinality(B) \in Nat BY <1>3, FS_CardinalityType
<1> QED BY <1>5, <1>6, <1>7, SnapshotCounts DEF Snapshot!PayloadName, A, B

LEMMA NameIsNumber ==
  ASSUME Snapshot!TransferAssumption, NEW f, NEW i \in Snapshot!Live(f)
  PROVE  Snapshot!PayloadName(f, i) \in Nat
<1>1. IsFiniteSet(1..Rows) BY FS_Interval DEF Snapshot!TransferAssumption
<1>2. {k \in Snapshot!Live(f) : k < i} \subseteq 1..Rows BY DEF Snapshot!Live, Snapshot!Ids
<1> QED BY <1>1, <1>2, FS_Subset, FS_CardinalityType, SnapshotCounts DEF Snapshot!PayloadName

(* So a payload file holds the body of its own row. *)
LEMMA PayloadOfRow ==
  ASSUME Snapshot!TransferAssumption, NEW f, NEW i \in Snapshot!Live(f)
  PROVE  /\ Snapshot!PayloadName(f, i) \in Snapshot!Paths(f)
         /\ Snapshot!PayloadOf(f)[Snapshot!PayloadName(f, i)] = Snapshot!FixtureRows(f)[i]
<1> DEFINE p == Snapshot!PayloadName(f, i)
           P(j) == j \in Snapshot!Live(f) /\ Snapshot!PayloadName(f, j) = p
           c == CHOOSE j \in Snapshot!Live(f) : Snapshot!PayloadName(f, j) = p
<1>1. p \in Snapshot!Paths(f) BY DEF Snapshot!Paths
<1>2. c \in Snapshot!Live(f) /\ Snapshot!PayloadName(f, c) = p
  <2>1. \E j \in Snapshot!Live(f) : Snapshot!PayloadName(f, j) = p OBVIOUS
  <2> QED BY <2>1, Zenon
<1>3. c \in Int /\ i \in Int BY <1>2 DEF Snapshot!Live, Snapshot!Ids
<1> HIDE DEF c
<1>4. ~(c < i) /\ ~(i < c)
  <2>1. c < i => Snapshot!PayloadName(f, c) \in Nat /\ Snapshot!PayloadName(f, c) < p
    BY <1>2, NamesDiffer
  <2>2. i < c => p \in Nat /\ p < Snapshot!PayloadName(f, c) BY <1>2, NamesDiffer
  <2> QED BY <2>1, <2>2, <1>2
<1>5. c = i BY <1>3, <1>4
<1>6. Snapshot!PayloadOf(f)[p] = Snapshot!FixtureRows(f)[c] BY <1>1 DEF Snapshot!PayloadOf, c
<1> QED BY <1>1, <1>5, <1>6

(* A record of a live row is not a tombstone. *)
LEMMA RecordIsLive ==
  ASSUME NEW f, NEW i \in Snapshot!Ids
  PROVE  /\ i \in Snapshot!Live(f) => /\ Snapshot!Snapshot(f)[i] # Snapshot!Tombstone
                             /\ Snapshot!Snapshot(f)[i].path = Snapshot!PayloadName(f, i)
         /\ i \notin Snapshot!Live(f) =>
              Snapshot!Snapshot(f)[i] = Snapshot!Tombstone
              /\ Snapshot!FixtureRows(f)[i] = Snapshot!Tombstone
<1>1. CASE i \in Snapshot!Live(f)
  <2> DEFINE r == [path |-> Snapshot!PayloadName(f, i), content |-> Snapshot!FixtureRows(f)[i]]
  <2>1. Snapshot!Snapshot(f)[i] = r BY <1>1 DEF Snapshot!Snapshot
  <2>2. "path" \in DOMAIN r /\ "path" \notin DOMAIN Snapshot!Tombstone BY DEF Snapshot!Tombstone
  <2> QED BY <1>1, <2>1, <2>2
<1>2. CASE i \notin Snapshot!Live(f) BY <1>2 DEF Snapshot!Snapshot, Snapshot!Live
<1> QED BY <1>1, <1>2

(* An import that read all its payloads as recorded has the whole fixture. *)
LEMMA WholeIsRead ==
  ASSUME Snapshot!TransferAssumption, NEW i, Snapshot!ReadAll(i),
         \A x \in DOMAIN i.payload : i.payload[x] = Snapshot!RecordContent(i, x)
  PROVE  Snapshot!SealRecords(i) = Snapshot!FixtureRows(i.snapshot)
<1> DEFINE f == i.snapshot
<1>1. ASSUME NEW id \in Snapshot!Ids
      PROVE  Snapshot!SealRecords(i)[id] = Snapshot!FixtureRows(f)[id]
  <2>1. CASE id \in Snapshot!Live(f)
    <3>1. Snapshot!SealRecords(i)[id] = i.payload[Snapshot!PayloadName(f, id)]
      BY <2>1, RecordIsLive DEF Snapshot!SealRecords
    <3>2. Snapshot!PayloadName(f, id) \in Snapshot!Paths(f)
          /\ Snapshot!PayloadOf(f)[Snapshot!PayloadName(f, id)] = Snapshot!FixtureRows(f)[id]
      BY <2>1, PayloadOfRow
    <3>3. Snapshot!PayloadName(f, id) \in DOMAIN i.payload
      BY <3>2 DEF Snapshot!ReadAll, Snapshot!Bind
    <3> QED BY <3>1, <3>2, <3>3 DEF Snapshot!RecordContent
  <2>2. CASE id \notin Snapshot!Live(f) BY <2>2, RecordIsLive DEF Snapshot!SealRecords
  <2> QED BY <2>1, <2>2
<1> QED BY <1>1 DEF Snapshot!SealRecords, Snapshot!FixtureRows

(* A sealed tree is a package. *)
LEMMA TreeIsPackage ==
  ASSUME Snapshot!TransferAssumption, NEW f \in Fixtures, NEW n \in Nat
  PROVE  Snapshot!SealedTree(f, n) \in [fixture : Fixtures, files : Snapshot!FileTrees]
         /\ Snapshot!SealedTree(f, n).fixture = f
<1> DEFINE t == [path \in Snapshot!Paths(f) |-> [content |-> Snapshot!PayloadOf(f)[path], meta |-> n]]
<1>1. Snapshot!Paths(f) \subseteq Nat BY NameIsNumber DEF Snapshot!Paths
<1>2. ASSUME NEW p \in Snapshot!Paths(f)
      PROVE  Snapshot!PayloadOf(f)[p] \in Snapshot!Contents
  <2>1. PICK i \in Snapshot!Live(f) : p = Snapshot!PayloadName(f, i) BY DEF Snapshot!Paths
  <2>2. Snapshot!PayloadOf(f)[p] = Snapshot!FixtureRows(f)[i] BY <2>1, PayloadOfRow
  <2>3. Snapshot!FixtureRows(f)[i] = [kind |-> "body", fixture |-> f, row |-> i]
        /\ i \in Snapshot!Ids
    BY DEF Snapshot!Live, Snapshot!FixtureRows
  <2> QED BY <2>2, <2>3 DEF Snapshot!Contents
<1>3. t \in [Snapshot!Paths(f) -> [content : Snapshot!Contents, meta : Nat]] BY <1>2
<1>4. t \in Snapshot!FileTrees BY <1>1, <1>3 DEF Snapshot!FileTrees
<1> QED BY <1>4 DEF Snapshot!SealedTree

(* The fixtures of the packages stay when one is published or edited. *)
LEMMA EditKeepsPackages ==
  ASSUME Snapshot!TransferAssumption, Snapshot!PackagesTyped, NEW path,
         NEW keep \in BOOLEAN, Snapshot!Edit(path, keep)
  PROVE  Snapshot!PackagesTyped'
         /\ \A f : Snapshot!Exported(packages, f) => Snapshot!Exported(packages', f)
<1> DEFINE t == packages[packageDest].files
           e == [content |-> Snapshot!Edited, meta |-> IF keep THEN t[path].meta ELSE MaxPackages + edits + 1]
           u == [t EXCEPT ![path] = e]
           k == [packages[packageDest] EXCEPT !.files = u]
<1>1. /\ packageDest # 0 /\ path \in DOMAIN t /\ edits' = edits + 1
      /\ packages' = [packages EXCEPT ![packageDest] = k]
      /\ packageDest' = packageDest /\ exports' = exports
  BY DEF Snapshot!Edit, Snapshot!exportVars
<1>2. packageDest \in 1..Len(packages)
      /\ packages[packageDest] \in [fixture : Fixtures, files : Snapshot!FileTrees]
  <2>1. packageDest # 0 BY <1>1
  <2> HIDE DEF k
  <2>2. packageDest \in 1..Len(packages) BY <2>1 DEF Snapshot!PackagesTyped
  <2> DEFINE S == [fixture : Fixtures, files : Snapshot!FileTrees]
  <2> HIDE DEF S
  <2>3. packages \in Seq(S) BY DEF Snapshot!PackagesTyped, S
  <2>4. packages[packageDest] \in S BY <2>2, <2>3
  <2> QED BY <2>2, <2>4 DEF S
<1>3. t \in Snapshot!FileTrees BY <1>2
<1>4. PICK P \in SUBSET Nat : t \in [P -> [content : Snapshot!Contents, meta : Nat]]
  BY <1>3 DEF Snapshot!FileTrees
<1>5. e \in [content : Snapshot!Contents, meta : Nat]
  BY <1>1, <1>4 DEF Snapshot!Contents, Snapshot!PackagesTyped, Snapshot!TransferAssumption
<1>6. u \in Snapshot!FileTrees
  <2>1. u \in [P -> [content : Snapshot!Contents, meta : Nat]]
    <3> HIDE DEF e
    <3> QED BY <1>4, <1>5
  <2> QED BY <2>1 DEF Snapshot!FileTrees
<1> HIDE DEF u
<1>7. k \in [fixture : Fixtures, files : Snapshot!FileTrees]
      /\ k.fixture = packages[packageDest].fixture
  BY <1>2, <1>6
<1> HIDE DEF k
<1>8. packages' \in Seq([fixture : Fixtures, files : Snapshot!FileTrees])
      /\ Len(packages') = Len(packages)
  BY <1>1, <1>2, <1>7 DEF Snapshot!PackagesTyped
<1>9. \A n \in 1..Len(packages) : packages'[n].fixture = packages[n].fixture
  BY <1>1, <1>2, <1>7 DEF Snapshot!PackagesTyped
<1> QED BY <1>1, <1>8, <1>9 DEF Snapshot!PackagesTyped, Snapshot!Exported

LEMMA CommitKeepsPackages ==
  ASSUME Snapshot!TransferAssumption, Snapshot!PackagesTyped, NEW p \in Exporters,
         Snapshot!Commit(p)
  PROVE  Snapshot!PackagesTyped'
         /\ \A f : Snapshot!Exported(packages, f) => Snapshot!Exported(packages', f)
<1> DEFINE f == exports[p].fixture
           n == Len(packages) + 1
<1>1. exports[p] \in [phase : {"staging", "renamed"}, fixture : Fixtures]
  BY DEF Snapshot!Commit, Snapshot!PackagesTyped, Snapshot!Idle
<1>2. edits' = edits BY DEF Snapshot!Commit
<1>3. CASE packageDest # 0
  <2>1. exports' = [exports EXCEPT ![p] = Snapshot!Idle] /\ UNCHANGED Snapshot!packageVars
    BY <1>3 DEF Snapshot!Commit
  <2> QED BY <2>1, <1>2 DEF Snapshot!PackagesTyped, Snapshot!packageVars
<1>4. CASE packageDest = 0
  <2>1. /\ packages' = Append(packages, Snapshot!SealedTree(f, n)) /\ packageDest' = n
        /\ exports' = [exports EXCEPT ![p] = [@ EXCEPT !.phase = "renamed"]]
    BY <1>4 DEF Snapshot!Commit
  <2>2. f \in Fixtures /\ n \in Nat BY <1>1 DEF Snapshot!PackagesTyped
  <2>3. Snapshot!SealedTree(f, n) \in [fixture : Fixtures, files : Snapshot!FileTrees]
    BY <2>2, TreeIsPackage
  <2>4. /\ packages' \in Seq([fixture : Fixtures, files : Snapshot!FileTrees])
        /\ Len(packages') = n
        /\ \A m \in 1..Len(packages) : packages'[m] = packages[m]
    <3> DEFINE x == Snapshot!SealedTree(f, n)
    <3> HIDE DEF x
    <3> QED BY <2>1, <2>3 DEF Snapshot!PackagesTyped, x
  <2>5. exports' \in [Exporters -> {Snapshot!Idle} \cup [phase : {"staging", "renamed"}, fixture : Fixtures]]
    BY <2>1, <1>1 DEF Snapshot!PackagesTyped
  <2>6. Snapshot!PackagesTyped' BY <1>2, <2>1, <2>2, <2>4, <2>5 DEF Snapshot!PackagesTyped
  <2>7. \A g : Snapshot!Exported(packages, g) => Snapshot!Exported(packages', g)
    BY <2>4 DEF Snapshot!Exported, Snapshot!PackagesTyped
  <2> QED BY <2>6, <2>7
<1> QED BY <1>3, <1>4

(* The other steps leave the packages alone. *)
LEMMA PackagesStay ==
  ASSUME Snapshot!PackagesTyped, UNCHANGED packages, UNCHANGED edits,
         packageDest' \in {0, packageDest},
         \/ UNCHANGED exports
         \/ exports' = [p \in Exporters |-> Snapshot!Idle]
         \/ \E p \in Exporters : exports' = [exports EXCEPT ![p] = Snapshot!Idle]
         \/ \E p \in Exporters, f \in Fixtures :
               exports' = [exports EXCEPT ![p] = [phase |-> "staging", fixture |-> f]]
  PROVE  Snapshot!PackagesTyped'
BY DEF Snapshot!PackagesTyped

(* More packages take nothing from an import or a cohort. *)
LEMMA ExportsGrow ==
  ASSUME \A f : Snapshot!Exported(packages, f) => Snapshot!Exported(packages', f),
         UNCHANGED <<cohorts, importReceipts>>, Snapshot!ImportsRead, Snapshot!CohortsWhole,
         UNCHANGED imports \/ imports' = [q \in Importers |-> Snapshot!Idle]
  PROVE  Snapshot!ImportsRead' /\ Snapshot!CohortsWhole'
<1>1. Snapshot!CohortsWhole' BY DEF Snapshot!CohortsWhole
<1>2. ASSUME UNCHANGED imports PROVE Snapshot!ImportsRead'
  <2>1. \A i : Snapshot!ReadsTheExport(packages, i) => Snapshot!ReadsTheExport(packages', i)
    BY DEF Snapshot!ReadsTheExport
  <2> QED BY <1>2, <2>1 DEF Snapshot!ImportsRead
<1>3. ASSUME imports' = [q \in Importers |-> Snapshot!Idle] PROVE Snapshot!ImportsRead'
  BY <1>3 DEF Snapshot!ImportsRead, Snapshot!ReadsTheExport, Snapshot!Idle
<1> QED BY <1>1, <1>2, <1>3

(* One importer moves, and what it then holds is as the snapshot records. *)
LEMMA ImporterMoves ==
  ASSUME Snapshot!ImportsRead, NEW q \in Importers, NEW v,
         Snapshot!ReadsTheExport(packages, v),
         imports' = [imports EXCEPT ![q] = v], UNCHANGED packages
  PROVE  Snapshot!ImportsRead'
BY DEF Snapshot!ImportsRead

LEMMA IdleReads == Snapshot!ReadsTheExport(packages, Snapshot!Idle)
BY DEF Snapshot!ReadsTheExport, Snapshot!Idle

(* The package that is in place was exported from its fixture. *)
LEMMA DestIsExported ==
  ASSUME Snapshot!PackagesTyped, packageDest # 0
  PROVE  Snapshot!Exported(packages, packages[packageDest].fixture)
BY DEF Snapshot!PackagesTyped, Snapshot!Exported

LEMMA HandoffReads ==
  ASSUME Snapshot!TransferInvariant, NEW q \in Importers,
         Snapshot!VerifyPackage(q) \/ Snapshot!Reopen(q) \/ Snapshot!ScanTree(q)
         \/ \E c \in ImportCohorts : Snapshot!VerifyUnchanged(q, c)
  PROVE  Snapshot!ImportsRead'
<1> USE DEF Snapshot!TransferInvariant
<1> DEFINE i == imports[q]
<1>0. UNCHANGED packages /\ Snapshot!ReadsTheExport(packages, i)
  BY DEF Snapshot!VerifyPackage, Snapshot!Reopen, Snapshot!ScanTree,
         Snapshot!VerifyUnchanged, Snapshot!packageVars, Snapshot!ImportsRead
<1>1. CASE Snapshot!VerifyPackage(q)
  <2> DEFINE v == [phase |-> "verified", receipt |-> packages[packageDest].fixture]
  <2>1. imports' = [imports EXCEPT ![q] = v] BY <1>1 DEF Snapshot!VerifyPackage
  <2>2. v.phase = "verified" OBVIOUS
  <2> HIDE DEF v
  <2>3. Snapshot!ReadsTheExport(packages, v) BY <2>2 DEF Snapshot!ReadsTheExport
  <2> QED BY <2>1, <2>3, <1>0, ImporterMoves
<1>2. CASE Snapshot!Reopen(q)
  <2> DEFINE v == [phase |-> "reopened", receipt |-> i.receipt, snapshot |-> packages[packageDest].fixture]
  <2>1. imports' = [imports EXCEPT ![q] = v] /\ packageDest # 0 BY <1>2 DEF Snapshot!Reopen
  <2>2. v.phase = "reopened" /\ v.snapshot = packages[packageDest].fixture OBVIOUS
  <2> HIDE DEF v
  <2>3. Snapshot!ReadsTheExport(packages, v)
    BY <2>1, <2>2, DestIsExported DEF Snapshot!ReadsTheExport
  <2> QED BY <2>1, <2>3, <1>0, ImporterMoves
<1>3. CASE Snapshot!ScanTree(q)
  <2> DEFINE v == [phase |-> "scanned", receipt |-> i.receipt, snapshot |-> i.snapshot,
                   seen |-> Snapshot!Metadata(packageDest)]
  <2>1. imports' = [imports EXCEPT ![q] = v] /\ i.phase = "reopened"
    BY <1>3 DEF Snapshot!ScanTree
  <2>2. v.phase = "scanned" /\ v.snapshot = i.snapshot OBVIOUS
  <2> HIDE DEF v
  <2>3. Snapshot!ReadsTheExport(packages, v) BY <2>1, <2>2, <1>0 DEF Snapshot!ReadsTheExport
  <2> QED BY <2>1, <2>3, <1>0, ImporterMoves
<1>4. ASSUME NEW c \in ImportCohorts, Snapshot!VerifyUnchanged(q, c)
      PROVE  Snapshot!ImportsRead'
  <2> DEFINE v == Snapshot!Request(i, c)
  <2>1. i.phase = "scanned" /\ (\/ imports' = [imports EXCEPT ![q] = v]
                                \/ imports' = [imports EXCEPT ![q] = Snapshot!Idle])
    BY <1>4 DEF Snapshot!VerifyUnchanged
  <2>2. /\ v.phase = "requested" /\ v.snapshot = i.snapshot /\ v.cohort = c
        /\ DOMAIN v.payload = {} /\ Snapshot!IsRequest(v)
    BY DEF Snapshot!Request, Snapshot!IsRequest
  <2> HIDE DEF v
  <2>3. Snapshot!ReadsTheExport(packages, v) BY <2>1, <2>2, <1>0 DEF Snapshot!ReadsTheExport
  <2> QED BY <2>1, <2>3, <1>0, ImporterMoves, IdleReads
<1> QED BY <1>1, <1>2, <1>3, <1>4

(* A request with other descriptors open, or one more payload read, is one   *)
(* still.                                                                    *)
LEMMA AdmitReads ==
  ASSUME Snapshot!TransferInvariant, NEW q \in Importers, Snapshot!Admit(q)
  PROVE  Snapshot!ImportsRead'
<1> USE DEF Snapshot!TransferInvariant
<1> DEFINE i == imports[q]
           path == Cardinality(DOMAIN i.open)
           o == [x \in DOMAIN i.open \cup {path} |-> IF x = path THEN packageDest ELSE i.open[x]]
           v == [i EXCEPT !.open = o]
<1>0. UNCHANGED packages /\ Snapshot!ReadsTheExport(packages, i)
  BY DEF Snapshot!Admit, Snapshot!packageVars, Snapshot!ImportsRead
<1>1. i.phase = "requested" /\ (\/ imports' = [imports EXCEPT ![q] = v]
                                \/ imports' = [imports EXCEPT ![q] = Snapshot!Idle])
  BY SnapshotCounts DEF Snapshot!Admit
<1>2. Snapshot!IsRequest(i) /\ i.cohort \in ImportCohorts
      /\ Snapshot!Exported(packages, i.snapshot)
      /\ \A x \in DOMAIN i.payload : i.payload[x] = Snapshot!RecordContent(i, x)
  BY <1>0, <1>1 DEF Snapshot!ReadsTheExport
<1> HIDE DEF o
<1>3. v = [phase |-> i.phase, cohort |-> i.cohort, snapshot |-> i.snapshot,
           discovery |-> i.discovery, open |-> o, payload |-> i.payload]
  BY <1>2 DEF Snapshot!IsRequest
<1>4. /\ v.phase = i.phase /\ v.cohort = i.cohort /\ v.snapshot = i.snapshot
      /\ v.payload = i.payload /\ v.discovery = i.discovery /\ v.open = o
  BY <1>3
<1>5. Snapshot!IsRequest(v) BY <1>3, <1>4 DEF Snapshot!IsRequest
<1> HIDE DEF v
<1>6. Snapshot!ReadsTheExport(packages, v)
  BY <1>1, <1>2, <1>4, <1>5 DEF Snapshot!ReadsTheExport, Snapshot!RecordContent
<1> QED BY <1>0, <1>1, <1>6, ImporterMoves, IdleReads

LEMMA FinishReads ==
  ASSUME Snapshot!TransferInvariant, NEW q \in Importers, Snapshot!Finish(q)
  PROVE  Snapshot!ImportsRead'
<1> USE DEF Snapshot!TransferInvariant
<1> DEFINE i == imports[q]
           path == Cardinality(DOMAIN i.payload)
           file == packages[i.open[path]].files[path]
           good == file.meta = i.discovery[path]
           /\ file.content = Snapshot!RecordContent(i, path)
           p == [x \in DOMAIN i.payload \cup {path} |->
                   IF x = path THEN file.content ELSE i.payload[x]]
           v == [i EXCEPT !.payload = p]
<1>0. UNCHANGED packages /\ Snapshot!ReadsTheExport(packages, i)
  BY DEF Snapshot!Finish, Snapshot!packageVars, Snapshot!ImportsRead
<1>1. i.phase = "requested"
      /\ imports' = [imports EXCEPT ![q] = IF ~good THEN Snapshot!Idle ELSE v]
  BY SnapshotCounts DEF Snapshot!Finish
<1>2. Snapshot!IsRequest(i) /\ i.cohort \in ImportCohorts
      /\ Snapshot!Exported(packages, i.snapshot)
      /\ \A x \in DOMAIN i.payload : i.payload[x] = Snapshot!RecordContent(i, x)
  BY <1>0, <1>1 DEF Snapshot!ReadsTheExport
<1>3. CASE ~good BY <1>3, <1>0, <1>1, ImporterMoves, IdleReads
<1>4. CASE good
  <2>1. \A x \in DOMAIN p : p[x] = Snapshot!RecordContent(i, x) BY <1>4, <1>2
  <2> HIDE DEF p
  <2>3. v = [phase |-> i.phase, cohort |-> i.cohort, snapshot |-> i.snapshot,
             discovery |-> i.discovery, open |-> i.open, payload |-> p]
    BY <1>2 DEF Snapshot!IsRequest
  <2>4. /\ v.phase = i.phase /\ v.cohort = i.cohort /\ v.snapshot = i.snapshot
        /\ v.payload = p /\ v.discovery = i.discovery /\ v.open = i.open
    BY <2>3
  <2>5. Snapshot!IsRequest(v) BY <2>3, <2>4 DEF Snapshot!IsRequest
  <2>6. imports' = [imports EXCEPT ![q] = v] BY <1>1, <1>4
  <2> HIDE DEF v
  <2>7. Snapshot!ReadsTheExport(packages, v)
    BY <1>1, <1>2, <2>1, <2>4, <2>5 DEF Snapshot!ReadsTheExport, Snapshot!RecordContent
  <2> QED BY <1>0, <2>6, <2>7, ImporterMoves
<1> QED BY <1>3, <1>4

LEMMA LookupKeeps ==
  ASSUME Snapshot!TransferAssumption, Snapshot!TransferInvariant, NEW q \in Importers,
         Snapshot!PersistLookup(q)
  PROVE  Snapshot!ImportsRead' /\ Snapshot!CohortsWhole'
<1> USE DEF Snapshot!TransferInvariant
<1> DEFINE i == imports[q]
           v == [i EXCEPT !.phase = "sealed"]
<1>0. UNCHANGED packages /\ UNCHANGED cohorts /\ Snapshot!ReadsTheExport(packages, i)
  BY DEF Snapshot!PersistLookup, Snapshot!packageVars, Snapshot!ImportsRead
<1>1. i.phase = "requested" /\ Snapshot!ReadAll(i) BY DEF Snapshot!PersistLookup
<1>2. Snapshot!IsRequest(i) /\ i.cohort \in ImportCohorts
      /\ Snapshot!Exported(packages, i.snapshot)
      /\ \A x \in DOMAIN i.payload : i.payload[x] = Snapshot!RecordContent(i, x)
  BY <1>0, <1>1 DEF Snapshot!ReadsTheExport
<1>3. CASE cohorts[i.cohort] = Snapshot!None
  <2>1. imports' = [imports EXCEPT ![q] = v] /\ UNCHANGED importReceipts
    BY <1>3 DEF Snapshot!PersistLookup
  <2>3. v = [phase |-> "sealed", cohort |-> i.cohort, snapshot |-> i.snapshot,
             discovery |-> i.discovery, open |-> i.open, payload |-> i.payload]
    BY <1>2 DEF Snapshot!IsRequest
  <2>4. /\ v.phase = "sealed" /\ v.cohort = i.cohort /\ v.snapshot = i.snapshot
        /\ v.payload = i.payload /\ v.discovery = i.discovery /\ v.open = i.open
    BY <2>3
  <2>5. Snapshot!IsRequest(v) BY <2>3, <2>4 DEF Snapshot!IsRequest
  <2> HIDE DEF v
  <2>6. Snapshot!ReadsTheExport(packages, v)
    BY <1>1, <1>2, <2>4, <2>5
       DEF Snapshot!ReadsTheExport, Snapshot!RecordContent, Snapshot!ReadAll, Snapshot!Bind
  <2>7. Snapshot!ImportsRead' BY <1>0, <2>1, <2>6, ImporterMoves
  <2>8. Snapshot!CohortsWhole' BY <2>1, <1>0 DEF Snapshot!CohortsWhole
  <2> QED BY <2>7, <2>8
<1>4. CASE cohorts[i.cohort] # Snapshot!None
  <2>1. /\ imports' = [imports EXCEPT ![q] = Snapshot!Idle]
        /\ importReceipts' = IF Snapshot!RequireExact(i) THEN importReceipts \cup {Snapshot!Receipt(i)} ELSE importReceipts
    BY <1>4 DEF Snapshot!PersistLookup
  <2>2. Snapshot!ImportsRead' BY <2>1, <1>0, ImporterMoves, IdleReads
  <2>3. Snapshot!RequireExact(i) => /\ cohorts[i.cohort].snapshot = i.snapshot
                           /\ cohorts[i.cohort].discovery = i.discovery
    BY DEF Snapshot!RequireExact, Snapshot!CohortRow
  <2>4. Snapshot!Receipt(i).cohort = i.cohort /\ Snapshot!Receipt(i).snapshot = i.snapshot
        /\ Snapshot!Receipt(i).discovery = i.discovery
    BY DEF Snapshot!Receipt
  <2>5. Snapshot!CohortsWhole' BY <1>0, <1>2, <1>4, <2>1, <2>3, <2>4 DEF Snapshot!CohortsWhole
  <2> QED BY <2>2, <2>5
<1> QED BY <1>3, <1>4

LEMMA InsertKeeps ==
  ASSUME Snapshot!TransferAssumption, Snapshot!TransferInvariant, NEW q \in Importers,
         Snapshot!InsertImport(q)
  PROVE  Snapshot!ImportsRead' /\ Snapshot!CohortsWhole'
<1> USE DEF Snapshot!TransferInvariant
<1> DEFINE i == imports[q]
           free == cohorts[i.cohort] = Snapshot!None
<1>0. UNCHANGED packages /\ Snapshot!ReadsTheExport(packages, i)
  BY DEF Snapshot!InsertImport, Snapshot!packageVars, Snapshot!ImportsRead
<1>1. /\ i.phase = "sealed"
      /\ cohorts' = IF free THEN [cohorts EXCEPT ![i.cohort] = Snapshot!CohortRow(i)] ELSE cohorts
      /\ importReceipts' = IF free \/ Snapshot!RequireExact(i) THEN importReceipts \cup {Snapshot!Receipt(i)} ELSE importReceipts
      /\ imports' = [imports EXCEPT ![q] = Snapshot!Idle]
  BY DEF Snapshot!InsertImport
<1>2. Snapshot!ReadAll(i) /\ i.cohort \in ImportCohorts
      /\ Snapshot!Exported(packages, i.snapshot)
      /\ \A x \in DOMAIN i.payload : i.payload[x] = Snapshot!RecordContent(i, x)
  BY <1>0, <1>1 DEF Snapshot!ReadsTheExport
<1>3. Snapshot!ImportsRead' BY <1>1, <1>0, ImporterMoves, IdleReads
<1>4. /\ Snapshot!CohortRow(i).snapshot = i.snapshot
      /\ Snapshot!CohortRow(i).discovery = i.discovery
      /\ Snapshot!CohortRow(i).records = Snapshot!FixtureRows(i.snapshot)
      /\ Snapshot!CohortRow(i) # Snapshot!None
  <2>1. Snapshot!SealRecords(i) = Snapshot!FixtureRows(i.snapshot) BY <1>2, WholeIsRead
  <2>2. Snapshot!CohortRow(i).kind = "cohort" /\ Snapshot!None.kind = "none"
    BY DEF Snapshot!CohortRow, Snapshot!None
  <2> QED BY <2>1, <2>2 DEF Snapshot!CohortRow
<1>5. Snapshot!Receipt(i).cohort = i.cohort /\ Snapshot!Receipt(i).snapshot = i.snapshot
      /\ Snapshot!Receipt(i).discovery = i.discovery
  BY DEF Snapshot!Receipt
<1>6. DOMAIN cohorts' = ImportCohorts /\ DOMAIN cohorts = ImportCohorts
  BY <1>1 DEF Snapshot!CohortsWhole
<1>7. \A c \in ImportCohorts : cohorts[c] # Snapshot!None => cohorts'[c] = cohorts[c]
  BY <1>1, <1>6
<1>8. free \/ Snapshot!RequireExact(i) =>
         /\ cohorts'[i.cohort] # Snapshot!None
         /\ cohorts'[i.cohort].snapshot = i.snapshot
         /\ cohorts'[i.cohort].discovery = i.discovery
  <2>1. CASE free
    <3>1. cohorts'[i.cohort] = Snapshot!CohortRow(i) BY <2>1, <1>1, <1>2, <1>6
    <3> QED BY <3>1, <1>4
  <2>2. CASE ~free BY <2>2, <1>1, <1>4 DEF Snapshot!RequireExact
  <2> QED BY <2>1, <2>2
<1>9. ASSUME NEW c \in ImportCohorts, cohorts'[c] # Snapshot!None
      PROVE  /\ cohorts'[c].records = Snapshot!FixtureRows(cohorts'[c].snapshot)
             /\ Snapshot!Exported(packages', cohorts'[c].snapshot)
  <2>1. CASE cohorts'[c] = cohorts[c] BY <2>1, <1>0, <1>9 DEF Snapshot!CohortsWhole
  <2>2. CASE cohorts'[c] = Snapshot!CohortRow(i) BY <2>2, <1>0, <1>2, <1>4
  <2> QED BY <2>1, <2>2, <1>1, <1>6
<1>10. ASSUME NEW r \in importReceipts'
       PROVE  /\ r.cohort \in ImportCohorts /\ cohorts'[r.cohort] # Snapshot!None
              /\ cohorts'[r.cohort].snapshot = r.snapshot
              /\ cohorts'[r.cohort].discovery = r.discovery
  <2>1. CASE r \in importReceipts BY <2>1, <1>7 DEF Snapshot!CohortsWhole
  <2>2. CASE r \notin importReceipts
    <3>1. r = Snapshot!Receipt(i) /\ (free \/ Snapshot!RequireExact(i)) BY <2>2, <1>1
    <3> QED BY <3>1, <1>2, <1>5, <1>8
  <2> QED BY <2>1, <2>2
<1> QED BY <1>3, <1>6, <1>9, <1>10 DEF Snapshot!CohortsWhole

LEMMA TransferStep ==
  ASSUME Snapshot!TransferAssumption, Snapshot!TransferInvariant, Snapshot!Next
  PROVE  Snapshot!TransferInvariant'
<1> USE DEF Snapshot!TransferInvariant
<1>1. ASSUME NEW p \in Exporters, Snapshot!Commit(p) PROVE Snapshot!TransferInvariant'
  <2>1. UNCHANGED <<cohorts, importReceipts>> /\ UNCHANGED imports
    BY <1>1 DEF Snapshot!Commit, Snapshot!storeVars
  <2> QED BY <2>1, <1>1, CommitKeepsPackages, ExportsGrow
<1>2. ASSUME NEW path, NEW keep \in BOOLEAN, Snapshot!Edit(path, keep)
      PROVE  Snapshot!TransferInvariant'
  <2>1. UNCHANGED <<cohorts, importReceipts>> /\ UNCHANGED imports
    BY <1>2 DEF Snapshot!Edit, Snapshot!storeVars
  <2> QED BY <2>1, <1>2, EditKeepsPackages, ExportsGrow
<1>3. ASSUME \/ \E p \in Exporters :
                   \/ \E f, g \in Fixtures : Snapshot!Start(p, f, g)
                   \/ \E ok \in BOOLEAN : Snapshot!FsyncParent(p, ok)
                   \/ Snapshot!Abort(p) \/ Snapshot!CrashExport(p)
             \/ Snapshot!PowerLoss \/ Snapshot!Remove
             \/ \E c \in ImportCohorts : Snapshot!Damage(c)
      PROVE  Snapshot!TransferInvariant'
  <2>1. /\ UNCHANGED packages /\ UNCHANGED edits /\ packageDest' \in {0, packageDest}
        /\ \/ UNCHANGED exports
           \/ exports' = [p \in Exporters |-> Snapshot!Idle]
           \/ \E p \in Exporters : exports' = [exports EXCEPT ![p] = Snapshot!Idle]
           \/ \E p \in Exporters, f \in Fixtures :
                 exports' = [exports EXCEPT ![p] = [phase |-> "staging", fixture |-> f]]
    BY <1>3
       DEF Snapshot!Start, Snapshot!FsyncParent, Snapshot!Abort, Snapshot!CrashExport,
           Snapshot!PowerLoss, Snapshot!Remove, Snapshot!Damage, Snapshot!packageVars,
                Snapshot!exportVars
  <2>2. /\ UNCHANGED <<cohorts, importReceipts>>
        /\ UNCHANGED imports \/ imports' = [q \in Importers |-> Snapshot!Idle]
    BY <1>3
       DEF Snapshot!Start, Snapshot!FsyncParent, Snapshot!Abort, Snapshot!CrashExport,
           Snapshot!PowerLoss, Snapshot!Remove, Snapshot!Damage, Snapshot!storeVars
  <2>3. \A f : Snapshot!Exported(packages, f) => Snapshot!Exported(packages', f) BY <2>1
  <2> QED BY <2>1, <2>2, <2>3, PackagesStay, ExportsGrow
<1>4. ASSUME NEW q \in Importers,
             \/ Snapshot!VerifyPackage(q) \/ Snapshot!Reopen(q) \/ Snapshot!ScanTree(q)
             \/ \E c \in ImportCohorts : Snapshot!VerifyUnchanged(q, c)
             \/ Snapshot!Admit(q) \/ Snapshot!Finish(q)
             \/ Snapshot!PersistLookup(q) \/ Snapshot!InsertImport(q)
             \/ Snapshot!CrashImport(q)
      PROVE  Snapshot!TransferInvariant'
  <2>1. UNCHANGED packages /\ UNCHANGED edits /\ packageDest' = packageDest
        /\ UNCHANGED exports
    BY <1>4
       DEF Snapshot!VerifyPackage, Snapshot!Reopen, Snapshot!ScanTree,
           Snapshot!VerifyUnchanged, Snapshot!Admit, Snapshot!Finish,
           Snapshot!PersistLookup,
                Snapshot!InsertImport, Snapshot!CrashImport, Snapshot!packageVars,
                Snapshot!exportVars
  <2>2. Snapshot!PackagesTyped' BY <2>1, PackagesStay
  <2>3. ASSUME ~Snapshot!PersistLookup(q), ~Snapshot!InsertImport(q)
        PROVE  Snapshot!CohortsWhole'
    <3>1. UNCHANGED <<cohorts, importReceipts>>
      BY <1>4, <2>3
         DEF Snapshot!VerifyPackage, Snapshot!Reopen, Snapshot!ScanTree,
             Snapshot!VerifyUnchanged, Snapshot!Admit, Snapshot!Finish,
                        Snapshot!CrashImport, Snapshot!storeVars
    <3> QED BY <3>1, <2>1 DEF Snapshot!CohortsWhole
  <2>4. Snapshot!CohortsWhole' BY <2>3, LookupKeeps, InsertKeeps
  <2>5. CASE Snapshot!CrashImport(q)
    <3>1. imports' = [imports EXCEPT ![q] = Snapshot!Idle] BY <2>5 DEF Snapshot!CrashImport
    <3>2. Snapshot!ImportsRead' BY <3>1, <2>1, ImporterMoves, IdleReads
    <3> QED BY <3>2, <2>2, <2>4
  <2> QED
    BY <1>4, <2>2, <2>4, <2>5, HandoffReads, AdmitReads, FinishReads, LookupKeeps,
    InsertKeeps
<1> QED BY <1>1, <1>2, <1>3, <1>4 DEF Snapshot!Next

(* The invariant is what the property asks for. *)
LEMMA WholeIsTheExport ==
  ASSUME Snapshot!TransferInvariant PROVE Snapshot!ImportIsTheExport
<1>1. ASSUME NEW c \in ImportCohorts, cohorts[c] # Snapshot!None,
             Snapshot!RestoreImport(c) # Snapshot!None
      PROVE  Snapshot!RestoreImport(c).records = Snapshot!FixtureRows(cohorts[c].snapshot)
  <2>1. Snapshot!RestoreImport(c).records = [id \in Snapshot!Ids |-> cohorts[c].records[id]]
    BY <1>1 DEF Snapshot!RestoreImport, Snapshot!OpenRecord
  <2>2. cohorts[c].records = Snapshot!FixtureRows(cohorts[c].snapshot)
    BY <1>1 DEF Snapshot!TransferInvariant, Snapshot!CohortsWhole
  <2> QED BY <2>1, <2>2 DEF Snapshot!FixtureRows
<1> QED BY <1>1
           DEF Snapshot!ImportIsTheExport, Snapshot!TransferInvariant,
               Snapshot!CohortsWhole, Snapshot!Exported

(***************************************************************************)
(* What an import stores is one whole exported fixture, row by row and     *)
(* body by body, and it is what its receipts were issued for: whatever     *)
(* exporters, importers, the operator's edits and crashes do in between,   *)
(* and for any number of rows (SourceImportService._finish,                *)
(* persist_import, restore_import).                                        *)
(***************************************************************************)
THEOREM ImportStaysTheExport ==
  ASSUME Snapshot!TransferAssumption PROVE Snapshot!Spec => []ImportIsTheExport
<1>1. Snapshot!Init => Snapshot!TransferInvariant
  <2> SUFFICES ASSUME Snapshot!Init PROVE Snapshot!TransferInvariant OBVIOUS
  <2>1. Snapshot!PackagesTyped BY DEF Snapshot!Init, Snapshot!PackagesTyped
  <2>2. Snapshot!ImportsRead BY IdleReads DEF Snapshot!Init, Snapshot!ImportsRead
  <2>3. Snapshot!CohortsWhole BY DEF Snapshot!Init, Snapshot!CohortsWhole
  <2> QED BY <2>1, <2>2, <2>3 DEF Snapshot!TransferInvariant
<1>2. Snapshot!TransferInvariant /\ [Snapshot!Next]_Snapshot!vars => Snapshot!TransferInvariant'
  <2>1. ASSUME Snapshot!TransferInvariant, UNCHANGED Snapshot!vars
        PROVE  Snapshot!TransferInvariant'
    <3>1. /\ UNCHANGED packages /\ UNCHANGED edits /\ packageDest' = packageDest
          /\ UNCHANGED exports
          /\ UNCHANGED <<cohorts, importReceipts>> /\ UNCHANGED imports
      BY <2>1
         DEF Snapshot!vars, Snapshot!packageVars, Snapshot!exportVars, Snapshot!storeVars
    <3>2. \A f : Snapshot!Exported(packages, f) => Snapshot!Exported(packages', f) BY <3>1
    <3> QED BY <2>1, <3>1, <3>2, PackagesStay, ExportsGrow DEF Snapshot!TransferInvariant
  <2> QED BY <2>1, TransferStep
<1>3. Snapshot!TransferInvariant => Snapshot!ImportIsTheExport BY WholeIsTheExport
<1>4. Snapshot!ImportIsTheExport => ImportIsTheExport BY DEF ImportIsTheExport
<1> QED BY <1>1, <1>2, <1>3, <1>4, PTL DEF Snapshot!Spec

-----------------------------------------------------------------------------
(* ShadowMeasurement: the evidence that is reported.                       *)

(* The instance counts as the library does. *)
LEMMA ShadowCounts ==
  /\ \A S : Shadow!Cardinality(S) = Cardinality(S)
  /\ \A S : Shadow!IsFiniteSet(S) = IsFiniteSet(S)
<1>1. ASSUME NEW S PROVE Shadow!Cardinality(S) = Cardinality(S)
  BY DEF Shadow!Cardinality, Cardinality
<1>2. ASSUME NEW S PROVE Shadow!IsFiniteSet(S) = IsFiniteSet(S)
  BY DEF Shadow!IsFiniteSet, IsFiniteSet
<1> QED BY <1>1, <1>2

(* A nonempty set of numbers has a least one. *)
LEMMA LeastNumber ==
  ASSUME NEW T, T \subseteq Nat, T # {}
  PROVE  \E x \in T : \A y \in T : x <= y
<1> DEFINE Less == {ss \in Nat \X Nat : ss[1] < ss[2]}
<1>1. IsWellFoundedOn(Less, Nat)
  <2>1. OpToRel(<, Nat) = Less
    BY Zenon DEF OpToRel
  <2> QED BY <2>1, NatLessThanWellFounded, Zenon
<1>2. PICK x \in T : \A y \in T : ~(<<y, x>> \in Less)
  <2> HIDE DEF Less
  <2> QED BY <1>1, WFMin
<1>3. ASSUME NEW y \in T PROVE x <= y
  <2>1. ~(y < x) BY <1>2 DEF Less
  <2> QED BY <2>1
<1> QED BY <1>3

LEMMA RevisionIsNumber ==
  ASSUME Shadow!ShadowAssumption
  PROVE  Shadow!MaxRevision \in Nat /\ IsFiniteSet(Shadow!Segments)
         /\ Cardinality(Shadow!Segments) \in Nat
<1>1. Shadow!MaxRevision \in Nat
  BY FS_CardinalityType, ShadowCounts DEF Shadow!MaxRevision, Shadow!ShadowAssumption
<1>2. IsFiniteSet(1..Shadow!MaxRevision) BY <1>1, FS_Interval
<1>3. Shadow!Segments \subseteq 1..Shadow!MaxRevision BY DEF Shadow!Segments
<1> QED BY <1>1, <1>2, <1>3, FS_Subset, FS_CardinalityType

(* No event is an absent or a torn file. *)
LEMMA EventsAreFiles ==
  ASSUME NEW e \in Shadow!EventSet PROVE e \notin {Shadow!Absent, Shadow!Torn}
<1>1. "file" \notin DOMAIN e BY DEF Shadow!EventSet
<1>2. "file" \in DOMAIN Shadow!Absent /\ "file" \in DOMAIN Shadow!Torn
  BY DEF Shadow!Absent, Shadow!Torn
<1> QED BY <1>1, <1>2

(* A whole segment is never written again. *)
LEMMA SegmentsStay ==
  ASSUME Shadow!ShadowAssumption, Shadow!ShadowTyped, Shadow!Next,
         NEW i \in 1..Shadow!MaxRevision, seg[i] \notin {Shadow!Absent, Shadow!Torn}
  PROVE  seg'[i] = seg[i] /\ DOMAIN seg' = 1..Shadow!MaxRevision
<1>0. DOMAIN seg = 1..Shadow!MaxRevision BY DEF Shadow!ShadowTyped
<1>s. i \in Shadow!Segments BY DEF Shadow!Segments
<1>n. \A p \in Procs : Shadow!JournalAgrees(p) => Cardinality(Shadow!Segments) + 1 # i
  <2> SUFFICES ASSUME NEW p \in Procs, Shadow!JournalAgrees(p),
                      Cardinality(Shadow!Segments) + 1 = i
               PROVE  FALSE
    OBVIOUS
  <2>1. Shadow!Segments = 1..Cardinality(Shadow!Segments) BY ShadowCounts DEF Shadow!JournalAgrees
  <2>2. Cardinality(Shadow!Segments) \in Nat BY RevisionIsNumber
  <2> DEFINE k == Cardinality(Shadow!Segments)
  <2>3. i \in 1..k /\ k + 1 = i /\ k \in Nat BY <2>1, <2>2, <1>s
  <2> HIDE DEF k
  <2> QED BY <2>3
<1>1. ASSUME NEW p \in Procs, Shadow!Quarantine(p)
      PROVE  seg'[i] = seg[i] /\ DOMAIN seg' = 1..Shadow!MaxRevision
  <2> DEFINE P(x) == /\ seg[x] = Shadow!Torn
                     /\ \A y \in 1..Shadow!MaxRevision : seg[y] = Shadow!Torn => x <= y
             r == CHOOSE x \in 1..Shadow!MaxRevision : P(x)
  <2>1. seg' = [seg EXCEPT ![r] = Shadow!Absent] BY <1>1 DEF Shadow!Quarantine
  <2> DEFINE T == {x \in 1..Shadow!MaxRevision : seg[x] = Shadow!Torn}
  <2>2. \E x \in 1..Shadow!MaxRevision : P(x)
    <3>1. T # {} /\ T \subseteq Nat BY <1>1 DEF Shadow!Quarantine
    <3> HIDE DEF T
    <3>2. PICK x \in T : \A y \in T : x <= y BY <3>1, LeastNumber
    <3> QED BY <3>2 DEF T
  <2>3. seg[r] = Shadow!Torn
    <3> HIDE DEF P
    <3>1. P(r) BY <2>2, Zenon
    <3> QED BY <3>1 DEF P
  <2> HIDE DEF r
  <2> QED BY <2>1, <2>3, <1>0
<1>2. ASSUME NEW p \in Procs, Shadow!Rewrite(p)
      PROVE  seg'[i] = seg[i] /\ DOMAIN seg' = 1..Shadow!MaxRevision
  BY <1>2, <1>0, <1>n, ShadowCounts DEF Shadow!Rewrite
<1>3. ASSUME NEW p \in Procs, Shadow!WriteSegment(p)
      PROVE  seg'[i] = seg[i] /\ DOMAIN seg' = 1..Shadow!MaxRevision
  BY <1>3, <1>0 DEF Shadow!WriteSegment
<1>4. ASSUME NEW p \in Procs, Shadow!Crash(p)
      PROVE  seg'[i] = seg[i] /\ DOMAIN seg' = 1..Shadow!MaxRevision
  BY <1>4, <1>0, <1>n, ShadowCounts DEF Shadow!Crash
<1>5. CASE UNCHANGED seg BY <1>5, <1>0
<1> QED
  BY <1>1, <1>2, <1>3, <1>4, <1>5
     DEF Shadow!Next, Shadow!Open, Shadow!SubmitSample, Shadow!Start, Shadow!Establish,
         Shadow!LoadRefused,
     Shadow!OpenDone, Shadow!Report, Shadow!AppendRefused, Shadow!AppendChecked,
     Shadow!Advance, Shadow!AdvanceRefused, Shadow!WriteConflict,
     Shadow!RollbackAuthority, Shadow!Clock

(* A sample that was accepted extends a good history to a good one. *)
LEMMA AppendIsGood ==
  ASSUME Shadow!ShadowAssumption, NEW h \in Seq(Shadow!EventSet), Shadow!GoodHistory(h),
         h # <<>>, NEW e \in Shadow!EventSet,
         e.manifest = h[1].manifest, Shadow!AcceptedAt(e, h, e.at)
  PROVE  Append(h, e) \in Seq(Shadow!EventSet) /\ Shadow!GoodHistory(Append(h, e))
<1> DEFINE g == Append(h, e)
           n == Len(h)
<1>1. /\ g \in Seq(Shadow!EventSet) /\ n \in Nat \ {0} /\ Len(g) = n + 1
      /\ g[n + 1] = e /\ \A i \in 1..n : g[i] = h[i]
  OBVIOUS
<1>2. \A i \in 1..n : h[i] \in Shadow!EventSet OBVIOUS
<1>3. \A i \in 1..n : h[i].at \in Int BY <1>2 DEF Shadow!EventSet
<1>4. e.at \in Int BY DEF Shadow!EventSet
<1> HIDE DEF g, n
<1>5. \A i \in 2..n : h[i].id # e.id BY DEF Shadow!AcceptedAt, n
<1>6. n >= 2 => e.at - h[n].at \in 1..MaxGap BY DEF Shadow!AcceptedAt, n
<1>7. \A i \in 2..n : h[i].at < e.at
  <2> SUFFICES ASSUME NEW i \in 2..n PROVE h[i].at < e.at OBVIOUS
  <2>1. n >= 2 /\ n \in 2..n /\ i \in 1..n /\ n \in 1..n BY <1>1
  <2>2. i = n \/ h[i].at < h[n].at BY <2>1 DEF Shadow!GoodHistory, n
  <2>3. h[n].at < e.at BY <2>1, <1>3, <1>4, <1>6 DEF Shadow!ShadowAssumption
  <2> QED BY <2>1, <2>2, <2>3, <1>3, <1>4
<1>8. ASSUME NEW i \in 2..Len(g), NEW j \in 2..Len(g), i < j
      PROVE  g[i].id # g[j].id /\ g[i].at < g[j].at
  <2>1. i \in 2..n BY <1>1, <1>8
  <2>2. CASE j = n + 1 BY <2>1, <2>2, <1>1, <1>5, <1>7
  <2>3. CASE j \in 2..n BY <2>1, <2>3, <1>1, <1>8 DEF Shadow!GoodHistory, n
  <2> QED BY <2>2, <2>3, <1>1
<1>9. ASSUME NEW i \in 2..Len(g) PROVE g[i].manifest = g[1].manifest
  <2>1. CASE i = n + 1 BY <2>1, <1>1
  <2>2. CASE i \in 2..n BY <2>2, <1>1 DEF Shadow!GoodHistory, n
  <2> QED BY <2>1, <2>2, <1>1
<1>10. ASSUME NEW i \in 2..(Len(g) - 1) PROVE g[i+1].at - g[i].at <= MaxGap
  <2>1. i \in 2..n BY <1>1
  <2>2. CASE i = n
    <3>1. g[i+1] = e /\ g[i] = h[n] /\ n >= 2 BY <2>1, <2>2, <1>1
    <3> QED BY <3>1, <1>6 DEF Shadow!ShadowAssumption
  <2>3. CASE i \in 2..(n - 1)
    <3>1. g[i+1] = h[i+1] /\ g[i] = h[i] BY <2>3, <1>1
    <3>2. h[i+1].at - h[i].at <= MaxGap BY <2>3 DEF Shadow!GoodHistory, n
    <3> QED BY <3>1, <3>2
  <2> QED BY <2>1, <2>2, <2>3, <1>1
<1>11. Shadow!GoodHistory(g) BY <1>8, <1>9, <1>10 DEF Shadow!GoodHistory
<1> QED BY <1>1, <1>11 DEF g

(* A history of at most a checkpoint is good, and so is one cut short. *)
LEMMA ShortIsGood ==
  ASSUME NEW e \in Shadow!EventSet
  PROVE  Shadow!GoodHistory(<<>>) /\ <<e>> \in Seq(Shadow!EventSet)
         /\ Shadow!GoodHistory(<<e>>)
BY DEF Shadow!GoodHistory

LEMMA FrontIsGood ==
  ASSUME NEW h \in Seq(Shadow!EventSet), Shadow!GoodHistory(h), h # <<>>
  PROVE  Shadow!Front(h) \in Seq(Shadow!EventSet) /\ Shadow!GoodHistory(Shadow!Front(h))
<1> DEFINE g == Shadow!Front(h)
<1>1. /\ g \in Seq(Shadow!EventSet) /\ Len(g) = Len(h) - 1 /\ Len(h) \in Nat \ {0}
      /\ \A i \in 1..Len(g) : g[i] = h[i]
  <2> DEFINE n == Len(h) - 1
  <2>1. Len(h) \in Nat \ {0} /\ n \in Int
        /\ \A i \in 1..n : h[i] \in Shadow!EventSet OBVIOUS
  <2>3. g = SubSeq(h, 1, n) BY DEF Shadow!Front
  <2> HIDE DEF g, n
  <2>4. /\ g \in Seq(Shadow!EventSet) /\ Len(g) = IF 1 <= n THEN n - 1 + 1 ELSE 0
        /\ \A i \in 1..(n - 1 + 1) : g[i] = h[1 + i - 1]
    BY <2>1, <2>3, SubSeqProperties
  <2>5. n \in Nat /\ n = Len(h) - 1 BY <2>1 DEF n
  <2>6. Len(g) = n BY <2>4, <2>5
  <2>7. ASSUME NEW i \in 1..n PROVE g[i] = h[i]
    <3>1. i \in 1..(n - 1 + 1) /\ 1 + i - 1 = i BY <2>5
    <3> QED BY <3>1, <2>4
  <2> QED BY <2>1, <2>4, <2>5, <2>6, <2>7
<1> HIDE DEF g
<1>2. Shadow!GoodHistory(g) BY <1>1 DEF Shadow!GoodHistory
<1> QED BY <1>1, <1>2 DEF g

(* append's check is of the samples after the checkpoint. *)
LEMMA AcceptedByCheck ==
  ASSUME Shadow!ShadowAssumption, NEW s, NEW h \in Seq(Shadow!EventSet), h # <<>>,
         Shadow!SampleAccepted(s, h)
  PROVE  Shadow!AcceptedAt(s, h, shadowClock)
<1> DEFINE e == Tail(h)
<1>1. /\ Len(h) \in Nat \ {0} /\ Len(e) = Len(h) - 1
      /\ \A i \in 2..Len(h) : h[i] = e[i-1] /\ i - 1 \in 1..Len(e)
  OBVIOUS
<1>2. Shadow!Entries(h) = e BY DEF Shadow!Entries
<1> HIDE DEF e
<1>3. \A i \in 1..Len(e) : e[i].id # s.id BY <1>2 DEF Shadow!SampleAccepted
<1>4. \A i \in 2..Len(h) : h[i].id # s.id BY <1>1, <1>3
<1>5. ASSUME Len(h) >= 2 PROVE shadowClock - h[Len(h)].at \in 1..MaxGap
  <2>1. Len(e) # 0 /\ h[Len(h)] = e[Len(e)] BY <1>1, <1>5
  <2>2. e # <<>> BY <2>1
  <2> QED BY <2>1, <2>2, <1>2 DEF Shadow!SampleAccepted
<1> QED BY <1>4, <1>5 DEF Shadow!AcceptedAt

(* One process moves. *)
LEMMA OneProc ==
  ASSUME Shadow!ShadowTyped, Shadow!HistoriesGood, NEW p \in Procs,
         NEW v \in Shadow!ProcSet, Shadow!ProcGood(v),
         proc' = [proc EXCEPT ![p] = v]
  PROVE  proc' \in [Procs -> Shadow!ProcSet] /\ \A q \in Procs : Shadow!ProcGood(proc'[q])
BY DEF Shadow!ShadowTyped, Shadow!HistoriesGood

LEMMA ClosedGood == Shadow!Closed \in Shadow!ProcSet /\ Shadow!ProcGood(Shadow!Closed)
<1>1. <<>> \in Seq(Shadow!EventSet) OBVIOUS
<1>2. Shadow!GoodHistory(<<>>) BY DEF Shadow!GoodHistory
<1>3. Shadow!Closed.manifest \in Shadow!Manifests \cup {Shadow!Closed.manifest} OBVIOUS
<1>4. Shadow!NoSample \in [id : Samples \cup {"none"}, head : Seq(Shadow!EventSet)]
  BY DEF Shadow!NoSample
<1> DEFINE m == CHOOSE x \in Shadow!Manifests : TRUE
<1>5. Shadow!Closed = [pc |-> "closed", op |-> "open", sample |-> Shadow!NoSample,
                receipt |-> <<>>, at |-> 0, manifest |-> m] BY DEF Shadow!Closed
<1> HIDE DEF m
<1>6. Shadow!Closed \in Shadow!ProcSet BY <1>1, <1>3, <1>4, <1>5 DEF Shadow!ProcSet
<1> QED BY <1>2, <1>5, <1>6 DEF Shadow!ProcGood

LEMMA RaiseGood ==
  ASSUME Shadow!ShadowTyped, Shadow!HistoriesGood, NEW p \in Procs, Shadow!Raise(p)
  PROVE  proc' \in [Procs -> Shadow!ProcSet] /\ \A q \in Procs : Shadow!ProcGood(proc'[q])
<1> DEFINE x == proc[p]
           v == [x EXCEPT !.at = 0, !.sample = Shadow!NoSample,
                          !.pc = IF x.op = "open" THEN "closed" ELSE "idle"]
<1>1. proc' = [proc EXCEPT ![p] = v] BY DEF Shadow!Raise, Shadow!ShadowTyped
<1>2. x \in Shadow!ProcSet /\ Shadow!ProcGood(x) BY DEF Shadow!ShadowTyped, Shadow!HistoriesGood
<1>3. Shadow!NoSample \in [id : Samples \cup {"none"}, head : Seq(Shadow!EventSet)]
  BY DEF Shadow!NoSample
<1>4. v \in Shadow!ProcSet /\ v.receipt = x.receipt /\ v.pc \in {"closed", "idle"}
  <2> DEFINE c == IF x.op = "open" THEN "closed" ELSE "idle"
  <2>1. c \in {"closed", "idle"} OBVIOUS
  <2> HIDE DEF c
  <2>2. v = [x EXCEPT !.at = 0, !.sample = Shadow!NoSample, !.pc = c] BY DEF c
  <2> HIDE DEF v
  <2>3. v = [pc |-> c, op |-> x.op, sample |-> Shadow!NoSample, receipt |-> x.receipt, at |-> 0,
             manifest |-> x.manifest]
    BY <2>2, <1>2 DEF Shadow!ProcSet
  <2> QED BY <2>1, <2>3, <1>2, <1>3 DEF Shadow!ProcSet
<1> HIDE DEF v
<1>5. Shadow!ProcGood(v) BY <1>2, <1>4 DEF Shadow!ProcGood
<1> QED BY <1>1, <1>4, <1>5, OneProc

(* What a process is after its step, for the steps that move no history. *)
LEMMA ReadsAuthority ==
  ASSUME Shadow!ShadowTyped, Shadow!HistoriesGood, NEW p \in Procs,
         (\E m \in Shadow!Manifests : Shadow!Open(p, m)) \/ Shadow!SubmitSample(p) \/ Shadow!Start(p, "report", Shadow!NoSample)
           \/ Shadow!Establish(p)
  PROVE  proc' \in [Procs -> Shadow!ProcSet] /\ \A q \in Procs : Shadow!ProcGood(proc'[q])
<1> DEFINE x == proc[p]
           SampleSet == [id : Samples \cup {"none"}, head : Seq(Shadow!EventSet)]
<1>0. x \in Shadow!ProcSet /\ Shadow!ProcGood(x) /\ auth \in Seq(Shadow!EventSet)
      /\ Shadow!GoodHistory(auth) /\ shadowClock \in Int
  BY DEF Shadow!ShadowTyped, Shadow!HistoriesGood
<1>1. ASSUME NEW v, NEW pc \in {"idle", "load", "advance"},
             NEW op \in {"open", "none", "establish", "append", "report"},
             NEW s \in SampleSet, NEW at \in Int,
             NEW m \in Shadow!Manifests \cup {Shadow!Closed.manifest},
             v = [pc |-> pc, op |-> op, sample |-> s, receipt |-> auth, at |-> at, manifest |-> m],
             pc = "load" => auth # <<>>, pc = "advance" => op = "establish" /\ auth = <<>>,
             proc' = [proc EXCEPT ![p] = v]
      PROVE  proc' \in [Procs -> Shadow!ProcSet]
             /\ \A q \in Procs : Shadow!ProcGood(proc'[q])
  <2>1. v \in Shadow!ProcSet BY <1>0, <1>1 DEF Shadow!ProcSet
  <2>2. v.pc = pc /\ v.op = op /\ v.receipt = auth BY <1>1
  <2>3. Shadow!ProcGood(v) BY <2>2, <1>0, <1>1 DEF Shadow!ProcGood
  <2> QED BY <2>1, <2>3, <1>1, OneProc
<1>2. ASSUME NEW m \in Shadow!Manifests, Shadow!Open(p, m)
      PROVE  proc' \in [Procs -> Shadow!ProcSet]
             /\ \A q \in Procs : Shadow!ProcGood(proc'[q])
  <2>1. CASE auth = <<>>
    <3> DEFINE v == [pc |-> "idle", op |-> x.op, sample |-> x.sample, receipt |-> auth,
                     at |-> x.at, manifest |-> m]
    <3>1. proc' = [proc EXCEPT ![p].pc = "idle", ![p].manifest = m, ![p].receipt = auth]
      BY <1>2, <2>1 DEF Shadow!Open
    <3>2a. proc' = [proc EXCEPT ![p] = [x EXCEPT !.pc = "idle", !.manifest = m, !.receipt = auth]]
      BY <3>1 DEF Shadow!ShadowTyped
    <3>2b. [x EXCEPT !.pc = "idle", !.manifest = m, !.receipt = auth] = v
      <4> DEFINE w == [x EXCEPT !.pc = "idle", !.manifest = m, !.receipt = auth]
      <4>1. w = [x EXCEPT !.pc = "idle", !.manifest = m, !.receipt = auth] OBVIOUS
      <4> HIDE DEF w
      <4>2. w = v BY <4>1, <1>0 DEF Shadow!ProcSet
      <4> QED BY <4>1, <4>2
    <3>2. proc' = [proc EXCEPT ![p] = v] BY <3>2a, <3>2b
    <3>3. x.op \in {"open", "none", "establish", "append", "report"}
          /\ x.sample \in SampleSet
          /\ x.at \in Int
      BY <1>0 DEF Shadow!ProcSet
    <3> HIDE DEF x
    <3> QED BY <3>2, <3>3, <1>1, <2>1
  <2>2. CASE auth # <<>>
    <3> DEFINE v == [pc |-> "load", op |-> "open", sample |-> x.sample, receipt |-> auth,
                     at |-> x.at, manifest |-> m]
    <3>1. proc' = [proc EXCEPT ![p].pc = "load", ![p].op = "open", ![p].manifest = m,
                               ![p].receipt = auth]
      BY <1>2, <2>2 DEF Shadow!Open
    <3>2a. proc' = [proc EXCEPT ![p] = [x EXCEPT !.pc = "load", !.op = "open", !.manifest = m, !.receipt = auth]]
      BY <3>1 DEF Shadow!ShadowTyped
    <3>2b. [x EXCEPT !.pc = "load", !.op = "open", !.manifest = m, !.receipt = auth] = v
      <4> DEFINE w == [x EXCEPT !.pc = "load", !.op = "open", !.manifest = m, !.receipt = auth]
      <4>1. w = [x EXCEPT !.pc = "load", !.op = "open", !.manifest = m, !.receipt = auth] OBVIOUS
      <4> HIDE DEF w
      <4>2. w = v BY <4>1, <1>0 DEF Shadow!ProcSet
      <4> QED BY <4>1, <4>2
    <3>2. proc' = [proc EXCEPT ![p] = v] BY <3>2a, <3>2b
    <3>3. x.sample \in SampleSet /\ x.at \in Int
      BY <1>0 DEF Shadow!ProcSet
    <3> HIDE DEF x
    <3> QED BY <3>2, <3>3, <1>1, <2>2
  <2> QED BY <2>1, <2>2
<1>3. ASSUME NEW op \in {"append", "report"}, NEW s \in SampleSet, Shadow!Start(p, op, s)
      PROVE  proc' \in [Procs -> Shadow!ProcSet]
             /\ \A q \in Procs : Shadow!ProcGood(proc'[q])
  <2> DEFINE v == [pc |-> "load", op |-> op, sample |-> s, receipt |-> auth,
                   at |-> x.at, manifest |-> x.manifest]
  <2>1. /\ proc' = [Shadow!Set(p, "load", op) EXCEPT ![p].receipt = auth, ![p].sample = s]
        /\ auth # <<>>
    BY <1>3 DEF Shadow!Start
  <2>2a. proc' = [proc EXCEPT ![p] = [x EXCEPT !.pc = "load", !.op = op, !.receipt = auth, !.sample = s]]
    BY <2>1 DEF Shadow!ShadowTyped, Shadow!Set
  <2>2b. [x EXCEPT !.pc = "load", !.op = op, !.receipt = auth, !.sample = s] = v
    <3> DEFINE w == [x EXCEPT !.pc = "load", !.op = op, !.receipt = auth, !.sample = s]
    <3>1. w = [x EXCEPT !.pc = "load", !.op = op, !.receipt = auth, !.sample = s] OBVIOUS
    <3> HIDE DEF w
    <3>2. w = v BY <3>1, <1>0 DEF Shadow!ProcSet
    <3> QED BY <3>1, <3>2
  <2>2. proc' = [proc EXCEPT ![p] = v] BY <2>2a, <2>2b
  <2>3. x.manifest \in Shadow!Manifests \cup {Shadow!Closed.manifest} /\ x.at \in Int
    BY <1>0 DEF Shadow!ProcSet
  <2> HIDE DEF x
  <2> QED BY <2>1, <2>2, <2>3, <1>1
<1>4. ASSUME Shadow!SubmitSample(p)
      PROVE  proc' \in [Procs -> Shadow!ProcSet]
             /\ \A q \in Procs : Shadow!ProcGood(proc'[q])
  <2>1. PICK id \in Samples, k \in 0..Len(Shadow!Entries(auth)) :
          Shadow!Start(p, "append", [id |-> id, head |-> SubSeq(Shadow!Entries(auth), 1, k)])
    BY <1>4 DEF Shadow!SubmitSample
  <2>2. Shadow!Entries(auth) \in Seq(Shadow!EventSet) BY <1>0 DEF Shadow!Entries
  <2>3. SubSeq(Shadow!Entries(auth), 1, k) \in Seq(Shadow!EventSet) BY <2>2
  <2>4. [id |-> id, head |-> SubSeq(Shadow!Entries(auth), 1, k)] \in SampleSet BY <2>3
  <2> QED BY <2>1, <2>4, <1>3
<1>5. Shadow!NoSample \in SampleSet BY DEF Shadow!NoSample
<1>6. ASSUME Shadow!Establish(p)
      PROVE  proc' \in [Procs -> Shadow!ProcSet]
             /\ \A q \in Procs : Shadow!ProcGood(proc'[q])
  <2> DEFINE v == [pc |-> "advance", op |-> "establish", sample |-> x.sample, receipt |-> auth,
                   at |-> shadowClock, manifest |-> x.manifest]
  <2>1. /\ proc' = [proc EXCEPT ![p].pc = "advance", ![p].op = "establish",
                                ![p].receipt = auth, ![p].at = shadowClock]
        /\ auth = <<>>
    BY <1>6 DEF Shadow!Establish
  <2>2a. proc' = [proc EXCEPT ![p] = [x EXCEPT !.pc = "advance", !.op = "establish", !.receipt = auth, !.at = shadowClock]]
    BY <2>1 DEF Shadow!ShadowTyped
  <2>2b. [x EXCEPT !.pc = "advance", !.op = "establish", !.receipt = auth, !.at = shadowClock] = v
    <3> DEFINE w == [x EXCEPT !.pc = "advance", !.op = "establish", !.receipt = auth, !.at = shadowClock]
    <3>1. w = [x EXCEPT !.pc = "advance", !.op = "establish", !.receipt = auth, !.at = shadowClock] OBVIOUS
    <3> HIDE DEF w
    <3>2. w = v BY <3>1, <1>0 DEF Shadow!ProcSet
    <3> QED BY <3>1, <3>2
  <2>2. proc' = [proc EXCEPT ![p] = v] BY <2>2a, <2>2b
  <2>3. x.manifest \in Shadow!Manifests \cup {Shadow!Closed.manifest}
        /\ x.sample \in SampleSet
    BY <1>0 DEF Shadow!ProcSet
  <2> HIDE DEF x
  <2> QED BY <2>1, <2>2, <2>3, <1>0, <1>1
<1> QED BY <1>2, <1>3, <1>4, <1>5, <1>6

(* A process that is done, or has checked its sample, keeps what it read. *)
LEMMA KeepsReceipt ==
  ASSUME Shadow!ShadowAssumption, Shadow!ShadowTyped, Shadow!HistoriesGood, NEW p \in Procs,
         \/ Shadow!OpenDone(p) \/ Shadow!Report(p) \/ Shadow!AppendRefused(p)
         \/ Shadow!AppendChecked(p) \/ Shadow!WriteSegment(p)
  PROVE  proc' \in [Procs -> Shadow!ProcSet] /\ \A q \in Procs : Shadow!ProcGood(proc'[q])
<1> DEFINE x == proc[p]
           SampleSet == [id : Samples \cup {"none"}, head : Seq(Shadow!EventSet)]
           Good == proc' \in [Procs -> Shadow!ProcSet]
           /\ \A q \in Procs : Shadow!ProcGood(proc'[q])
<1>0. x \in Shadow!ProcSet /\ Shadow!ProcGood(x) /\ shadowClock \in Int
  BY DEF Shadow!ShadowTyped, Shadow!HistoriesGood
<1>1. ASSUME NEW s \in SampleSet,
             proc' = [proc EXCEPT ![p] = [pc |-> "idle", op |-> "none", sample |-> s,
                        receipt |-> x.receipt, at |-> x.at, manifest |-> x.manifest]]
      PROVE  Good
  <2> DEFINE v == [pc |-> "idle", op |-> "none", sample |-> s, receipt |-> x.receipt,
                   at |-> x.at, manifest |-> x.manifest]
  <2>1. v \in Shadow!ProcSet BY <1>0 DEF Shadow!ProcSet
  <2>2. v.pc = "idle" /\ v.receipt = x.receipt OBVIOUS
  <2>4. proc' = [proc EXCEPT ![p] = v] BY <1>1
  <2> HIDE DEF v
  <2>3. Shadow!ProcGood(v) BY <2>2, <1>0 DEF Shadow!ProcGood
  <2> QED BY <2>1, <2>3, <2>4, OneProc
<1>2. Shadow!NoSample \in SampleSet /\ x.sample \in SampleSet
  BY <1>0 DEF Shadow!NoSample, Shadow!ProcSet
<1>3. ASSUME Shadow!OpenDone(p) \/ Shadow!Report(p) PROVE Good
  <2>1. proc' = Shadow!Set(p, "idle", "none") BY <1>3 DEF Shadow!OpenDone, Shadow!Report
  <2> DEFINE v == [pc |-> "idle", op |-> "none", sample |-> x.sample,
                   receipt |-> x.receipt, at |-> x.at, manifest |-> x.manifest]
  <2>2a. proc' = [proc EXCEPT ![p] = [x EXCEPT !.pc = "idle", !.op = "none"]]
    BY <2>1 DEF Shadow!ShadowTyped, Shadow!Set
  <2>2b. [x EXCEPT !.pc = "idle", !.op = "none"] = v
    <3> DEFINE w == [x EXCEPT !.pc = "idle", !.op = "none"]
    <3>1. w = [x EXCEPT !.pc = "idle", !.op = "none"] OBVIOUS
    <3> HIDE DEF w
    <3>2. w = v BY <3>1, <1>0 DEF Shadow!ProcSet
    <3> QED BY <3>1, <3>2
  <2>2. proc' = [proc EXCEPT ![p] = v] BY <2>2a, <2>2b
  <2> QED BY <2>2, <1>1, <1>2
<1>4. ASSUME Shadow!AppendRefused(p) \/ Shadow!WriteSegment(p) PROVE Good
  <2>1. proc' = [Shadow!Set(p, "idle", "none") EXCEPT ![p].sample = Shadow!NoSample]
    BY <1>4 DEF Shadow!AppendRefused, Shadow!WriteSegment
  <2> DEFINE v == [pc |-> "idle", op |-> "none", sample |-> Shadow!NoSample,
                   receipt |-> x.receipt, at |-> x.at, manifest |-> x.manifest]
  <2>2a. proc' = [proc EXCEPT ![p] = [x EXCEPT !.pc = "idle", !.op = "none", !.sample = Shadow!NoSample]]
    BY <2>1 DEF Shadow!ShadowTyped, Shadow!Set
  <2>2b. [x EXCEPT !.pc = "idle", !.op = "none", !.sample = Shadow!NoSample] = v
    <3> DEFINE w == [x EXCEPT !.pc = "idle", !.op = "none", !.sample = Shadow!NoSample]
    <3>1. w = [x EXCEPT !.pc = "idle", !.op = "none", !.sample = Shadow!NoSample] OBVIOUS
    <3> HIDE DEF w
    <3>2. w = v BY <3>1, <1>0 DEF Shadow!ProcSet
    <3> QED BY <3>1, <3>2
  <2>2. proc' = [proc EXCEPT ![p] = v] BY <2>2a, <2>2b
  <2> QED BY <2>2, <1>1, <1>2
<1>5. ASSUME Shadow!AppendChecked(p) PROVE Good
  <2> DEFINE v == [pc |-> "advance", op |-> "append", sample |-> x.sample, receipt |-> x.receipt,
                   at |-> shadowClock, manifest |-> x.manifest]
  <2>1. /\ proc' = [Shadow!Set(p, "advance", "append") EXCEPT ![p].at = shadowClock]
        /\ x.pc = "load" /\ Shadow!SampleAccepted(x.sample, x.receipt)
    BY <1>5 DEF Shadow!AppendChecked, Shadow!Loaded, Shadow!Loading
  <2>2a. proc' = [proc EXCEPT ![p] = [x EXCEPT !.pc = "advance", !.op = "append", !.at = shadowClock]]
    BY <2>1 DEF Shadow!ShadowTyped, Shadow!Set
  <2>2b. [x EXCEPT !.pc = "advance", !.op = "append", !.at = shadowClock] = v
    <3> DEFINE w == [x EXCEPT !.pc = "advance", !.op = "append", !.at = shadowClock]
    <3>1. w = [x EXCEPT !.pc = "advance", !.op = "append", !.at = shadowClock] OBVIOUS
    <3> HIDE DEF w
    <3>2. w = v BY <3>1, <1>0 DEF Shadow!ProcSet
    <3> QED BY <3>1, <3>2
  <2>2. proc' = [proc EXCEPT ![p] = v] BY <2>2a, <2>2b
  <2>3. x.receipt \in Seq(Shadow!EventSet) /\ x.receipt # <<>>
    BY <2>1, <1>0 DEF Shadow!ProcSet, Shadow!ProcGood
  <2>4. Shadow!AcceptedAt(x.sample, x.receipt, shadowClock) BY <2>1, <2>3, AcceptedByCheck
  <2>5. v \in Shadow!ProcSet BY <1>0 DEF Shadow!ProcSet
  <2>6. v.pc = "advance" /\ v.op = "append" /\ v.sample = x.sample /\ v.receipt = x.receipt
        /\ v.at = shadowClock
    OBVIOUS
  <2> HIDE DEF v
  <2>7. Shadow!ProcGood(v) BY <2>3, <2>4, <2>6, <1>0 DEF Shadow!ProcGood
  <2> QED BY <2>2, <2>5, <2>7, OneProc
<1> QED BY <1>3, <1>4, <1>5

(* The authority takes an event only on the history it was checked against. *)
LEMMA AdvanceGood ==
  ASSUME Shadow!ShadowAssumption, Shadow!ShadowTyped, Shadow!HistoriesGood, NEW p \in Procs,
         NEW answered \in BOOLEAN,
         Shadow!Advance(p, answered)
  PROVE  /\ auth' \in Seq(Shadow!EventSet) /\ Shadow!GoodHistory(auth')
         /\ proc' \in [Procs -> Shadow!ProcSet]
         /\ \A q \in Procs : Shadow!ProcGood(proc'[q])
<1> DEFINE x == proc[p]
           e == Shadow!Event(p)
<1>0. x \in Shadow!ProcSet /\ Shadow!ProcGood(x) /\ auth \in Seq(Shadow!EventSet)
      /\ Shadow!GoodHistory(auth)
  BY DEF Shadow!ShadowTyped, Shadow!HistoriesGood
<1>1. /\ x.pc = "advance" /\ auth = x.receipt /\ auth' = Append(auth, e)
      /\ IF answered THEN proc' = [Shadow!Set(p, "write", x.op) EXCEPT ![p].receipt = auth', ![p].at = 0]
         ELSE Shadow!Raise(p)
  BY DEF Shadow!Advance
<1>2. auth' \in Seq(Shadow!EventSet) /\ Shadow!GoodHistory(auth')
  <2>1. CASE x.op = "establish"
    <3>1. auth = <<>> BY <2>1, <1>0, <1>1 DEF Shadow!ProcGood
    <3>2. e = [id |-> "checkpoint", ok |-> TRUE, at |-> x.at, manifest |-> x.manifest]
      BY <2>1 DEF Shadow!Event
    <3>3. e \in Shadow!EventSet BY <3>2, <1>0 DEF Shadow!EventSet, Shadow!ProcSet
    <3> HIDE DEF e
    <3>4. auth' = Append(<<>>, e) BY <3>1, <1>1
    <3>5. auth' \in Seq(Shadow!EventSet) /\ Len(auth') = 1 BY <3>3, <3>4
    <3> QED BY <3>5, ShortIsGood
  <2>2. CASE x.op # "establish"
    <3>1. auth # <<>> /\ Shadow!AcceptedAt(x.sample, auth, x.at)
      BY <2>2, <1>0, <1>1 DEF Shadow!ProcGood
    <3>2. e = [id |-> x.sample.id, ok |-> x.sample.id \notin Failing, at |-> x.at,
               manifest |-> auth[1].manifest]
      BY <2>2 DEF Shadow!Event
    <3>3. auth[1] \in Shadow!EventSet BY <3>1, <1>0
    <3>4. x.sample \in [id : Samples \cup {"none"}, head : Seq(Shadow!EventSet)]
          /\ x.at \in Int
      BY <1>0 DEF Shadow!ProcSet
    <3>5. x.sample.id \in Samples \cup {"none"} BY <3>4
    <3>6. auth[1].manifest \in Shadow!Manifests \cup {Shadow!Closed.manifest}
      BY <3>3 DEF Shadow!EventSet
    <3>7. e \in Shadow!EventSet BY <3>2, <3>4, <3>5, <3>6 DEF Shadow!EventSet
    <3>8. e.manifest = auth[1].manifest /\ e.id = x.sample.id /\ e.at = x.at BY <3>2
    <3>9. Shadow!AcceptedAt(e, auth, e.at) BY <3>1, <3>8 DEF Shadow!AcceptedAt
    <3> HIDE DEF e
    <3> QED BY <3>1, <3>7, <3>8, <3>9, <1>0, <1>1, AppendIsGood
  <2> QED BY <2>1, <2>2
<1>3. CASE ~answered BY <1>1, <1>2, <1>3, RaiseGood
<1>4. CASE answered
  <2> DEFINE h == auth'
             v == [pc |-> "write", op |-> x.op, sample |-> x.sample, receipt |-> h,
                   at |-> 0, manifest |-> x.manifest]
  <2>1. proc' = [Shadow!Set(p, "write", x.op) EXCEPT ![p].receipt = h, ![p].at = 0]
    BY <1>1, <1>4
  <2>0. h \in Seq(Shadow!EventSet) /\ Shadow!GoodHistory(h) BY <1>2
  <2> HIDE DEF h
  <2>2a. proc' = [proc EXCEPT ![p] = [x EXCEPT !.pc = "write", !.op = x.op, !.receipt = h, !.at = 0]]
    BY <2>1 DEF Shadow!ShadowTyped, Shadow!Set
  <2>2b. [x EXCEPT !.pc = "write", !.op = x.op, !.receipt = h, !.at = 0] = v
    <3> DEFINE w == [x EXCEPT !.pc = "write", !.op = x.op, !.receipt = h, !.at = 0]
    <3>1. w = [x EXCEPT !.pc = "write", !.op = x.op, !.receipt = h, !.at = 0] OBVIOUS
    <3> HIDE DEF w
    <3>2. w = v BY <3>1, <1>0 DEF Shadow!ProcSet
    <3> QED BY <3>1, <3>2
  <2>2. proc' = [proc EXCEPT ![p] = v] BY <2>2a, <2>2b
  <2>3. v \in Shadow!ProcSet BY <1>0, <2>0 DEF Shadow!ProcSet
  <2>4. v.pc = "write" /\ v.receipt = h OBVIOUS
  <2> HIDE DEF v
  <2>5. Shadow!ProcGood(v) BY <2>0, <2>4 DEF Shadow!ProcGood
  <2> QED BY <2>2, <2>3, <2>5, <1>2, OneProc
<1> QED BY <1>3, <1>4

(* The histories the authority and the processes hold stay good. *)
LEMMA HistoriesStep ==
  ASSUME Shadow!ShadowAssumption, Shadow!ShadowTyped, Shadow!HistoriesGood,
         [Shadow!Next]_Shadow!vars
  PROVE  /\ shadowClock' \in Int /\ auth' \in Seq(Shadow!EventSet)
         /\ proc' \in [Procs -> Shadow!ProcSet]
         /\ Shadow!HistoriesGood'
<1> DEFINE ProcsGood == proc' \in [Procs -> Shadow!ProcSet]
    /\ \A q \in Procs : Shadow!ProcGood(proc'[q])
           AuthGood == auth' \in Seq(Shadow!EventSet) /\ Shadow!GoodHistory(auth')
<1>0. /\ shadowClock \in Int /\ auth \in Seq(Shadow!EventSet) /\ Shadow!GoodHistory(auth)
      /\ proc \in [Procs -> Shadow!ProcSet] /\ \A q \in Procs : Shadow!ProcGood(proc[q])
  BY DEF Shadow!ShadowTyped, Shadow!HistoriesGood
<1>1. shadowClock' \in Int
  <2>1. CASE UNCHANGED shadowClock BY <2>1, <1>0
  <2>2. ASSUME NEW t \in 0..MaxShadowTime, Shadow!Clock(t) PROVE shadowClock' \in Int
    BY <2>2, <1>0 DEF Shadow!Clock
  <2> QED
    BY <2>1, <2>2
       DEF Shadow!Next, Shadow!vars, Shadow!Open, Shadow!SubmitSample, Shadow!Start,
           Shadow!Establish, Shadow!Quarantine, Shadow!LoadRefused,
       Shadow!Rewrite, Shadow!OpenDone, Shadow!Report, Shadow!AppendRefused,
       Shadow!AppendChecked, Shadow!Advance, Shadow!AdvanceRefused,
       Shadow!WriteSegment, Shadow!WriteConflict, Shadow!Crash, Shadow!RollbackAuthority
<1>2. AuthGood /\ ProcsGood
  <2>1. CASE UNCHANGED <<auth, proc>> BY <2>1, <1>0
  <2>2. ASSUME NEW p \in Procs,
               (\E m \in Shadow!Manifests : Shadow!Open(p, m)) \/ Shadow!SubmitSample(p)
                 \/ Shadow!Start(p, "report", Shadow!NoSample) \/ Shadow!Establish(p)
        PROVE  AuthGood /\ ProcsGood
    <3>1. UNCHANGED auth
      BY <2>2 DEF Shadow!Open, Shadow!SubmitSample, Shadow!Start, Shadow!Establish
    <3> QED BY <3>1, <2>2, <1>0, ReadsAuthority
  <2>3. ASSUME NEW p \in Procs,
               \/ Shadow!OpenDone(p) \/ Shadow!Report(p) \/ Shadow!AppendRefused(p)
               \/ Shadow!AppendChecked(p)
               \/ Shadow!WriteSegment(p)
        PROVE  AuthGood /\ ProcsGood
    <3>1. UNCHANGED auth
      BY <2>3
         DEF Shadow!OpenDone, Shadow!Report, Shadow!AppendRefused, Shadow!AppendChecked,
             Shadow!WriteSegment
    <3> QED BY <3>1, <2>3, <1>0, KeepsReceipt
  <2>4. ASSUME NEW p \in Procs,
               Shadow!Quarantine(p) \/ Shadow!LoadRefused(p) \/ Shadow!AdvanceRefused(p)
               \/ Shadow!WriteConflict(p)
        PROVE  AuthGood /\ ProcsGood
    <3>1. UNCHANGED auth /\ Shadow!Raise(p)
      BY <2>4
         DEF Shadow!Quarantine, Shadow!LoadRefused, Shadow!AdvanceRefused,
             Shadow!WriteConflict
    <3> QED BY <3>1, <1>0, RaiseGood
  <2>5. ASSUME NEW p \in Procs, NEW answered \in BOOLEAN, Shadow!Advance(p, answered)
        PROVE  AuthGood /\ ProcsGood
    BY <2>5, AdvanceGood
  <2>6. ASSUME NEW p \in Procs, Shadow!Crash(p) PROVE AuthGood /\ ProcsGood
    <3>1. UNCHANGED auth /\ proc' = [proc EXCEPT ![p] = Shadow!Closed] BY <2>6 DEF Shadow!Crash
    <3> QED BY <3>1, <1>0, ClosedGood, OneProc
  <2>7. ASSUME Shadow!RollbackAuthority PROVE AuthGood /\ ProcsGood
    <3>1. auth # <<>> /\ auth' = Shadow!Front(auth) /\ UNCHANGED proc
      BY <2>7 DEF Shadow!RollbackAuthority
    <3> QED BY <3>1, <1>0, FrontIsGood
  <2>8. \A p \in Procs : Shadow!Rewrite(p) => UNCHANGED <<auth, proc>> BY DEF Shadow!Rewrite
  <2>9. \A t \in 0..MaxShadowTime : Shadow!Clock(t) => UNCHANGED <<auth, proc>>
    BY DEF Shadow!Clock
  <2>10. UNCHANGED Shadow!vars => UNCHANGED <<auth, proc>> BY DEF Shadow!vars
  <2> HIDE DEF AuthGood, ProcsGood
  <2> QED BY <2>1, <2>2, <2>3, <2>4, <2>5, <2>6, <2>7, <2>8, <2>9, <2>10, Zenon
             DEF Shadow!Next
<1> QED BY <1>1, <1>2 DEF Shadow!HistoriesGood

(* A reported segment stays, so the report that is out stays covered. *)
LEMMA CoveredStays ==
  ASSUME Shadow!ShadowAssumption, Shadow!ShadowTyped, Shadow!ReportKept, [Shadow!Next]_Shadow!vars
  PROVE  /\ DOMAIN seg' = 1..Shadow!MaxRevision
         /\ \A i \in 1..Len(reported.history) : seg'[i] = reported.history[i]
<1> DEFINE h == reported.history
<1>0. h \in Seq(Shadow!EventSet) /\ DOMAIN seg = 1..Shadow!MaxRevision
      /\ \A i \in 1..Len(h) : i \in 1..Shadow!MaxRevision /\ seg[i] = h[i]
  BY DEF Shadow!ShadowTyped, Shadow!ReportKept
<1> HIDE DEF h
<1>1. CASE UNCHANGED Shadow!vars BY <1>0, <1>1 DEF Shadow!vars, h
<1>2. CASE Shadow!Next
  <2>1. ASSUME NEW i \in 1..Len(h) PROVE seg'[i] = h[i]
    <3>1. h[i] \in Shadow!EventSet BY <1>0
    <3>2. seg[i] \notin {Shadow!Absent, Shadow!Torn} /\ i \in 1..Shadow!MaxRevision
      BY <3>1, <1>0, EventsAreFiles
    <3> QED BY <3>2, <1>0, <1>2, SegmentsStay
  <2>2. DOMAIN seg' = 1..Shadow!MaxRevision
    <3>1. CASE UNCHANGED seg BY <3>1, <1>0
    <3>2. ASSUME NEW p \in Procs,
                 Shadow!Quarantine(p) \/ Shadow!Rewrite(p) \/ Shadow!WriteSegment(p)
                 \/ Shadow!Crash(p)
          PROVE  DOMAIN seg' = DOMAIN seg
      BY <3>2 DEF Shadow!Quarantine, Shadow!Rewrite, Shadow!WriteSegment, Shadow!Crash
    <3> QED
      BY <3>1, <3>2, <1>0, <1>2
         DEF Shadow!Next, Shadow!Open, Shadow!SubmitSample, Shadow!Start, Shadow!Establish,
             Shadow!LoadRefused,
         Shadow!OpenDone, Shadow!Report, Shadow!AppendRefused, Shadow!AppendChecked,
         Shadow!Advance, Shadow!AdvanceRefused, Shadow!WriteConflict,
         Shadow!RollbackAuthority, Shadow!Clock
  <2> QED BY <2>1, <2>2 DEF h
<1> QED BY <1>1, <1>2

(* The history a report publishes is the journal, segment for segment. *)
LEMMA ReportIsTheJournal ==
  ASSUME Shadow!ShadowAssumption, Shadow!ShadowTyped, Shadow!HistoriesGood, NEW p \in Procs,
         Shadow!Report(p)
  PROVE  /\ reported'.history \in Seq(Shadow!EventSet)
         /\ Shadow!GoodHistory(reported'.history)
         /\ reported'.history # <<>>
         /\ Shadow!Segments = 1..Len(reported'.history)
         /\ \A i \in 1..Len(reported'.history) :
              i \in 1..Shadow!MaxRevision /\ seg[i] = reported'.history[i]
         /\ reported'.outcome = Shadow!Outcome(reported'.history)
<1> DEFINE x == proc[p]
           h == x.receipt
<1>0. x \in Shadow!ProcSet /\ Shadow!ProcGood(x) BY DEF Shadow!ShadowTyped, Shadow!HistoriesGood
<1>1. /\ reported' = [history |-> h, outcome |-> Shadow!Outcome(h)]
      /\ x.pc = "load" /\ Shadow!JournalAgrees(p) /\ ~Shadow!Missing(p)
  BY DEF Shadow!Report, Shadow!Loaded, Shadow!Loading
<1>2. h \in Seq(Shadow!EventSet) /\ Shadow!GoodHistory(h) /\ h # <<>>
  BY <1>0, <1>1 DEF Shadow!ProcSet, Shadow!ProcGood
<1> DEFINE k == Cardinality(Shadow!Segments)
<1>3. Shadow!Segments = 1..k /\ k <= Len(h) /\ ~(k < Len(h))
      /\ \A r \in Shadow!Segments : seg[r] = h[r]
  BY <1>1, ShadowCounts DEF Shadow!JournalAgrees, Shadow!Missing
<1>4. k \in Nat /\ Shadow!Segments \subseteq 1..Shadow!MaxRevision
  BY RevisionIsNumber DEF Shadow!Segments
<1> HIDE DEF k, x
<1>5. Len(h) \in Nat BY <1>2
<1>6. k = Len(h) BY <1>3, <1>4, <1>5
<1>7. Shadow!Segments = 1..Len(h) BY <1>3, <1>6
<1>8. reported'.history = h /\ reported'.outcome = Shadow!Outcome(h) BY <1>1
<1> HIDE DEF h
<1> QED BY <1>2, <1>3, <1>4, <1>7, <1>8

(* A complete outcome is of two samples that far apart. *)
LEMMA CompleteSpans ==
  ASSUME Shadow!ShadowAssumption, NEW h \in Seq(Shadow!EventSet), h # <<>>,
         Shadow!Outcome(h) = "EVIDENCE_COMPLETE_NON_SERVING"
  PROVE  Len(h) >= 3 /\ h[Len(h)].at - h[2].at >= MinSpan
<1> DEFINE s == Tail(h)
           n == Len(s)
           span == IF n < 2 THEN 0 ELSE s[n].at - s[1].at
<1>1. Shadow!Entries(h) = s BY DEF Shadow!Entries
<1>2. span >= MinSpan BY <1>1 DEF Shadow!Outcome
<1>3. /\ Len(h) \in Nat \ {0} /\ n = Len(h) - 1 /\ \A i \in 1..n : s[i] = h[i + 1]
  OBVIOUS
<1>4. MinSpan \in Nat \ {0} BY DEF Shadow!ShadowAssumption
<1> HIDE DEF n, s
<1>5. ~(n < 2) BY <1>2, <1>4
<1>6. s[n].at - s[1].at >= MinSpan BY <1>2, <1>5
<1>7. s[n] = h[Len(h)] /\ s[1] = h[2] BY <1>3, <1>5
<1> QED BY <1>3, <1>5, <1>6, <1>7

(* Only a report changes what is reported. *)
LEMMA OnlyReportReports ==
  ASSUME [Shadow!Next]_Shadow!vars PROVE UNCHANGED reported \/ \E p \in Procs : Shadow!Report(p)
BY DEF Shadow!Next, Shadow!vars, Shadow!Open, Shadow!SubmitSample, Shadow!Start,
       Shadow!Establish, Shadow!Quarantine, Shadow!LoadRefused, Shadow!Rewrite,
       Shadow!OpenDone,
   Shadow!AppendRefused, Shadow!AppendChecked, Shadow!Advance, Shadow!AdvanceRefused,
   Shadow!WriteSegment, Shadow!WriteConflict, Shadow!Crash,
   Shadow!RollbackAuthority, Shadow!Clock

LEMMA ShadowInitially == ASSUME Shadow!ShadowAssumption,
Shadow!Init PROVE Shadow!ShadowInvariant
<1>1. <<>> \in Seq(Shadow!EventSet) /\ Shadow!GoodHistory(<<>>) BY DEF Shadow!GoodHistory
<1>2. proc \in [Procs -> Shadow!ProcSet] /\ \A p \in Procs : Shadow!ProcGood(proc[p])
  BY ClosedGood DEF Shadow!Init
<1>3. /\ auth = <<>> /\ shadowClock = 0 /\ DOMAIN seg = 1..Shadow!MaxRevision
      /\ reported.history = <<>> /\ reported.outcome = "NOT_READY"
  BY DEF Shadow!Init
<1>4. Shadow!ShadowTyped BY <1>1, <1>2, <1>3 DEF Shadow!ShadowTyped
<1>5. Shadow!HistoriesGood BY <1>1, <1>2, <1>3 DEF Shadow!HistoriesGood
<1>6. Shadow!ReportKept BY <1>1, <1>3 DEF Shadow!ReportKept
<1> QED BY <1>4, <1>5, <1>6 DEF Shadow!ShadowInvariant

LEMMA ShadowStep ==
  ASSUME Shadow!ShadowAssumption, Shadow!ShadowInvariant, [Shadow!Next]_Shadow!vars
  PROVE  Shadow!ShadowInvariant'
<1>0. Shadow!ShadowTyped /\ Shadow!HistoriesGood /\ Shadow!ReportKept
  BY DEF Shadow!ShadowInvariant
<1>1. /\ shadowClock' \in Int /\ auth' \in Seq(Shadow!EventSet)
      /\ proc' \in [Procs -> Shadow!ProcSet]
      /\ Shadow!HistoriesGood'
  BY <1>0, HistoriesStep
<1> DEFINE h == reported.history
<1>2. DOMAIN seg' = 1..Shadow!MaxRevision /\ \A i \in 1..Len(h) : seg'[i] = h[i]
  BY <1>0, CoveredStays
<1>3. CASE UNCHANGED reported
  <2>1. Shadow!ShadowTyped' BY <1>0, <1>1, <1>2, <1>3 DEF Shadow!ShadowTyped
  <2>2. Shadow!ReportKept' BY <1>0, <1>2, <1>3 DEF Shadow!ReportKept
  <2> QED BY <2>1, <2>2, <1>1 DEF Shadow!ShadowInvariant
<1>4. ASSUME NEW p \in Procs, Shadow!Report(p) PROVE Shadow!ShadowInvariant'
  <2> DEFINE g == reported'.history
  <2>1. /\ g \in Seq(Shadow!EventSet) /\ Shadow!GoodHistory(g) /\ g # <<>>
        /\ \A i \in 1..Len(g) : i \in 1..Shadow!MaxRevision /\ seg[i] = g[i]
        /\ reported'.outcome = Shadow!Outcome(g)
    BY <1>0, <1>4, ReportIsTheJournal
  <2>2. seg' = seg BY <1>4 DEF Shadow!Report
  <2>3. Shadow!ShadowTyped' BY <1>1, <1>2, <2>1 DEF Shadow!ShadowTyped
  <2>4. reported'.outcome = "EVIDENCE_COMPLETE_NON_SERVING" =>
           Len(g) >= 3 /\ g[Len(g)].at - g[2].at >= MinSpan
    BY <2>1, CompleteSpans
  <2>5. Shadow!ReportKept' BY <2>1, <2>2, <2>4 DEF Shadow!ReportKept
  <2> QED BY <2>3, <2>5, <1>1 DEF Shadow!ShadowInvariant
<1> QED BY <1>3, <1>4, OnlyReportReports

(* What a step reports extends what was reported. *)
LEMMA ReportsExtend ==
  ASSUME Shadow!ShadowAssumption, Shadow!ShadowInvariant, [Shadow!Next]_Shadow!vars
  PROVE  Shadow!IsPrefix(reported.history, reported'.history)
<1> DEFINE h == reported.history
           g == reported'.history
<1>0. Shadow!ShadowTyped /\ Shadow!HistoriesGood /\ Shadow!ReportKept
  BY DEF Shadow!ShadowInvariant
<1>1. h \in Seq(Shadow!EventSet)
      /\ \A i \in 1..Len(h) : i \in 1..Shadow!MaxRevision /\ seg[i] = h[i]
  BY <1>0 DEF Shadow!ShadowTyped, Shadow!ReportKept
<1>2. CASE UNCHANGED reported
  <2>1. g = h BY <1>2
  <2> HIDE DEF g, h
  <2>2. Len(h) <= Len(g) /\ SubSeq(h, 1, Len(h)) = SubSeq(g, 1, Len(h)) BY <1>1, <2>1
  <2> QED BY <2>2 DEF Shadow!IsPrefix, g, h
<1>3. ASSUME NEW p \in Procs, Shadow!Report(p) PROVE Shadow!IsPrefix(h, g)
  <2>1. /\ g \in Seq(Shadow!EventSet) /\ Shadow!Segments = 1..Len(g)
        /\ \A i \in 1..Len(g) : seg[i] = g[i]
    BY <1>0, <1>3, ReportIsTheJournal
  <2> HIDE DEF g, h
  <2>2. ASSUME NEW i \in 1..Len(h) PROVE i \in 1..Len(g) /\ g[i] = h[i]
    <3>1. h[i] \in Shadow!EventSet BY <1>1
    <3>2. seg[i] # Shadow!Absent BY <3>1, <1>1, EventsAreFiles
    <3>3. i \in Shadow!Segments BY <3>2, <1>1 DEF Shadow!Segments
    <3> QED BY <3>3, <2>1, <1>1
  <2>3. Len(h) \in Nat /\ Len(g) \in Nat BY <1>1, <2>1
  <2>4. Len(h) <= Len(g)
    <3>1. CASE Len(h) = 0 BY <3>1, <2>3
    <3>2. CASE Len(h) # 0
      <4>1. Len(h) \in 1..Len(h) BY <3>2, <2>3
      <4>2. Len(h) \in 1..Len(g) BY <4>1, <2>2
      <4> QED BY <4>2, <2>3
    <3> QED BY <3>1, <3>2
  <2>5. SubSeq(h, 1, Len(h)) = SubSeq(g, 1, Len(h)) BY <2>2, <2>3, <2>4, <1>1, <2>1
  <2> QED BY <2>4, <2>5 DEF Shadow!IsPrefix
<1> QED BY <1>2, <1>3, OnlyReportReports

(***************************************************************************)
(* What was reported is never forgotten or rewritten, and evidence called  *)
(* complete spans its time without a gap, counts no sample twice and is of *)
(* one set of manifests, whatever crashes, torn segments, lost answers and *)
(* restores of the authority came between                                  *)
(* (NativeShadowMeasurementCollector.report, _load_verified, _commit).     *)
(***************************************************************************)
THEOREM EvidenceOnlyEverGrows ==
  ASSUME Shadow!ShadowAssumption PROVE Shadow!Spec => EvidenceOnlyGrows
<1>1. Shadow!Init => Shadow!ShadowInvariant BY ShadowInitially
<1>2. Shadow!ShadowInvariant /\ [Shadow!Next]_Shadow!vars => Shadow!ShadowInvariant'
  BY ShadowStep
<1>3. Shadow!ShadowInvariant /\ Shadow!ShadowInvariant'
      /\ [Shadow!Next]_Shadow!vars => Shadow!EvidenceKept
  <2> SUFFICES ASSUME Shadow!ShadowInvariant, Shadow!ShadowInvariant', [Shadow!Next]_Shadow!vars
               PROVE  Shadow!EvidenceKept
    OBVIOUS
  <2> DEFINE h == reported'.history
             s == Shadow!Entries(h)
  <2>1. Shadow!IsPrefix(reported.history, h) BY ReportsExtend
  <2>2. h \in Seq(Shadow!EventSet) /\ Shadow!GoodHistory(h)
        /\ (reported'.outcome = "EVIDENCE_COMPLETE_NON_SERVING" =>
              Len(h) >= 3 /\ h[Len(h)].at - h[2].at >= MinSpan)
    BY DEF Shadow!ShadowInvariant, Shadow!ShadowTyped, Shadow!ReportKept
  <2> HIDE DEF h
  <2>3. CASE h = <<>>
    <3>1. s = <<>> /\ Len(s) = 0 /\ Len(h) = 0 BY <2>3 DEF Shadow!Entries
    <3> HIDE DEF s
    <3>2. reported'.outcome # "EVIDENCE_COMPLETE_NON_SERVING" BY <3>1, <2>2
    <3> QED BY <2>1, <3>1, <3>2 DEF Shadow!EvidenceKept, h, s
  <2>4. CASE h # <<>>
    <3>1. s = Tail(h) BY <2>4 DEF Shadow!Entries
    <3> HIDE DEF s
    <3>2. /\ Len(h) \in Nat \ {0} /\ Len(s) = Len(h) - 1
          /\ \A i \in 1..Len(s) : s[i] = h[i + 1]
      BY <3>1, <2>2, <2>4
    <3>3. ASSUME NEW i \in 1..Len(s), NEW j \in 1..Len(s), i < j
          PROVE  s[i].id # s[j].id /\ s[i].at < s[j].at
      <4>1. i + 1 \in 2..Len(h) /\ j + 1 \in 2..Len(h) /\ i + 1 < j + 1 BY <3>2, <3>3
      <4>2. h[i+1].id # h[j+1].id /\ h[i+1].at < h[j+1].at BY <4>1, <2>2 DEF Shadow!GoodHistory
      <4> QED BY <4>2, <3>2
    <3>4. ASSUME NEW i \in 1..Len(s) PROVE h[1].manifest = s[i].manifest
      <4>1. i + 1 \in 2..Len(h) BY <3>2
      <4> QED BY <4>1, <3>2, <2>2 DEF Shadow!GoodHistory
    <3>5. ASSUME NEW i \in 1..(Len(s) - 1) PROVE s[i+1].at - s[i].at <= MaxGap
      <4>1. i + 1 \in 2..(Len(h) - 1) /\ i \in 1..Len(s) /\ i + 1 \in 1..Len(s) BY <3>2
      <4>2. h[(i+1)+1].at - h[i+1].at <= MaxGap BY <4>1, <2>2 DEF Shadow!GoodHistory
      <4> QED BY <4>1, <4>2, <3>2
    <3>6. ASSUME reported'.outcome = "EVIDENCE_COMPLETE_NON_SERVING"
          PROVE  s[Len(s)].at - s[1].at >= MinSpan
      <4>1. Len(h) >= 3 /\ h[Len(h)].at - h[2].at >= MinSpan BY <3>6, <2>2
      <4>2. s[Len(s)] = h[Len(h)] /\ s[1] = h[2] BY <4>1, <3>2
      <4> QED BY <4>1, <4>2
    <3> QED BY <2>1, <3>3, <3>4, <3>5, <3>6 DEF Shadow!EvidenceKept, h, s
  <2> QED BY <2>3, <2>4
<1>4. [Shadow!EvidenceKept]_Shadow!vars => [active = "shadow" => Shadow!EvidenceKept]_shadowVars
  BY DEF Shadow!vars, shadowVars
<1> QED BY <1>1, <1>2, <1>3, <1>4, PTL DEF Shadow!Spec, EvidenceOnlyGrows
=============================================================================
