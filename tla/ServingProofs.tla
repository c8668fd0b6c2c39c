--------------------------- MODULE ServingProofs ----------------------------
(***************************************************************************)
(* Proofs about what serves a client: the orchestrator, for any finite set *)
(* of workers, any pipeline, budget, lease and deadline, and recall, for   *)
(* any objects, drafts and budgets and finitely many operations.           *)
(***************************************************************************)
EXTENDS MCServing, FiniteSetTheorems, SequenceTheorems, NaturalsInduction,
        WellFoundedInduction, TLAPS
\* What a step may do to a record: nothing once it is terminal, and a
\* cancelled one is not committed to and ends in no other state.
RecordStep(r, q) ==
  /\ r.state \in Terminal => q = r
  /\ r.cancelled => /\ q.cancelled /\ q.refs = r.refs
                    /\ q.state \in {r.state, "cancelled"}
  /\ \A s \in 1 .. Stages : q.attempts[s] >= r.attempts[s]

\* One worker takes a step of its call.
CallStep(w) ==
  /\ worker' = [worker EXCEPT ![w] = worker'[w]]
  /\ worker'[w] \in Locals

-----------------------------------------------------------------------------
(* Types.                                                                  *)

\* The parameters are numbers.
LEMMA Numbers ==
  /\ Stages \in Nat /\ Stages > 0 /\ MaxAttempts \in Nat /\ MaxAttempts > 0
  /\ Lease \in Nat /\ Deadline \in Nat /\ MaxTime \in Nat /\ MaxCrashes \in Nat
BY RuntimeAssumption

\* What stands for nothing has its type, and no stored result is NoResult.
LEMMA NothingTypes ==
  /\ NoInput \in Input /\ NoClaim \in Claim /\ NoClaim.stage = 0
  /\ NoCall \in Locals /\ NoCall.pc = "idle" /\ NoCall.existing = NoResult
  /\ NoRecord \in Record /\ NoResult \notin StoredResult
<1>1. NoInput \in Input
  BY Numbers DEF NoInput, Input
<1>2. NoClaim \in Claim /\ NoClaim.stage = 0
  BY <1>1, Numbers DEF NoClaim, Claim
<1>3. NoResult \notin StoredResult
  BY Numbers DEF NoResult, StoredResult
<1>4. NoCall \in Locals /\ NoCall.pc = "idle" /\ NoCall.existing = NoResult
  BY <1>1, <1>2, Numbers DEF NoCall, Locals, Replies
<1>5. NoRecord \in Record
  BY <1>2, Numbers DEF NoRecord, Record
<1> QED BY <1>1, <1>2, <1>3, <1>4, <1>5

\* The digest of a stage and of stored results is an input.
LEMMA InputDigestType ==
  ASSUME NEW stage \in 1 .. Stages, NEW refs \in Seq(StoredResult)
  PROVE  InputDigest(stage, refs) \in Input
<1>1. Len(refs) \in Nat /\ \A i \in 1 .. Len(refs) : refs[i] \in StoredResult
  OBVIOUS
<1> DEFINE prev == [i \in 1 .. Len(refs) |-> refs[i].content]
<1>2. prev \in [1 .. Len(refs) -> Contents \cup {None}]
  BY <1>1 DEF StoredResult
<1>3. prev \in Seq(Contents \cup {None})
  BY <1>1, <1>2, SeqDef
<1> HIDE DEF prev
<1>4. [stage |-> stage, prev |-> prev] \in Input
  BY <1>3, Numbers DEF Input
<1> QED BY <1>4 DEF InputDigest, prev

-----------------------------------------------------------------------------
(* The operations of the operation store, on any record.                   *)

States == Terminal \cup {"received", "running"}

\* Another state, and nothing else.
LEMMA StateFields ==
  ASSUME NEW r \in Record, NEW s \in States
  PROVE  LET q == [r EXCEPT !.state = s]
         IN  /\ q \in Record /\ q.claim = r.claim /\ q.state = s
             /\ q.index = r.index /\ q.refs = r.refs /\ q.attempts = r.attempts
             /\ q.cancelled = r.cancelled
BY DEF Record, States

\* No claim, and nothing else.
LEMMA UnclaimFields ==
  ASSUME NEW r \in Record
  PROVE  LET q == [r EXCEPT !.claim = NoClaim]
         IN  /\ q \in Record /\ q.claim = NoClaim /\ q.state = r.state
             /\ q.index = r.index /\ q.refs = r.refs /\ q.attempts = r.attempts
             /\ q.cancelled = r.cancelled
BY NothingTypes DEF Record

\* Attempts that are not touched are not taken back.
LEMMA SameAttempts ==
  ASSUME NEW r \in Record, NEW q, q.attempts = r.attempts
  PROVE  \A s \in 1 .. Stages : q.attempts[s] >= r.attempts[s]
<1>1. r.attempts \in [1 .. Stages -> Nat]
  BY DEF Record
<1>2. ASSUME NEW s \in 1 .. Stages PROVE q.attempts[s] >= r.attempts[s]
  <2>1. r.attempts[s] \in Nat
    BY <1>1
  <2> QED BY <2>1
<1> QED BY <1>2

\* An open record that gives up its claim, for a terminal state if it is
\* cancelled.
LEMMA UnclaimedSound ==
  ASSUME NEW r, RecordIsSound(r), r.state \notin Terminal,
         NEW q \in Record, q.claim = NoClaim, q.index = r.index, q.refs = r.refs,
         q.attempts = r.attempts, q.cancelled = r.cancelled,
         q.state = "completed" => r.index = Stages,
         r.cancelled => q.state = "cancelled"
  PROVE  RecordIsSound(q) /\ RecordStep(r, q)
<1>1. ~Claimed(q)
  BY NothingTypes DEF Claimed
<1>2. RecordIsSound(q)
  BY <1>1 DEF RecordIsSound, Terminal
<1>3. \A s \in 1 .. Stages : q.attempts[s] >= r.attempts[s]
  BY SameAttempts DEF RecordIsSound
<1> QED BY <1>2, <1>3 DEF RecordStep

\* A sound record has the fields of a record.
LEMMA SoundTypes ==
  ASSUME NEW r, RecordIsSound(r)
  PROVE  /\ r \in Record /\ r.claim \in Claim /\ r.index \in 0 .. Stages
         /\ r.attempts \in [1 .. Stages -> Nat] /\ r.refs \in Seq(StoredResult)
         /\ r.state \in States /\ r.cancelled \in BOOLEAN
         /\ r.claim.stage \in 0 .. Stages /\ r.claim.expires \in Nat
BY DEF RecordIsSound, Record, Claim, States

\* A record that does not change takes a step that it may take.
LEMMA SameRecord ==
  ASSUME NEW r, RecordIsSound(r)
  PROVE  RecordStep(r, r)
BY SoundTypes, SameAttempts DEF RecordStep

\* _normalize_terminal after the expired claim is dropped: what is left open
\* and unclaimed has a stage to run and is not cancelled.
LEMMA RefreshedSound ==
  ASSUME NEW r, RecordIsSound(r), NEW now \in Nat
  PROVE  LET q == Refreshed(r, now)
         IN  /\ RecordIsSound(q) /\ RecordStep(r, q) /\ q.attempts = r.attempts
             /\ q.index = r.index /\ q.refs = r.refs /\ q.cancelled = r.cancelled
             /\ q.state \in Terminal \/ Claimed(q) \/ (q.index < Stages /\ ~q.cancelled)
<1>0. r \in Record /\ r.index \in 0 .. Stages /\ r.state \in States /\ r.cancelled \in BOOLEAN
  BY SoundTypes
<1> DEFINE d == DropExpired(r, now)
           q == NormalizeTerminal(d, now)
           st == CASE d.cancelled -> "cancelled"
                   [] ~d.cancelled /\ now >= Deadline -> "failed"
                   [] ~d.cancelled /\ now < Deadline /\ d.index >= Stages -> "completed"
                   [] OTHER -> d.state
<1>1. CASE r.state \in Terminal \/ (Claimed(r) /\ ~(r.claim.expires <= now))
  <2>1. r.state \in Terminal => ~Claimed(r)
    BY DEF RecordIsSound
  <2>2. d = r /\ q = r
    BY <1>1, <2>1 DEF DropExpired, NormalizeTerminal
  <2> QED BY <1>1, <2>2, SameRecord DEF Refreshed
<1>2. CASE ~(r.state \in Terminal \/ (Claimed(r) /\ ~(r.claim.expires <= now)))
  <2>1. /\ d \in Record /\ d.claim = NoClaim /\ d.state = r.state /\ d.index = r.index
        /\ d.refs = r.refs /\ d.attempts = r.attempts /\ d.cancelled = r.cancelled
    <3>1. CASE Claimed(r)
      BY <1>0, <1>2, <3>1, UnclaimFields DEF DropExpired
    <3>2. CASE ~Claimed(r)
      BY <1>0, <1>2, <3>2 DEF DropExpired, RecordIsSound
    <3> QED BY <3>1, <3>2
  <2>2. ~Claimed(d)
    BY <2>1, NothingTypes DEF Claimed
  <2>3. q = [d EXCEPT !.state = st]
    BY <1>2, <2>1, <2>2 DEF NormalizeTerminal
  <2> HIDE DEF d
  <2>4. /\ st \in States /\ (d.cancelled => st = "cancelled")
        /\ st = "completed" => r.index = Stages
        /\ st \in Terminal \/ (d.index < Stages /\ ~d.cancelled)
    <3>1. CASE d.cancelled
      BY <3>1 DEF States, Terminal
    <3>2. CASE ~d.cancelled /\ now >= Deadline
      <4>1. st = "failed"
        BY <3>2, Numbers
      <4> QED BY <3>2, <4>1 DEF States, Terminal
    <3>3. CASE ~d.cancelled /\ ~(now >= Deadline) /\ d.index >= Stages
      BY <1>0, <2>1, <3>3, Numbers DEF States, Terminal
    <3>4. CASE ~d.cancelled /\ ~(now >= Deadline) /\ ~(d.index >= Stages)
      <4>1. st = r.state
        BY <2>1, <3>4, Numbers
      <4>2. r.state # "completed"
        BY <1>2 DEF Terminal
      <4> QED BY <1>0, <2>1, <3>4, <4>1, <4>2, Numbers
    <3> QED BY <3>1, <3>2, <3>3, <3>4
  <2> HIDE DEF st
  <2>5. /\ q \in Record /\ q.claim = NoClaim /\ q.state = st /\ q.index = r.index
        /\ q.refs = r.refs /\ q.attempts = r.attempts /\ q.cancelled = r.cancelled
    BY <2>1, <2>3, <2>4, StateFields
  <2> HIDE DEF q
  <2>6. RecordIsSound(q) /\ RecordStep(r, q)
    BY <1>2, <2>1, <2>4, <2>5, UnclaimedSound
  <2>7. q = Refreshed(r, now)
    BY DEF Refreshed, q, d
  <2> QED BY <2>1, <2>4, <2>5, <2>6, <2>7
<1> QED BY <1>1, <1>2

\* release_transient and fail_stage: the claim is given up, cancellation and
\* the deadline win.
LEMMA SettledSound ==
  ASSUME NEW r, RecordIsSound(r), Claimed(r), NEW now \in Nat, NEW s \in {"failed", r.state}
  PROVE  RecordIsSound(Settled(r, now, s)) /\ RecordStep(r, Settled(r, now, s))
<1>0. /\ r \in Record /\ r.state \in States /\ r.cancelled \in BOOLEAN
      /\ r.state \notin Terminal /\ r.index \in 0 .. Stages
  BY SoundTypes DEF RecordIsSound
<1> DEFINE q  == Settled(r, now, s)
           st == CASE r.cancelled -> "cancelled"
                   [] ~r.cancelled /\ now >= Deadline -> "failed"
                   [] OTHER -> s
<1>1. st \in States /\ (r.cancelled => st = "cancelled") /\ st # "completed"
  <2>1. CASE r.cancelled
    BY <2>1 DEF States, Terminal
  <2>2. CASE ~r.cancelled /\ now >= Deadline
    BY <2>2 DEF States, Terminal
  <2>3. CASE ~r.cancelled /\ ~(now >= Deadline)
    BY <1>0, <2>3 DEF States, Terminal
  <2> QED BY <2>1, <2>2, <2>3
<1>2. q = [r EXCEPT !.claim = NoClaim, !.state = st]
  BY DEF Settled
<1> HIDE DEF st, q
<1>3. /\ q \in Record /\ q.claim = NoClaim /\ q.state = st /\ q.index = r.index
      /\ q.refs = r.refs /\ q.attempts = r.attempts /\ q.cancelled = r.cancelled
  BY <1>0, <1>1, <1>2, NothingTypes DEF Record, States
<1>4. RecordIsSound(q) /\ RecordStep(r, q)
  BY <1>0, <1>1, <1>3, UnclaimedSound
<1> QED BY <1>4 DEF q

\* commit_stage: the stored result of the claimed stage is appended, unless
\* cancellation or the deadline wins.
LEMMA CommittedSound ==
  ASSUME NEW r, RecordIsSound(r), Claimed(r), NEW now \in Nat, NEW ref,
         r.cancelled \/ (ref \in results /\ ref \in StoredResult /\ ref.stage = r.claim.stage)
  PROVE  RecordIsSound(Committed(r, ref, now)) /\ RecordStep(r, Committed(r, ref, now))
<1>0. /\ r \in Record /\ r.state \in States /\ r.cancelled \in BOOLEAN
      /\ r.state \notin Terminal /\ r.index \in 0 .. Stages /\ r.claim.stage = r.index + 1
      /\ r.claim.stage \in 0 .. Stages /\ r.refs \in Seq(StoredResult)
      /\ Len(r.refs) = r.index /\ r.attempts \in [1 .. Stages -> Nat]
  BY SoundTypes DEF RecordIsSound
<1>1. CASE r.cancelled \/ now >= Deadline
  BY <1>1, SettledSound DEF Committed
<1>2. CASE ~(r.cancelled \/ now >= Deadline)
  <2> DEFINE q  == Committed(r, ref, now)
             st == CASE ref.disposition = "reject" -> "rejected"
                     [] ref.disposition # "reject" /\ r.index + 1 >= Stages -> "completed"
                     [] OTHER -> "running"
             refs == Append(r.refs, ref)
  <2>1. /\ q = [r EXCEPT !.claim = NoClaim, !.index = r.index + 1, !.refs = refs, !.state = st]
        /\ ref \in results /\ ref \in StoredResult /\ ref.stage = r.index + 1
    BY <1>0, <1>2 DEF Committed
  <2>2. r.index + 1 \in 0 .. Stages
    BY <1>0, Numbers
  <2>3. st \in States /\ (st = "completed" => r.index + 1 = Stages)
    BY <2>2, Numbers DEF States, Terminal
  <2>4. /\ refs \in Seq(StoredResult) /\ Len(refs) = r.index + 1
        /\ \A i \in 1 .. r.index : refs[i] = r.refs[i]
        /\ refs[r.index + 1] = ref
    BY <1>0, <2>1
  <2> HIDE DEF st, q, refs
  <2>5. /\ q \in Record /\ q.claim = NoClaim /\ q.state = st /\ q.index = r.index + 1
        /\ q.refs = refs /\ q.attempts = r.attempts /\ q.cancelled = r.cancelled
    BY <1>0, <2>1, <2>2, <2>3, <2>4, NothingTypes DEF Record, States
  <2>6. \A i \in 1 .. Len(refs) : refs[i].stage = i /\ refs[i] \in results
    <3>1. \A i \in 1 .. r.index : r.refs[i].stage = i /\ r.refs[i] \in results
      BY <1>0 DEF RecordIsSound
    <3>2. ASSUME NEW i \in 1 .. Len(refs)
          PROVE  refs[i].stage = i /\ refs[i] \in results
      <4>1. CASE i = r.index + 1
        BY <2>1, <2>4, <4>1
      <4>2. CASE i # r.index + 1
        <5>1. i \in 1 .. r.index
          BY <1>0, <2>4, <4>2
        <5> QED BY <2>4, <3>1, <5>1
      <4> QED BY <4>1, <4>2
    <3> QED BY <3>2
  <2>7. ~Claimed(q)
    BY <2>5, NothingTypes DEF Claimed
  <2>8. RecordIsSound(q)
    BY <1>2, <2>3, <2>4, <2>5, <2>6, <2>7 DEF RecordIsSound
  <2>9. RecordStep(r, q)
    BY <1>0, <1>2, <2>5, SameAttempts DEF RecordStep
  <2> QED BY <2>8, <2>9 DEF q
<1> QED BY <1>1, <1>2

\* request_cancel: afterwards the operation is cancelled or was terminal.
LEMMA CancelRequestedSound ==
  ASSUME NEW r, RecordIsSound(r)
  PROVE  LET q == CancelRequested(r)
         IN  /\ RecordIsSound(q) /\ RecordStep(r, q)
             /\ q.cancelled \/ q.state \in Terminal
<1>0. /\ r \in Record /\ r.state \in States /\ r.cancelled \in BOOLEAN
      /\ r.attempts \in [1 .. Stages -> Nat]
  BY SoundTypes
<1>1. CASE r.state \in Terminal \/ r.cancelled
  BY <1>0, <1>1, SameRecord DEF CancelRequested
<1>2. CASE ~(r.state \in Terminal \/ r.cancelled)
  <2> DEFINE q  == CancelRequested(r)
             st == IF Claimed(r) THEN r.state ELSE "cancelled"
  <2>1. q = [r EXCEPT !.cancelled = TRUE, !.state = st]
    BY <1>2 DEF CancelRequested
  <2>2. st \in States /\ st # "completed" /\ (Claimed(r) => st = r.state)
        /\ (~Claimed(r) => st \in Terminal)
    BY <1>0, <1>2 DEF States, Terminal
  <2> HIDE DEF st, q
  <2>3. /\ q \in Record /\ q.claim = r.claim /\ q.state = st /\ q.index = r.index
        /\ q.refs = r.refs /\ q.attempts = r.attempts /\ q.cancelled = TRUE
    BY <1>0, <2>1, <2>2 DEF Record, States
  <2>4. Claimed(q) <=> Claimed(r)
    BY <2>3 DEF Claimed
  <2>5. RecordIsSound(q)
    BY <1>2, <2>2, <2>3, <2>4 DEF RecordIsSound
  <2>6. RecordStep(r, q)
    BY <1>0, <1>2, <2>3, SameAttempts DEF RecordStep
  <2> QED BY <2>3, <2>5, <2>6 DEF q
<1> QED BY <1>1, <1>2

-----------------------------------------------------------------------------
(* Calls.                                                                  *)

\* The step of one worker leaves the other calls alone.
LEMMA CallStepFacts ==
  ASSUME TypeOK, NEW w \in Workers, CallStep(w)
  PROVE  /\ worker' \in [Workers -> Locals]
         /\ \A v \in Workers \ {w} : worker'[v] = worker[v]
BY DEF CallStep, TypeOK

\* A reply ends the call.
LEMMA ReplyStep ==
  ASSUME TypeOK, NEW w \in Workers, NEW reply \in Replies, Reply(w, reply)
  PROVE  CallStep(w) /\ worker'[w].pc = "idle" /\ worker'[w].existing = NoResult
<1>1. /\ worker' = [worker EXCEPT ![w] = worker'[w]]
      /\ worker'[w] = [NoCall EXCEPT !.reply = reply]
  BY DEF Reply, TypeOK
<1>2. /\ worker'[w] \in Locals /\ worker'[w].pc = "idle"
      /\ worker'[w].existing = NoResult
  BY <1>1, NothingTypes DEF Locals
<1> QED BY <1>1, <1>2 DEF CallStep

\* So does the reply for a record.
LEMMA ReplyForStep ==
  ASSUME TypeOK, NEW w \in Workers, NEW r, r.state \in States, ReplyFor(w, r)
  PROVE  CallStep(w) /\ worker'[w].pc = "idle" /\ worker'[w].existing = NoResult
<1>1. (IF r.state \in Terminal THEN r.state ELSE "retry_later") \in Replies
  BY DEF Replies
<1> QED BY <1>1, ReplyStep DEF ReplyFor

\* A move changes the label and reads the clock.
LEMMA MoveStep ==
  ASSUME TypeOK, NEW w \in Workers,
         NEW pc \in {"get", "handler", "put", "commit", "transient", "fail", "deadline",
                     "cancel", "cancel_commit", "lost"},
         Move(w, pc)
  PROVE  /\ CallStep(w) /\ worker'[w].pc = pc
         /\ worker'[w].existing = worker[w].existing /\ worker'[w].claim = worker[w].claim
         /\ worker'[w].result = worker[w].result
<1>0. worker[w] \in Locals /\ clock \in 0 .. MaxTime
  BY DEF TypeOK
<1>1. /\ worker' = [worker EXCEPT ![w] = worker'[w]]
      /\ worker'[w] = [worker[w] EXCEPT !.pc = pc, !.since = clock]
  BY DEF Move, TypeOK
<1>2. worker'[w] \in Locals
  BY <1>0, <1>1 DEF Locals
<1>3. /\ worker'[w].pc = pc /\ worker'[w].existing = worker[w].existing
      /\ worker'[w].claim = worker[w].claim /\ worker'[w].result = worker[w].result
  BY <1>0, <1>1 DEF Locals
<1> QED BY <1>1, <1>2, <1>3 DEF CallStep

\* The times that a store call may have read are numbers.
LEMMA NowType ==
  ASSUME TypeOK, NEW w \in Workers, NEW now \in Now(w)
  PROVE  now \in Nat
<1>1. worker[w].since \in 0 .. MaxTime /\ clock \in 0 .. MaxTime
  BY DEF TypeOK, Locals
<1> QED BY <1>1, Numbers DEF Now

\* A claim that is held is a claim of the record.
LEMMA HoldsClaimFacts ==
  ASSUME NEW r, NEW c, NEW now, NEW lenient, HoldsClaim(r, c, now, lenient)
  PROVE  Claimed(r) /\ c.stage = r.claim.stage
BY DEF HoldsClaim, Token

-----------------------------------------------------------------------------
(* Executions.                                                             *)

\* The workers that are to execute a stage change by the one that steps only.
LEMMA Counts ==
  ASSUME TypeOK, NEW w \in Workers, CallStep(w), NEW s
  PROVE  \E n \in Nat :
           /\ Cardinality(Executing(s)) = IF w \in Executing(s) THEN n + 1 ELSE n
           /\ Cardinality(Executing(s))' = IF w \in Executing(s)' THEN n + 1 ELSE n
<1> DEFINE E == Executing(s)
           EE == Executing(s)'
           n == Cardinality(E \ {w})
<1>0. \A v \in Workers \ {w} : worker'[v] = worker[v]
  BY CallStepFacts
<1>1. E \subseteq Workers /\ EE \subseteq Workers
  BY DEF Executing
<1>2. EE \ {w} = E \ {w}
  BY <1>0 DEF Executing
<1> HIDE DEF E, EE
<1>3. IsFiniteSet(E) /\ IsFiniteSet(EE)
  BY <1>1, FS_Subset, RuntimeAssumption
<1>4. ASSUME NEW S, IsFiniteSet(S)
      PROVE  /\ Cardinality(S \ {w}) \in Nat
             /\ Cardinality(S) = IF w \in S THEN Cardinality(S \ {w}) + 1
                                 ELSE Cardinality(S \ {w})
  <2>1. Cardinality(S) \in Nat
    BY <1>4, FS_CardinalityType
  <2>2. IsFiniteSet(S \ {w}) /\ Cardinality(S \ {w}) =
          IF w \in S THEN Cardinality(S) - 1 ELSE Cardinality(S)
    BY <1>4, FS_RemoveElement
  <2>3. Cardinality(S \ {w}) \in Nat
    BY <2>2, FS_CardinalityType
  <2> QED BY <2>1, <2>2, <2>3
<1>5. n = Cardinality(EE \ {w})
  BY <1>2
<1>6. /\ n \in Nat
      /\ Cardinality(E) = IF w \in E THEN n + 1 ELSE n
      /\ Cardinality(EE) = IF w \in EE THEN n + 1 ELSE n
  BY <1>3, <1>4, <1>5
<1> HIDE DEF n
<1> QED BY <1>6 DEF E, EE

\* A worker that does not begin to execute, or that has a fresh attempt within
\* the budget for it, and that leaves when it has executed, keeps the count.
LEMMA CoverKept ==
  ASSUME TypeOK, AttemptsCover, NEW w \in Workers, CallStep(w), TypeOK',
         \A s \in 1 .. Stages : rec'.attempts[s] >= rec.attempts[s],
         \A s \in 1 .. Stages :
           \/ executions'[s] = executions[s] /\ (w \in Executing(s)' => w \in Executing(s))
           \/ /\ executions'[s] = executions[s]
              /\ rec'.attempts[s] = rec.attempts[s] + 1 /\ rec.attempts[s] < MaxAttempts
           \/ executions'[s] = executions[s] + 1 /\ w \in Executing(s) /\ w \notin Executing(s)'
  PROVE  AttemptsCover'
<1> SUFFICES ASSUME NEW s \in 1 .. Stages
             PROVE  /\ executions'[s] + Cardinality(Executing(s))' <= rec'.attempts[s]
                    /\ executions'[s] + Cardinality(Executing(s))' <= MaxAttempts
  BY DEF AttemptsCover
<1>1. PICK n \in Nat :
        /\ Cardinality(Executing(s)) = IF w \in Executing(s) THEN n + 1 ELSE n
        /\ Cardinality(Executing(s))' = IF w \in Executing(s)' THEN n + 1 ELSE n
  BY Counts
<1>2. /\ executions[s] \in Nat /\ executions'[s] \in Nat
      /\ rec.attempts[s] \in Nat /\ rec'.attempts[s] \in Nat /\ MaxAttempts \in Nat
      /\ rec'.attempts[s] >= rec.attempts[s]
  BY Numbers DEF TypeOK, Record
<1>3. /\ executions[s] + Cardinality(Executing(s)) <= rec.attempts[s]
      /\ executions[s] + Cardinality(Executing(s)) <= MaxAttempts
  BY DEF AttemptsCover
<1>4. Cardinality(Executing(s)) \in Nat /\ Cardinality(Executing(s))' \in Nat
  BY <1>1
<1>5. CASE executions'[s] = executions[s] /\ (w \in Executing(s)' => w \in Executing(s))
  <2>1. Cardinality(Executing(s))' <= Cardinality(Executing(s))
    BY <1>1, <1>5
  <2> QED BY <1>2, <1>3, <1>4, <1>5, <2>1
<1>6. CASE /\ executions'[s] = executions[s]
           /\ rec'.attempts[s] = rec.attempts[s] + 1 /\ rec.attempts[s] < MaxAttempts
  <2>1. Cardinality(Executing(s))' <= Cardinality(Executing(s)) + 1
    BY <1>1
  <2> QED BY <1>2, <1>3, <1>4, <1>6, <2>1
<1>7. CASE executions'[s] = executions[s] + 1 /\ w \in Executing(s) /\ w \notin Executing(s)'
  <2>1. Cardinality(Executing(s))' + 1 = Cardinality(Executing(s))
    BY <1>1, <1>7
  <2> QED BY <1>2, <1>3, <1>4, <1>7, <2>1
<1> QED BY <1>5, <1>6, <1>7
-----------------------------------------------------------------------------
(* Steps.                                                                  *)

\* A sound record is sound for every larger store of results.
LEMMA SoundGrows ==
  ASSUME RecordIsSound(rec'), results \subseteq results'
  PROVE  RecordIsSound(rec)'
BY DEF RecordIsSound, Claimed

\* What a worker that does not step knows stays true.
LEMMA OthersStaySound ==
  ASSUME NEW v \in Workers, CallIsSound(v), worker'[v] = worker[v],
         RecordStep(rec, rec'), results \subseteq results'
  PROVE  CallIsSound(v)'
BY DEF CallIsSound, RecordStep

\* A step of one worker: its own knowledge, a sound record and covered
\* executions are enough.
LEMMA StepKeeps ==
  ASSUME RuntimeInvariant, NEW w \in Workers, CallStep(w), CallIsSound(w)',
         clock' = clock, owner' \in Operations \cup {None},
         results \subseteq results', results' \subseteq StoredResult,
         executions' \in [1 .. Stages -> Nat], crashes' \in 0 .. MaxCrashes,
         RecordIsSound(rec'), RecordStep(rec, rec'),
         \A s \in 1 .. Stages :
           \/ executions'[s] = executions[s] /\ (w \in Executing(s)' => w \in Executing(s))
           \/ /\ executions'[s] = executions[s]
              /\ rec'.attempts[s] = rec.attempts[s] + 1 /\ rec.attempts[s] < MaxAttempts
           \/ executions'[s] = executions[s] + 1 /\ w \in Executing(s) /\ w \notin Executing(s)'
  PROVE  RuntimeInvariant'
<1>0. TypeOK /\ AttemptsCover /\ (\A v \in Workers : CallIsSound(v))
  BY DEF RuntimeInvariant
<1>1. /\ worker' \in [Workers -> Locals]
      /\ \A v \in Workers \ {w} : worker'[v] = worker[v]
  BY <1>0, CallStepFacts
<1>2. TypeOK'
  <2>1. rec' \in Record
    BY DEF RecordIsSound
  <2> QED BY <1>0, <1>1, <2>1 DEF TypeOK
<1>3. RecordIsSound(rec)'
  BY SoundGrows
<1>4. \A v \in Workers : CallIsSound(v)'
  <2>1. ASSUME NEW v \in Workers \ {w} PROVE CallIsSound(v)'
    BY <1>0, <1>1, OthersStaySound
  <2> QED BY <2>1
<1>5. AttemptsCover'
  BY <1>0, <1>2, CoverKept DEF RecordStep
<1> QED BY <1>2, <1>3, <1>4, <1>5 DEF RuntimeInvariant

\* A step of one worker that neither stores a result nor claims or executes a
\* stage.
LEMMA QuietStep ==
  ASSUME RuntimeInvariant, NEW w \in Workers, CallStep(w), CallIsSound(w)',
         UNCHANGED <<clock, results, executions>>, owner' \in Operations \cup {None},
         crashes' \in 0 .. MaxCrashes, RecordIsSound(rec'), RecordStep(rec, rec'),
         worker'[w].pc \in {"execute", "handler"} =>
           worker[w].pc \in {"execute", "handler"} /\ worker'[w].claim = worker[w].claim
  PROVE  RuntimeInvariant'
<1>1. results \subseteq StoredResult /\ executions \in [1 .. Stages -> Nat]
  BY DEF RuntimeInvariant, TypeOK
<1>2. \A s \in 1 .. Stages : w \in Executing(s)' => w \in Executing(s)
  BY DEF Executing
<1>3. /\ clock' = clock /\ results \subseteq results' /\ results' \subseteq StoredResult
      /\ executions' \in [1 .. Stages -> Nat]
      /\ \A s \in 1 .. Stages : executions'[s] = executions[s]
  BY <1>1
<1> QED BY <1>2, <1>3, StepKeeps

\* A call that is over, or that only lost its way, knows nothing it must keep.
LEMMA PlainCallIsSound ==
  ASSUME NEW w \in Workers, worker'[w].existing \in results' \cup {NoResult},
         worker'[w].pc \notin {"commit", "check", "put", "execute", "handler", "cancel_commit"}
  PROVE  CallIsSound(w)'
BY DEF CallIsSound

\* A record that does not change, with the clients' and the clock's share of
\* the state unchanged too.
LEMMA PlainStep ==
  ASSUME RuntimeInvariant, NEW w \in Workers, CallStep(w),
         UNCHANGED <<clock, owner, results, executions, crashes>>,
         RecordIsSound(rec'), RecordStep(rec, rec'),
         worker'[w].existing \in results \cup {NoResult},
         worker'[w].pc \notin {"commit", "check", "put", "execute", "handler", "cancel_commit"}
  PROVE  RuntimeInvariant'
<1>1. owner' \in Operations \cup {None} /\ crashes' \in 0 .. MaxCrashes
  BY DEF RuntimeInvariant, TypeOK
<1>2. CallIsSound(w)'
  BY PlainCallIsSound
<1> QED BY <1>1, <1>2, QuietStep

\* Run: a call begins.
LEMMA RunKeeps ==
  ASSUME RuntimeInvariant, NEW w \in Workers, Run(w)
  PROVE  RuntimeInvariant' /\ RecordStep(rec, rec')
<1>0. TypeOK /\ RecordIsSound(rec)
  BY DEF RuntimeInvariant
<1>1. PICK oper \in Operations :
        worker' = [worker EXCEPT ![w] = [NoCall EXCEPT !.pc = "register", !.op = oper,
                                                       !.since = clock]]
  BY DEF Run
<1>2. /\ worker' = [worker EXCEPT ![w] = worker'[w]]
      /\ worker'[w] = [NoCall EXCEPT !.pc = "register", !.op = oper, !.since = clock]
  BY <1>0, <1>1 DEF TypeOK
<1>3. worker'[w] \in Locals /\ worker'[w].pc = "register" /\ worker'[w].existing = NoResult
  BY <1>0, <1>2, NothingTypes DEF Locals, TypeOK
<1>4. CallStep(w)
  BY <1>2, <1>3 DEF CallStep
<1>5. UNCHANGED <<clock, owner, rec, results, executions, crashes>>
  BY DEF Run
<1>6. RecordIsSound(rec') /\ RecordStep(rec, rec')
  BY <1>0, <1>5, SameRecord
<1> QED BY <1>3, <1>4, <1>5, <1>6, PlainStep

\* Register: the key is given to the first operation.
LEMMA RegisterKeeps ==
  ASSUME RuntimeInvariant, NEW w \in Workers, Register(w)
  PROVE  RuntimeInvariant' /\ RecordStep(rec, rec')
<1>0. TypeOK /\ RecordIsSound(rec) /\ CallIsSound(w)
  BY DEF RuntimeInvariant
<1>1. UNCHANGED <<clock, rec, results, executions, crashes>>
  BY DEF Register
<1>2. RecordIsSound(rec') /\ RecordStep(rec, rec')
  BY <1>0, <1>1, SameRecord
<1>3. /\ CallStep(w) /\ worker'[w].pc \in {"idle", "get"}
      /\ worker'[w].existing \in {worker[w].existing, NoResult}
  <2>1. CASE Reply(w, "conflict")
    BY <1>0, <2>1, ReplyStep DEF Replies
  <2>2. CASE Move(w, "get")
    BY <1>0, <2>2, MoveStep
  <2> QED BY <2>1, <2>2 DEF Register
<1>4. owner' \in Operations \cup {None} /\ crashes' \in 0 .. MaxCrashes
  <2>1. worker[w].op \in Operations \cup {None}
    BY <1>0 DEF TypeOK, Locals
  <2> QED BY <1>0, <1>1, <2>1 DEF Register, TypeOK
<1>5. CallIsSound(w)'
  BY <1>0, <1>1, <1>3, PlainCallIsSound DEF CallIsSound
<1> QED BY <1>1, <1>2, <1>3, <1>4, <1>5, QuietStep

\* Get: the record is read.
LEMMA GetKeeps ==
  ASSUME RuntimeInvariant, NEW w \in Workers, Get(w)
  PROVE  RuntimeInvariant' /\ RecordStep(rec, rec')
<1>0. TypeOK /\ RecordIsSound(rec) /\ CallIsSound(w) /\ worker[w] \in Locals
  BY DEF RuntimeInvariant, TypeOK
<1>1. UNCHANGED <<clock, owner, rec, results, executions, crashes>>
  BY DEF Get
<1>2. RecordIsSound(rec') /\ RecordStep(rec, rec')
  BY <1>0, <1>1, SameRecord
<1>3. CASE ReplyFor(w, rec)
  <2>1. rec.state \in States
    BY <1>0, SoundTypes
  <2>2. CallStep(w) /\ worker'[w].pc = "idle" /\ worker'[w].existing = NoResult
    BY <1>0, <1>3, <2>1, ReplyForStep
  <2> QED BY <1>1, <1>2, <2>2, PlainStep
<1>4. CASE ~(rec.state \in Terminal \/ rec.index >= Stages \/ worker[w].loops >= Stages + 2)
  <2> DEFINE input == InputDigest(rec.index + 1, rec.refs)
  <2>1. input \in Input
    <3>1. rec.index \in 0 .. Stages /\ rec.refs \in Seq(StoredResult)
      BY <1>0, SoundTypes
    <3>2. rec.index + 1 \in 1 .. Stages
      BY <1>4, <3>1, Numbers
    <3> QED BY <3>1, <3>2, InputDigestType
  <2>2. /\ worker' = [worker EXCEPT ![w] = worker'[w]]
        /\ worker'[w] = [worker[w] EXCEPT !.pc = "lookup", !.since = clock,
                           !.loops = worker[w].loops + 1, !.claim = NoClaim,
                           !.result = NoResult, !.input = input]
    BY <1>0, <1>4 DEF Get, TypeOK
  <2> HIDE DEF input
  <2>3. worker[w].loops + 1 \in Nat /\ clock \in 0 .. MaxTime
    BY <1>0 DEF TypeOK, Locals
  <2>4. /\ worker'[w] \in Locals /\ worker'[w].pc = "lookup"
        /\ worker'[w].existing = worker[w].existing
    BY <1>0, <2>1, <2>2, <2>3, NothingTypes DEF Locals
  <2>5. CallStep(w)
    BY <2>2, <2>4 DEF CallStep
  <2>6. worker'[w].existing \in results \cup {NoResult}
    BY <1>0, <2>4 DEF CallIsSound
  <2> QED BY <1>1, <1>2, <2>4, <2>5, <2>6, PlainStep
<1> QED BY <1>3, <1>4 DEF Get

\* Lookup: the stored result, if there is one.
LEMMA LookupKeeps ==
  ASSUME RuntimeInvariant, NEW w \in Workers, Lookup(w)
  PROVE  RuntimeInvariant' /\ RecordStep(rec, rec')
<1>0. TypeOK /\ RecordIsSound(rec) /\ worker[w] \in Locals /\ results \subseteq StoredResult
  BY DEF RuntimeInvariant, TypeOK
<1>1. UNCHANGED <<clock, owner, rec, results, executions, crashes>>
  BY DEF Lookup
<1>2. RecordIsSound(rec') /\ RecordStep(rec, rec')
  BY <1>0, <1>1, SameRecord
<1> DEFINE found == Stored(worker[w].input.stage, worker[w].input)
           known == IF found = {} THEN NoResult ELSE CHOOSE r \in found : TRUE
<1>3. known \in results \cup {NoResult}
  <2>1. found \subseteq results
    BY DEF Stored
  <2> HIDE DEF found
  <2> QED BY <2>1
<1>4. /\ worker' = [worker EXCEPT ![w] = worker'[w]]
      /\ worker'[w] = [worker[w] EXCEPT !.pc = "claim", !.since = clock, !.existing = known]
  BY <1>0 DEF Lookup, TypeOK
<1> HIDE DEF known
<1>5. worker'[w] \in Locals /\ worker'[w].pc = "claim" /\ worker'[w].existing = known
  <2>1. clock \in 0 .. MaxTime /\ known \in StoredResult \cup {NoResult}
    BY <1>0, <1>3 DEF TypeOK
  <2> QED BY <1>0, <1>4, <2>1 DEF Locals
<1>6. CallStep(w)
  BY <1>4, <1>5 DEF CallStep
<1> QED BY <1>1, <1>2, <1>3, <1>5, <1>6, PlainStep
\* ClaimNext: nothing to claim, a used budget, or a claim of the next stage.
LEMMA ClaimNextKeeps ==
  ASSUME RuntimeInvariant, NEW w \in Workers, ClaimNext(w)
  PROVE  RuntimeInvariant' /\ RecordStep(rec, rec')
<1>0. /\ TypeOK /\ RecordIsSound(rec) /\ CallIsSound(w) /\ worker[w] \in Locals
      /\ results \subseteq StoredResult /\ clock \in 0 .. MaxTime
  BY DEF RuntimeInvariant, TypeOK
<1>1. UNCHANGED <<clock, owner, results, executions, crashes>> /\ worker[w].pc = "claim"
  BY DEF ClaimNext, At
<1>2. PICK now \in Now(w) :
        LET r     == Refreshed(rec, now)
            stage == r.index + 1
            claim == [stage |-> stage, attempt |-> r.attempts[stage] + 1, by |-> w,
                      input |-> worker[w].input,
                      expires |-> Earlier(Deadline, now + Lease)]
            done  == r.state \in Terminal \/ Claimed(r)
            used == ~done /\ r.attempts[stage] >= MaxAttempts
                     /\ worker[w].existing = NoResult
        IN CASE done  -> rec' = r /\ ReplyFor(w, r)
             [] used -> rec' = [r EXCEPT !.state = "failed"] /\ Reply(w, "failed")
             [] OTHER ->
                  /\ rec' = [r EXCEPT !.claim = claim, !.attempts[stage] = @ + 1]
                  /\ worker' = [worker EXCEPT ![w].claim = claim, ![w].since = clock,
                                  ![w].result = worker[w].existing,
                                  ![w].existing = NoResult, ![w].input = NoInput,
                                  ![w].pc = IF worker[w].existing = NoResult
                                            THEN "execute" ELSE "commit"]
  BY DEF ClaimNext
<1>3. now \in Nat
  BY <1>0, NowType
<1> DEFINE r     == Refreshed(rec, now)
           stage == r.index + 1
           claim == [stage |-> stage, attempt |-> r.attempts[stage] + 1, by |-> w,
                     input |-> worker[w].input, expires |-> Earlier(Deadline, now + Lease)]
<1>4. /\ RecordIsSound(r) /\ RecordStep(rec, r) /\ r.attempts = rec.attempts
      /\ r.refs = rec.refs /\ r.cancelled = rec.cancelled
      /\ r.state \in Terminal \/ Claimed(r) \/ (r.index < Stages /\ ~r.cancelled)
  BY <1>0, <1>3, RefreshedSound
<1> HIDE DEF r
<1>5. /\ r \in Record /\ r.index \in 0 .. Stages /\ r.attempts \in [1 .. Stages -> Nat]
      /\ r.state \in States /\ r.cancelled \in BOOLEAN
  BY <1>4, SoundTypes
<1>6. CASE r.state \in Terminal \/ Claimed(r)
  <2>1. rec' = r /\ ReplyFor(w, r)
    BY <1>2, <1>6 DEF r
  <2>2. CallStep(w) /\ worker'[w].pc = "idle" /\ worker'[w].existing = NoResult
    BY <1>0, <1>5, <2>1, ReplyForStep
  <2> QED BY <1>1, <1>4, <2>1, <2>2, PlainStep
<1>7. CASE /\ ~(r.state \in Terminal \/ Claimed(r))
           /\ r.attempts[stage] >= MaxAttempts /\ worker[w].existing = NoResult
  <2>1. rec' = [r EXCEPT !.state = "failed"] /\ Reply(w, "failed")
    BY <1>2, <1>7 DEF r
  <2>2. CallStep(w) /\ worker'[w].pc = "idle" /\ worker'[w].existing = NoResult
    BY <1>0, <2>1, ReplyStep DEF Replies, Terminal
  <2>3. /\ rec' \in Record /\ rec'.claim = r.claim /\ rec'.state = "failed"
        /\ rec'.index = r.index /\ rec'.refs = r.refs /\ rec'.attempts = r.attempts
        /\ rec'.cancelled = r.cancelled
    BY <1>5, <2>1, StateFields DEF States, Terminal
  <2>4. r.claim = NoClaim /\ r.state \notin Terminal /\ ~r.cancelled
    BY <1>4, <1>7 DEF RecordIsSound
  <2>5. RecordIsSound(rec') /\ RecordStep(r, rec')
    BY <1>4, <2>3, <2>4, UnclaimedSound
  <2>6. RecordStep(rec, rec')
    <3>1. rec.state \notin Terminal /\ ~rec.cancelled
      BY <1>4, <2>4 DEF RecordStep
    <3> QED BY <1>4, <2>5, <3>1 DEF RecordStep
  <2> QED BY <1>1, <2>2, <2>5, <2>6, PlainStep
<1>8. CASE /\ ~(r.state \in Terminal \/ Claimed(r))
           /\ ~(r.attempts[stage] >= MaxAttempts /\ worker[w].existing = NoResult)
  <2> DEFINE pc == IF worker[w].existing = NoResult THEN "execute" ELSE "commit"
  <2>1. /\ rec' = [r EXCEPT !.claim = claim, !.attempts[stage] = @ + 1]
        /\ worker' = [worker EXCEPT ![w].claim = claim, ![w].since = clock,
                        ![w].result = worker[w].existing,
                        ![w].existing = NoResult, ![w].input = NoInput, ![w].pc = pc]
    BY <1>2, <1>8 DEF r
  <2>2. stage \in 1 .. Stages /\ r.attempts[stage] \in Nat /\ ~r.cancelled
    BY <1>4, <1>5, <1>8, Numbers
  <2>3. claim \in Claim /\ claim.stage = stage
    <3>1. Earlier(Deadline, now + Lease) \in Nat
      BY <1>3, Numbers DEF Earlier
    <3>2. worker[w].input \in Input
      BY <1>0 DEF Locals
    <3> QED BY <2>2, <3>1, <3>2, Numbers DEF Claim
  <2> HIDE DEF claim, stage
  <2>4. /\ rec' \in Record /\ rec'.claim = claim /\ rec'.state = r.state
        /\ rec'.index = r.index /\ rec'.refs = r.refs /\ rec'.cancelled = r.cancelled
        /\ rec'.attempts = [r.attempts EXCEPT ![stage] = r.attempts[stage] + 1]
    <3> DEFINE att == [r.attempts EXCEPT ![stage] = r.attempts[stage] + 1]
    <3>1. att \in [1 .. Stages -> Nat]
      BY <1>5, <2>2
    <3>2. rec' = [r EXCEPT !.claim = claim, !.attempts = att]
      BY <1>5, <2>1 DEF Record
    <3> HIDE DEF att
    <3>3. /\ rec' \in Record /\ rec'.claim = claim /\ rec'.state = r.state
          /\ rec'.index = r.index /\ rec'.refs = r.refs /\ rec'.cancelled = r.cancelled
          /\ rec'.attempts = att
      BY <1>5, <2>3, <3>1, <3>2 DEF Record
    <3> QED BY <3>3 DEF att
  <2>5. RecordIsSound(rec')
    <3>1. Claimed(rec') /\ rec'.claim.stage = r.index + 1
      BY <2>2, <2>3, <2>4 DEF Claimed, stage
    <3> QED BY <1>4, <1>8, <2>2, <2>4, <3>1 DEF RecordIsSound
  <2>6. RecordStep(rec, rec')
    <3>1. rec.state \notin Terminal /\ ~rec.cancelled
      BY <1>4, <1>8, <2>2 DEF RecordStep
    <3>2. ASSUME NEW s \in 1 .. Stages PROVE rec'.attempts[s] >= rec.attempts[s]
      <4>1. r.attempts[s] \in Nat /\ r.attempts[s] = rec.attempts[s]
        BY <1>4, <1>5
      <4> QED BY <1>5, <2>2, <2>4, <4>1
    <3> QED BY <3>1, <3>2 DEF RecordStep
  <2>7. /\ worker' = [worker EXCEPT ![w] = worker'[w]]
        /\ worker'[w] = [worker[w] EXCEPT !.claim = claim, !.since = clock,
                           !.result = worker[w].existing, !.existing = NoResult,
                           !.input = NoInput, !.pc = pc]
    BY <1>0, <2>1 DEF TypeOK
  <2>8. /\ worker'[w] \in Locals /\ worker'[w].claim = claim /\ worker'[w].pc = pc
        /\ worker'[w].existing = NoResult /\ worker'[w].result = worker[w].existing
    BY <1>0, <2>3, <2>7, NothingTypes DEF Locals
  <2>9. CallStep(w)
    BY <2>7, <2>8 DEF CallStep
  <2>10. CallIsSound(w)'
    BY <1>0, <1>1, <2>2, <2>3, <2>8 DEF CallIsSound
  <2>11. ASSUME NEW s \in 1 .. Stages
         PROVE  \/ w \in Executing(s)' => w \in Executing(s)
                \/ rec'.attempts[s] = rec.attempts[s] + 1 /\ rec.attempts[s] < MaxAttempts
    <3>1. CASE s = stage /\ worker[w].existing = NoResult
      <4>1. ~(r.attempts[stage] >= MaxAttempts) /\ rec.attempts[stage] = r.attempts[stage]
        BY <1>4, <1>8, <3>1
      <4>2. rec'.attempts[stage] = rec.attempts[stage] + 1
        BY <1>5, <2>2, <2>4, <4>1
      <4> QED BY <2>2, <3>1, <4>1, <4>2, Numbers
    <3>2. CASE ~(s = stage /\ worker[w].existing = NoResult)
      BY <2>3, <2>8, <3>2 DEF Executing
    <3> QED BY <3>1, <3>2
  <2>12. /\ clock' = clock /\ results \subseteq results' /\ results' \subseteq StoredResult
         /\ executions' \in [1 .. Stages -> Nat] /\ crashes' \in 0 .. MaxCrashes
         /\ owner' \in Operations \cup {None}
         /\ \A s \in 1 .. Stages : executions'[s] = executions[s]
    BY <1>0, <1>1 DEF TypeOK
  <2> QED BY <2>5, <2>6, <2>9, <2>10, <2>11, <2>12, StepKeeps
<1> QED BY <1>6, <1>7, <1>8

\* A checkpoint of the handler goes on, or turns to the signal or the deadline.
LEMMA CheckpointStep ==
  ASSUME TypeOK, NEW w \in Workers, NEW next \in {"handler", "put"}, Checkpoint(w, next)
  PROVE  /\ CallStep(w) /\ worker'[w].pc \in {"cancel", "deadline", next}
         /\ worker'[w].existing = worker[w].existing /\ worker'[w].claim = worker[w].claim
         /\ worker'[w].result = worker[w].result
<1>1. PICK pc \in {"cancel", "deadline", next} : Move(w, pc)
  BY DEF Checkpoint
<1>2. pc \in {"get", "handler", "put", "commit", "transient", "fail", "deadline",
              "cancel", "cancel_commit", "lost"}
  OBVIOUS
<1> QED BY <1>1, <1>2, MoveStep

\* CheckBefore: the checkpoint before the handler.
LEMMA CheckBeforeKeeps ==
  ASSUME RuntimeInvariant, NEW w \in Workers, CheckBefore(w)
  PROVE  RuntimeInvariant' /\ RecordStep(rec, rec')
<1>0. TypeOK /\ RecordIsSound(rec) /\ CallIsSound(w)
  BY DEF RuntimeInvariant
<1>1. /\ UNCHANGED <<clock, owner, rec, results, executions, crashes>>
      /\ worker[w].pc = "execute" /\ Checkpoint(w, "handler")
  BY DEF CheckBefore, At
<1>2. RecordIsSound(rec') /\ RecordStep(rec, rec')
  BY <1>0, <1>1, SameRecord
<1>3. /\ CallStep(w) /\ worker'[w].pc \in {"cancel", "deadline", "handler"}
      /\ worker'[w].existing = worker[w].existing /\ worker'[w].claim = worker[w].claim
  BY <1>0, <1>1, CheckpointStep
<1>4. CallIsSound(w)'
  BY <1>0, <1>1, <1>3 DEF CallIsSound
<1>5. owner' \in Operations \cup {None} /\ crashes' \in 0 .. MaxCrashes
  BY <1>0, <1>1 DEF TypeOK
<1> QED BY <1>1, <1>2, <1>3, <1>4, <1>5, QuietStep

\* CheckAfter: the checkpoint after the handler.
LEMMA CheckAfterKeeps ==
  ASSUME RuntimeInvariant, NEW w \in Workers, CheckAfter(w)
  PROVE  RuntimeInvariant' /\ RecordStep(rec, rec')
<1>0. TypeOK /\ RecordIsSound(rec) /\ CallIsSound(w)
  BY DEF RuntimeInvariant
<1>1. /\ UNCHANGED <<clock, owner, rec, results, executions, crashes>>
      /\ worker[w].pc = "check" /\ Checkpoint(w, "put")
  BY DEF CheckAfter, At
<1>2. RecordIsSound(rec') /\ RecordStep(rec, rec')
  BY <1>0, <1>1, SameRecord
<1>3. /\ CallStep(w) /\ worker'[w].pc \in {"cancel", "deadline", "put"}
      /\ worker'[w].existing = worker[w].existing /\ worker'[w].result = worker[w].result
  BY <1>0, <1>1, CheckpointStep
<1>4. CallIsSound(w)'
  BY <1>0, <1>1, <1>3 DEF CallIsSound
<1>5. owner' \in Operations \cup {None} /\ crashes' \in 0 .. MaxCrashes
  BY <1>0, <1>1 DEF TypeOK
<1> QED BY <1>1, <1>2, <1>3, <1>4, <1>5, QuietStep

\* Handler: one execution of the claimed stage, with a result or without.
LEMMA HandlerKeeps ==
  ASSUME RuntimeInvariant, NEW w \in Workers, Handler(w)
  PROVE  RuntimeInvariant' /\ RecordStep(rec, rec')
<1>0. TypeOK /\ RecordIsSound(rec) /\ CallIsSound(w) /\ worker[w] \in Locals
  BY DEF RuntimeInvariant, TypeOK
<1> DEFINE stage == worker[w].claim.stage
<1>1. /\ UNCHANGED <<clock, owner, rec, results, crashes>> /\ worker[w].pc = "handler"
      /\ executions' = [executions EXCEPT ![stage] = @ + 1]
  BY DEF Handler, At
<1>2. RecordIsSound(rec') /\ RecordStep(rec, rec')
  BY <1>0, <1>1, SameRecord
<1>3. stage \in 1 .. Stages
  BY <1>0, <1>1 DEF CallIsSound
<1>4. /\ CallStep(w) /\ worker'[w].existing = worker[w].existing
      /\ worker'[w].pc \in {"check", "transient", "fail", "cancel"}
      /\ worker'[w].pc = "check" => worker'[w].result \in StoredResult
  <2>1. ASSUME NEW c \in Contents, NEW d \in Dispositions,
               worker' = [worker EXCEPT ![w].pc = "check", ![w].since = clock,
                            ![w].result = [stage |-> stage, input |-> worker[w].claim.input,
                                           content |-> c, disposition |-> d]]
        PROVE  /\ CallStep(w) /\ worker'[w].existing = worker[w].existing
               /\ worker'[w].pc \in {"check", "transient", "fail", "cancel"}
               /\ worker'[w].pc = "check" => worker'[w].result \in StoredResult
    <3> DEFINE res == [stage |-> stage, input |-> worker[w].claim.input,
                       content |-> c, disposition |-> d]
    <3>1. res \in StoredResult
      <4>1. worker[w].claim.input \in Input
        BY <1>0 DEF Locals, Claim
      <4> QED BY <1>3, <4>1 DEF StoredResult
    <3>2. /\ worker' = [worker EXCEPT ![w] = worker'[w]]
          /\ worker'[w] = [worker[w] EXCEPT !.pc = "check", !.since = clock, !.result = res]
      BY <1>0, <2>1 DEF TypeOK
    <3> HIDE DEF res
    <3>3. clock \in 0 .. MaxTime
      BY <1>0 DEF TypeOK
    <3>4. /\ worker'[w] \in Locals /\ worker'[w].pc = "check" /\ worker'[w].result = res
          /\ worker'[w].existing = worker[w].existing
      BY <1>0, <3>1, <3>2, <3>3 DEF Locals
    <3> QED BY <3>1, <3>2, <3>4 DEF CallStep
  <2>2. ASSUME NEW pc \in {"transient", "fail", "cancel"}, Move(w, pc)
        PROVE  /\ CallStep(w) /\ worker'[w].existing = worker[w].existing
               /\ worker'[w].pc \in {"check", "transient", "fail", "cancel"}
               /\ worker'[w].pc = "check" => worker'[w].result \in StoredResult
    BY <1>0, <2>2, MoveStep
  <2> QED BY <2>1, <2>2 DEF Handler
<1>5. CallIsSound(w)'
  BY <1>0, <1>1, <1>4 DEF CallIsSound
<1>6. ASSUME NEW s \in 1 .. Stages
      PROVE  \/ executions'[s] = executions[s] /\ (w \in Executing(s)' => w \in Executing(s))
             \/ executions'[s] = executions[s] + 1 /\ w \in Executing(s) /\ w \notin Executing(s)'
  <2>1. w \notin Executing(s)' /\ (s = stage => w \in Executing(s))
    BY <1>1, <1>4 DEF Executing
  <2>2. executions'[s] = IF s = stage THEN executions[s] + 1 ELSE executions[s]
    BY <1>0, <1>1 DEF TypeOK
  <2> QED BY <2>1, <2>2
<1>7. /\ clock' = clock /\ results \subseteq results' /\ results' \subseteq StoredResult
      /\ executions' \in [1 .. Stages -> Nat] /\ crashes' \in 0 .. MaxCrashes
      /\ owner' \in Operations \cup {None}
  BY <1>0, <1>1, <1>3 DEF TypeOK
<1> QED BY <1>2, <1>4, <1>5, <1>6, <1>7, StepKeeps

\* PutOnce: the result is the stored one, or another one is there.
LEMMA PutOnceKeeps ==
  ASSUME RuntimeInvariant, NEW w \in Workers, PutOnce(w)
  PROVE  RuntimeInvariant' /\ RecordStep(rec, rec')
<1>0. TypeOK /\ RecordIsSound(rec) /\ CallIsSound(w)
  BY DEF RuntimeInvariant
<1>1. UNCHANGED <<clock, owner, rec, executions, crashes>> /\ worker[w].pc = "put"
  BY DEF PutOnce, At
<1>2. RecordIsSound(rec') /\ RecordStep(rec, rec')
  BY <1>0, <1>1, SameRecord
<1>3. worker[w].result \in StoredResult
  BY <1>0, <1>1 DEF CallIsSound
<1>4. \/ results' = results \cup {worker[w].result} /\ Move(w, "commit")
      \/ results' = results /\ Move(w, "fail")
  BY DEF PutOnce
<1>5. /\ CallStep(w) /\ worker'[w].existing = worker[w].existing
      /\ worker'[w].pc \in {"commit", "fail"}
      /\ worker'[w].pc = "commit" => worker'[w].result \in results'
  <2>1. CASE results' = results \cup {worker[w].result} /\ Move(w, "commit")
    BY <1>0, <2>1, MoveStep
  <2>2. CASE results' = results /\ Move(w, "fail")
    BY <1>0, <2>2, MoveStep
  <2> QED BY <1>4, <2>1, <2>2
<1>6. results \subseteq results' /\ results' \subseteq StoredResult
  BY <1>0, <1>3, <1>4 DEF TypeOK
<1>7. CallIsSound(w)'
  BY <1>0, <1>5, <1>6 DEF CallIsSound
<1>8. \A s \in 1 .. Stages : executions'[s] = executions[s] /\ w \notin Executing(s)'
  BY <1>1, <1>5 DEF Executing
<1>9. /\ clock' = clock /\ executions' \in [1 .. Stages -> Nat]
      /\ crashes' \in 0 .. MaxCrashes /\ owner' \in Operations \cup {None}
  BY <1>0, <1>1 DEF TypeOK
<1> QED BY <1>2, <1>5, <1>6, <1>7, <1>8, <1>9, StepKeeps
\* CommitStage: the result is committed under the claim that is still held.
LEMMA CommitStageKeeps ==
  ASSUME RuntimeInvariant, NEW w \in Workers, CommitStage(w)
  PROVE  RuntimeInvariant' /\ RecordStep(rec, rec')
<1> DEFINE ref == worker[w].result
<1>0. TypeOK /\ RecordIsSound(rec) /\ CallIsSound(w) /\ results \subseteq StoredResult
  BY DEF RuntimeInvariant, TypeOK
<1>1. UNCHANGED <<clock, owner, results, executions, crashes>> /\ worker[w].pc = "commit"
  BY DEF CommitStage, At
<1>2. ref \in results /\ ref \in StoredResult /\ worker[w].existing \in results \cup {NoResult}
  BY <1>0, <1>1 DEF CallIsSound
<1>3. PICK now \in Now(w) :
        IF /\ HoldsClaim(rec, worker[w].claim, now, FALSE)
           /\ ref.stage = worker[w].claim.stage /\ ref.input = worker[w].claim.input
        THEN /\ rec' = Committed(rec, ref, now)
             /\ IF rec'.state \in Terminal THEN Reply(w, rec'.state) ELSE Move(w, "get")
        ELSE Move(w, "lost") /\ UNCHANGED rec
  BY DEF CommitStage
<1>4. now \in Nat
  BY <1>0, NowType
<1>5. CASE Move(w, "lost") /\ UNCHANGED rec
  <2>1. RecordIsSound(rec') /\ RecordStep(rec, rec')
    BY <1>0, <1>5, SameRecord
  <2>2. CallStep(w) /\ worker'[w].pc = "lost" /\ worker'[w].existing = worker[w].existing
    BY <1>0, <1>5, MoveStep
  <2> QED BY <1>1, <1>2, <2>1, <2>2, PlainStep
<1>6. CASE /\ HoldsClaim(rec, worker[w].claim, now, FALSE)
           /\ ref.stage = worker[w].claim.stage
           /\ rec' = Committed(rec, ref, now)
           /\ IF rec'.state \in Terminal THEN Reply(w, rec'.state) ELSE Move(w, "get")
  <2>1. Claimed(rec) /\ ref.stage = rec.claim.stage
    BY <1>6, HoldsClaimFacts
  <2>2. RecordIsSound(rec') /\ RecordStep(rec, rec')
    BY <1>0, <1>2, <1>4, <1>6, <2>1, CommittedSound
  <2>3. /\ CallStep(w) /\ worker'[w].pc \in {"idle", "get"}
        /\ worker'[w].existing \in {worker[w].existing, NoResult}
    <3>1. CASE rec'.state \in Terminal /\ Reply(w, rec'.state)
      BY <1>0, <3>1, ReplyStep DEF Replies
    <3>2. CASE Move(w, "get")
      BY <1>0, <3>2, MoveStep
    <3> QED BY <1>6, <3>1, <3>2
  <2> QED BY <1>1, <1>2, <2>2, <2>3, PlainStep
<1> QED BY <1>3, <1>5, <1>6

\* A settled record and the reply for it.
LEMMA SettleKeeps ==
  ASSUME RuntimeInvariant, NEW w \in Workers, NEW now \in Now(w),
         NEW s \in {"failed", rec.state},
         Claimed(rec), rec' = Settled(rec, now, s), ReplyFor(w, rec'),
         UNCHANGED <<clock, owner, results, executions, crashes>>
  PROVE  RuntimeInvariant' /\ RecordStep(rec, rec')
<1>0. TypeOK /\ RecordIsSound(rec) /\ now \in Nat
  BY NowType DEF RuntimeInvariant
<1>1. RecordIsSound(rec') /\ RecordStep(rec, rec')
  BY <1>0, SettledSound
<1>2. rec'.state \in States
  BY <1>1 DEF RecordIsSound, Record, States
<1>3. CallStep(w) /\ worker'[w].pc = "idle" /\ worker'[w].existing = NoResult
  BY <1>0, <1>2, ReplyForStep
<1> QED BY <1>1, <1>3, PlainStep

\* A claim that was lost: the record stays.
LEMMA LostKeeps ==
  ASSUME RuntimeInvariant, NEW w \in Workers, Move(w, "lost") \/ Reply(w, "raised"),
         UNCHANGED <<clock, owner, rec, results, executions, crashes>>
  PROVE  RuntimeInvariant' /\ RecordStep(rec, rec')
<1>0. TypeOK /\ RecordIsSound(rec) /\ worker[w].existing \in results \cup {NoResult}
  BY DEF RuntimeInvariant, CallIsSound
<1>1. RecordIsSound(rec') /\ RecordStep(rec, rec')
  BY <1>0, SameRecord
<1>2. CASE Move(w, "lost")
  <2>1. CallStep(w) /\ worker'[w].pc = "lost" /\ worker'[w].existing = worker[w].existing
    BY <1>0, <1>2, MoveStep
  <2> QED BY <1>0, <1>1, <2>1, PlainStep
<1>3. CASE Reply(w, "raised")
  <2>1. CallStep(w) /\ worker'[w].pc = "idle" /\ worker'[w].existing = NoResult
    BY <1>0, <1>3, ReplyStep DEF Replies
  <2> QED BY <1>1, <2>1, PlainStep
<1> QED BY <1>2, <1>3

\* Transient: the claim is released, or the budget is used.
LEMMA TransientKeeps ==
  ASSUME RuntimeInvariant, NEW w \in Workers, Transient(w)
  PROVE  RuntimeInvariant' /\ RecordStep(rec, rec')
<1>1. UNCHANGED <<clock, owner, results, executions, crashes>>
  BY DEF Transient
<1> DEFINE s == IF worker[w].claim.attempt >= MaxAttempts THEN "failed" ELSE rec.state
<1>2. PICK now \in Now(w) :
        \/ /\ HoldsClaim(rec, worker[w].claim, now, FALSE)
           /\ rec' = Settled(rec, now, s) /\ ReplyFor(w, rec')
        \/ Move(w, "lost") /\ UNCHANGED rec
  BY DEF Transient
<1>3. s \in {"failed", rec.state}
  OBVIOUS
<1> HIDE DEF s
<1>4. CASE HoldsClaim(rec, worker[w].claim, now, FALSE)
           /\ rec' = Settled(rec, now, s) /\ ReplyFor(w, rec')
  BY <1>1, <1>3, <1>4, HoldsClaimFacts, SettleKeeps
<1>5. CASE Move(w, "lost") /\ UNCHANGED rec
  BY <1>1, <1>5, LostKeeps
<1> QED BY <1>2, <1>4, <1>5

\* FailStage: the stage fails under the claim that is still held.
LEMMA FailStageKeeps ==
  ASSUME RuntimeInvariant, NEW w \in Workers, FailStage(w)
  PROVE  RuntimeInvariant' /\ RecordStep(rec, rec')
<1>1. UNCHANGED <<clock, owner, results, executions, crashes>>
  BY DEF FailStage
<1>2. PICK now \in Now(w) :
        \/ /\ HoldsClaim(rec, worker[w].claim, now, FALSE)
           /\ rec' = Settled(rec, now, "failed") /\ ReplyFor(w, rec')
        \/ Move(w, "lost") /\ UNCHANGED rec
  BY DEF FailStage
<1>3. CASE HoldsClaim(rec, worker[w].claim, now, FALSE)
           /\ rec' = Settled(rec, now, "failed") /\ ReplyFor(w, rec')
  BY <1>1, <1>3, HoldsClaimFacts, SettleKeeps
<1>4. CASE Move(w, "lost") /\ UNCHANGED rec
  BY <1>1, <1>4, LostKeeps
<1> QED BY <1>2, <1>3, <1>4

\* FailDeadline: the same, although the lease may be over.
LEMMA FailDeadlineKeeps ==
  ASSUME RuntimeInvariant, NEW w \in Workers, FailDeadline(w)
  PROVE  RuntimeInvariant' /\ RecordStep(rec, rec')
<1>1. UNCHANGED <<clock, owner, results, executions, crashes>>
  BY DEF FailDeadline
<1>2. PICK now \in Now(w) :
        \/ /\ HoldsClaim(rec, worker[w].claim, now, TRUE)
           /\ rec' = Settled(rec, now, "failed") /\ ReplyFor(w, rec')
        \/ Reply(w, "raised") /\ UNCHANGED rec
  BY DEF FailDeadline
<1>3. CASE HoldsClaim(rec, worker[w].claim, now, TRUE)
           /\ rec' = Settled(rec, now, "failed") /\ ReplyFor(w, rec')
  BY <1>1, <1>3, HoldsClaimFacts, SettleKeeps
<1>4. CASE Reply(w, "raised") /\ UNCHANGED rec
  BY <1>1, <1>4, LostKeeps
<1> QED BY <1>2, <1>3, <1>4

\* SignalCancel: the signal is recorded before the placeholder is committed.
LEMMA SignalCancelKeeps ==
  ASSUME RuntimeInvariant, NEW w \in Workers, SignalCancel(w)
  PROVE  RuntimeInvariant' /\ RecordStep(rec, rec')
<1>0. TypeOK /\ RecordIsSound(rec) /\ worker[w].existing \in results \cup {NoResult}
  BY DEF RuntimeInvariant, CallIsSound
<1>1. /\ UNCHANGED <<clock, owner, results, executions, crashes>>
      /\ rec' = CancelRequested(rec) /\ Move(w, "cancel_commit")
  BY DEF SignalCancel
<1>2. /\ RecordIsSound(rec') /\ RecordStep(rec, rec')
      /\ rec'.cancelled \/ rec'.state \in Terminal
  BY <1>0, <1>1, CancelRequestedSound
<1>3. /\ CallStep(w) /\ worker'[w].pc = "cancel_commit"
      /\ worker'[w].existing = worker[w].existing
  BY <1>0, <1>1, MoveStep
<1>4. CallIsSound(w)'
  BY <1>0, <1>1, <1>2, <1>3 DEF CallIsSound
<1>5. owner' \in Operations \cup {None} /\ crashes' \in 0 .. MaxCrashes
  BY <1>0, <1>1 DEF TypeOK
<1> QED BY <1>1, <1>2, <1>3, <1>4, <1>5, QuietStep

\* CommitCancelled: a held claim means an open operation, so the signal is
\* there and the placeholder never becomes a result.
LEMMA CommitCancelledKeeps ==
  ASSUME RuntimeInvariant, NEW w \in Workers, CommitCancelled(w)
  PROVE  RuntimeInvariant' /\ RecordStep(rec, rec')
<1>0. TypeOK /\ RecordIsSound(rec) /\ CallIsSound(w)
  BY DEF RuntimeInvariant
<1>1. /\ UNCHANGED <<clock, owner, results, executions, crashes>>
      /\ worker[w].pc = "cancel_commit"
  BY DEF CommitCancelled, At
<1>2. PICK now \in Now(w) :
        \/ /\ HoldsClaim(rec, worker[w].claim, now, FALSE)
           /\ rec' = Committed(rec, Placeholder(w), now) /\ ReplyFor(w, rec')
        \/ Reply(w, "raised") /\ UNCHANGED rec
  BY DEF CommitCancelled
<1>3. CASE HoldsClaim(rec, worker[w].claim, now, FALSE)
           /\ rec' = Committed(rec, Placeholder(w), now) /\ ReplyFor(w, rec')
  <2>1. Claimed(rec) /\ rec.cancelled
    BY <1>0, <1>1, <1>3, HoldsClaimFacts DEF CallIsSound, RecordIsSound
  <2>2. rec' = Settled(rec, now, rec.state)
    BY <1>3, <2>1 DEF Committed
  <2> QED BY <1>1, <1>3, <2>1, <2>2, SettleKeeps
<1>4. CASE Reply(w, "raised") /\ UNCHANGED rec
  BY <1>1, <1>4, LostKeeps
<1> QED BY <1>2, <1>3, <1>4

\* ClaimLost: the reply is that of the record.
LEMMA ClaimLostKeeps ==
  ASSUME RuntimeInvariant, NEW w \in Workers, ClaimLost(w)
  PROVE  RuntimeInvariant' /\ RecordStep(rec, rec')
<1>0. TypeOK /\ RecordIsSound(rec) /\ rec.state \in States
  BY SoundTypes DEF RuntimeInvariant
<1>1. UNCHANGED <<clock, owner, rec, results, executions, crashes>> /\ ReplyFor(w, rec)
  BY DEF ClaimLost
<1>2. CallStep(w) /\ worker'[w].pc = "idle" /\ worker'[w].existing = NoResult
  BY <1>0, <1>1, ReplyForStep
<1>3. RecordIsSound(rec') /\ RecordStep(rec, rec')
  BY <1>0, <1>1, SameRecord
<1> QED BY <1>1, <1>2, <1>3, PlainStep

\* Crash: the call is gone, and an execution it owed with it.
LEMMA CrashKeeps ==
  ASSUME RuntimeInvariant, NEW w \in Workers, Crash(w)
  PROVE  RuntimeInvariant' /\ RecordStep(rec, rec')
<1>0. TypeOK /\ RecordIsSound(rec)
  BY DEF RuntimeInvariant
<1>1. UNCHANGED <<clock, owner, rec, results, executions>>
  BY DEF Crash
<1>2. worker' = [worker EXCEPT ![w] = worker'[w]] /\ worker'[w] = NoCall
  BY <1>0 DEF Crash, TypeOK
<1>3. CallStep(w) /\ worker'[w].pc = "idle" /\ worker'[w].existing = NoResult
  BY <1>2, NothingTypes DEF CallStep
<1>4. RecordIsSound(rec') /\ RecordStep(rec, rec')
  BY <1>0, <1>1, SameRecord
<1>5. owner' \in Operations \cup {None} /\ crashes' \in 0 .. MaxCrashes
  BY <1>0, <1>1, Numbers DEF Crash, TypeOK
<1>6. CallIsSound(w)'
  BY <1>3, PlainCallIsSound
<1> QED BY <1>1, <1>3, <1>4, <1>5, <1>6, QuietStep

\* Cancel, Status and Tick: a client or the clock, no worker.
LEMMA ClientKeeps ==
  ASSUME RuntimeInvariant, Cancel \/ Status \/ Tick
  PROVE  RuntimeInvariant' /\ RecordStep(rec, rec')
<1>0. TypeOK /\ RecordIsSound(rec) /\ clock \in Nat
  BY Numbers DEF RuntimeInvariant, TypeOK
<1>1. UNCHANGED <<owner, results, worker, executions, crashes>> /\ clock' \in 0 .. MaxTime
  BY <1>0, Numbers DEF Cancel, Status, Tick, TypeOK
<1>2. RecordIsSound(rec') /\ RecordStep(rec, rec')
  <2>1. CASE Cancel
    BY <1>0, <2>1, CancelRequestedSound DEF Cancel
  <2>2. CASE Status
    BY <1>0, <2>2, RefreshedSound DEF Status
  <2>3. CASE Tick
    BY <1>0, <2>3, SameRecord DEF Tick
  <2> QED BY <2>1, <2>2, <2>3
<1>3. RecordIsSound(rec)'
  BY <1>1, <1>2, SoundGrows
<1>4. TypeOK'
  BY <1>0, <1>1, <1>2 DEF TypeOK, RecordIsSound
<1>5. ASSUME NEW v \in Workers PROVE CallIsSound(v)'
  BY <1>1, <1>2, OthersStaySound DEF RuntimeInvariant
<1>6. AttemptsCover'
  <2> SUFFICES ASSUME NEW s \in 1 .. Stages
               PROVE  /\ executions[s] + Cardinality(Executing(s)) <= rec'.attempts[s]
                      /\ executions[s] + Cardinality(Executing(s)) <= MaxAttempts
    <3>1. \A s : Executing(s)' = Executing(s)
      BY <1>1 DEF Executing
    <3> QED BY <1>1, <3>1 DEF AttemptsCover
  <2>1. /\ executions[s] + Cardinality(Executing(s)) <= rec.attempts[s]
        /\ executions[s] + Cardinality(Executing(s)) <= MaxAttempts
    BY DEF RuntimeInvariant, AttemptsCover
  <2>2. Executing(s) \subseteq Workers /\ IsFiniteSet(Workers)
    BY RuntimeAssumption DEF Executing
  <2>3. Cardinality(Executing(s)) \in Nat
    BY <2>2, FS_Subset, FS_CardinalityType
  <2>4. /\ rec.attempts[s] \in Nat /\ rec'.attempts[s] \in Nat /\ executions[s] \in Nat
        /\ rec'.attempts[s] >= rec.attempts[s]
    BY <1>0, <1>2, <1>4 DEF TypeOK, Record, RecordStep
  <2> QED BY <2>1, <2>3, <2>4
<1> QED BY <1>2, <1>3, <1>4, <1>5, <1>6 DEF RuntimeInvariant

\* The initial state satisfies the invariant.
LEMMA InitSound == Init => RuntimeInvariant
<1> SUFFICES ASSUME Init PROVE RuntimeInvariant
  OBVIOUS
<1>1. TypeOK
  BY NothingTypes, Numbers DEF Init, TypeOK
<1>2. RecordIsSound(rec)
  <2>1. rec \in Record /\ rec = NoRecord
    BY NothingTypes DEF Init
  <2>2. /\ rec.refs = << >> /\ rec.index = 0 /\ rec.state = "received"
        /\ rec.claim = NoClaim /\ rec.cancelled = FALSE
    BY <2>1 DEF NoRecord
  <2>3. ~Claimed(rec)
    BY <2>2, NothingTypes DEF Claimed
  <2> QED BY <2>1, <2>2, <2>3 DEF RecordIsSound
<1>3. \A w \in Workers : CallIsSound(w)
  BY NothingTypes DEF Init, CallIsSound
<1>4. AttemptsCover
  <2>1. ASSUME NEW s \in 1 .. Stages
        PROVE  executions[s] = 0 /\ Executing(s) = {} /\ rec.attempts[s] = 0
    BY NothingTypes DEF Init, Executing, NoRecord
  <2>2. Cardinality({}) = 0
    BY FS_EmptySet
  <2>3. ASSUME NEW s \in 1 .. Stages
        PROVE  executions[s] + Cardinality(Executing(s)) = 0
    BY <2>1, <2>2
  <2> QED BY <2>1, <2>3, Numbers DEF AttemptsCover
<1> QED BY <1>1, <1>2, <1>3, <1>4 DEF RuntimeInvariant

\* Every step keeps the invariant and does to the record only what it may.
LEMMA NextKeeps ==
  ASSUME RuntimeInvariant, [Next]_vars
  PROVE  RuntimeInvariant' /\ RecordStep(rec, rec')
<1>1. ASSUME NEW w \in Workers, Run(w) \/ Step(w) \/ Crash(w)
      PROVE  RuntimeInvariant' /\ RecordStep(rec, rec')
  <2>1. CASE \/ Register(w) \/ Get(w) \/ Lookup(w) \/ ClaimNext(w) \/ CheckBefore(w)
             \/ Handler(w) \/ CheckAfter(w) \/ PutOnce(w)
    BY <2>1, RegisterKeeps, GetKeeps, LookupKeeps, ClaimNextKeeps, CheckBeforeKeeps,
       HandlerKeeps, CheckAfterKeeps, PutOnceKeeps
  <2>2. CASE \/ CommitStage(w) \/ Transient(w) \/ FailStage(w) \/ FailDeadline(w)
             \/ SignalCancel(w) \/ CommitCancelled(w) \/ ClaimLost(w)
    BY <2>2, CommitStageKeeps, TransientKeeps, FailStageKeeps, FailDeadlineKeeps,
       SignalCancelKeeps, CommitCancelledKeeps, ClaimLostKeeps
  <2>3. CASE Run(w) \/ Crash(w)
    BY <2>3, RunKeeps, CrashKeeps
  <2> QED BY <1>1, <2>1, <2>2, <2>3 DEF Step
<1>2. CASE Cancel \/ Status \/ Tick
  BY <1>2, ClientKeeps
<1>3. CASE UNCHANGED vars
  <2>1. UNCHANGED <<clock, owner, rec, results, worker, executions, crashes>>
    BY <1>3 DEF vars
  <2>2. TypeOK'
    BY <2>1 DEF RuntimeInvariant, TypeOK
  <2>3. RecordIsSound(rec)' /\ RecordStep(rec, rec')
    BY <2>1, SameRecord DEF RuntimeInvariant, RecordIsSound
  <2>4. \A w \in Workers : CallIsSound(w)'
    BY <2>1 DEF RuntimeInvariant, CallIsSound
  <2>5. AttemptsCover'
    BY <2>1 DEF RuntimeInvariant, AttemptsCover, Executing
  <2> QED BY <2>2, <2>3, <2>4, <2>5 DEF RuntimeInvariant
<1> QED BY <1>1, <1>2, <1>3 DEF Next

\* The inductive invariant implies what the run checks.
LEMMA InvariantFences == RuntimeInvariant => StagesAreFenced
<1> SUFFICES ASSUME RuntimeInvariant PROVE CommittedInOrder /\ ExecutionBudget
  BY DEF RuntimeInvariant, StagesAreFenced
<1>1. CommittedInOrder
  BY DEF RuntimeInvariant, RecordIsSound, CommittedInOrder
<1>2. ASSUME NEW s \in 1 .. Stages PROVE executions[s] <= MaxAttempts
  <2>1. executions[s] + Cardinality(Executing(s)) <= MaxAttempts
    BY DEF RuntimeInvariant, AttemptsCover
  <2>2. Executing(s) \subseteq Workers /\ IsFiniteSet(Workers)
    BY RuntimeAssumption DEF Executing
  <2>3. Cardinality(Executing(s)) \in Nat
    BY <2>2, FS_Subset, FS_CardinalityType
  <2>4. executions[s] \in Nat
    BY DEF RuntimeInvariant, TypeOK
  <2> QED BY <2>1, <2>3, <2>4, Numbers
<1> QED BY <1>1, <1>2 DEF ExecutionBudget

\* Whatever workers lose their leases, crash or deliver the same request
\* again, the committed results are those of the stages in order, each stored
\* first, and no handler runs more than MaxAttempts times (claim_next,
\* put_once, commit_stage).
THEOREM StagesStayFenced == Spec => []StagesAreFenced
<1>1. Init => RuntimeInvariant
  BY InitSound
<1>2. RuntimeInvariant /\ [Next]_vars => RuntimeInvariant'
  BY NextKeeps
<1>3. RuntimeInvariant => StagesAreFenced
  BY InvariantFences
<1> QED BY <1>1, <1>2, <1>3, PTL DEF Spec

\* A terminal operation holds no claim and its record never changes again, and
\* a cancelled one takes no further result: the late commit, the deadline, the
\* expired lease and a second signal all leave it (_normalize_terminal,
\* commit_stage, request_cancel).
THEOREM OutcomeStaysFinal == Spec => OutcomeIsFinal
<1> DEFINE Closed ==
      /\ rec.state \in Terminal => rec.claim = NoClaim /\ rec' = rec
      /\ rec.cancelled => rec'.refs = rec.refs
                            /\ rec'.state \in {rec.state, "cancelled"}
<1>1. Init => RuntimeInvariant
  BY InitSound
<1>2. RuntimeInvariant /\ [Next]_vars => RuntimeInvariant'
  BY NextKeeps
<1>3. RuntimeInvariant /\ [Next]_vars => [Closed]_vars
  <2> SUFFICES ASSUME RuntimeInvariant, [Next]_vars PROVE Closed
    OBVIOUS
  <2>1. RecordStep(rec, rec')
    BY NextKeeps
  <2>2. rec.state \in Terminal => rec.claim = NoClaim
    BY DEF RuntimeInvariant, RecordIsSound
  <2> QED BY <2>1, <2>2 DEF RecordStep
<1>4. OutcomeIsFinal <=> [][Closed]_vars
  BY DEF OutcomeIsFinal
<1> HIDE DEF Closed
<1> QED BY <1>1, <1>2, <1>3, <1>4, PTL DEF Spec

-----------------------------------------------------------------------------
(* RecallPipeline: the purse.                                              *)

(* The instance counts as the library does. *)
LEMMA RecallCounts ==
  /\ \A S : Recall!Cardinality(S) = Cardinality(S)
  /\ \A S : Recall!IsFiniteSet(S) = IsFiniteSet(S)
<1>1. ASSUME NEW S PROVE Recall!Cardinality(S) = Cardinality(S)
  BY DEF Recall!Cardinality, Cardinality
<1>2. ASSUME NEW S PROVE Recall!IsFiniteSet(S) = IsFiniteSet(S)
  BY DEF Recall!IsFiniteSet, IsFiniteSet
<1> QED BY <1>1, <1>2

(* A nonempty set of numbers has a least one. *)
LEMMA LeastNumber ==
  ASSUME NEW T, T \subseteq Nat, T # {}
  PROVE  \E x \in T : \A y \in T : x <= y
<1> DEFINE Less == {ss \in Nat \X Nat : ss[1] < ss[2]}
<1>1. IsWellFoundedOn(Less, Nat)
  <2>1. OpToRel(<, Nat) = Less
    BY Zenon DEF OpToRel
  <2> QED BY <2>1, NatLessThanWellFounded, Zenon
<1>2. PICK x \in T : \A y \in T : ~(<<y, x>> \in Less)
  <2> HIDE DEF Less
  <2> QED BY <1>1, WFMin
<1>3. ASSUME NEW y \in T PROVE x <= y
  <2>1. ~(y < x) BY <1>2 DEF Less
  <2> QED BY <2>1
<1> QED BY <1>3

(* A finite set of sets has a smallest one. *)
LEMMA SmallestSet ==
  ASSUME NEW F, F # {}, \A s \in F : IsFiniteSet(s)
  PROVE  \E s \in F : \A t \in F : Cardinality(s) <= Cardinality(t)
<1> DEFINE T == {Cardinality(s) : s \in F}
<1>1. T \subseteq Nat /\ T # {} BY FS_CardinalityType
<1>2. PICK n \in T : \A y \in T : n <= y
  <2> HIDE DEF T
  <2> QED BY <1>1, LeastNumber
<1> QED BY <1>2

(* The element a sum takes next. *)
NextSpender(s) == CHOOSE x \in s : TRUE

SpentAdds(w, f, s) == IF s = {} THEN 0 ELSE w[NextSpender(s)] + f[s \ {NextSpender(s)}]

SpentSums(w, f, S) == f = [s \in SUBSET S |-> SpentAdds(w, f, s)]

LEMMA SumIsFold ==
  ASSUME NEW w, NEW S
  PROVE  Recall!MapThenSumSet(LAMBDA p : w[p], S) = (CHOOSE f : SpentSums(w, f, S))[S]
BY Zenon DEF Recall!MapThenSumSet, Recall!MapThenFoldSet, SpentSums, SpentAdds, NextSpender

LEMMA FirstIsIn ==
  ASSUME NEW s, s # {} PROVE NextSpender(s) \in s
<1>1. \E x \in s : TRUE OBVIOUS
<1> QED BY <1>1, Zenon DEF NextSpender

(* Sums of the subsets of up to n elements. *)
SpendersUpto(S, n) == {s \in SUBSET S : Cardinality(s) <= n}

PartialSpent(w, f, S, n) == f = [s \in SpendersUpto(S, n) |-> SpentAdds(w, f, s)]

LEMMA PartialSums ==
  ASSUME NEW w, NEW S, IsFiniteSet(S), NEW k \in Nat
  PROVE  \E f : PartialSpent(w, f, S, k)
<1>0. \A s \in SUBSET S : IsFiniteSet(s) /\ Cardinality(s) \in Nat
  BY FS_Subset, FS_CardinalityType
<1> DEFINE T == {m \in Nat : ~(\E f : PartialSpent(w, f, S, m))}
<1>1. SUFFICES ASSUME T # {} PROVE FALSE OBVIOUS
<1>2. PICK m \in T : \A y \in T : m <= y
  <2>1. T \subseteq Nat OBVIOUS
  <2> HIDE DEF T
  <2> QED BY <1>1, <2>1, LeastNumber
<1>3. m \in Nat /\ ~(\E f : PartialSpent(w, f, S, m)) OBVIOUS
<1>4. CASE m = 0
  <2> DEFINE g == [s \in SpendersUpto(S, 0) |-> 0]
  <2>1. \A s \in SpendersUpto(S, 0) : s = {} BY <1>0, FS_EmptySet DEF SpendersUpto
  <2>2. g = [s \in SpendersUpto(S, 0) |-> SpentAdds(w, g, s)] BY <2>1 DEF SpentAdds
  <2> QED BY <2>2, <1>3, <1>4 DEF PartialSpent
<1>5. CASE m # 0
  <2>1. m - 1 \in Nat /\ ~(m <= m - 1) BY <1>3, <1>5
  <2>2. PICK f : PartialSpent(w, f, S, m - 1) BY <2>1, <1>2
  <2> DEFINE g == [s \in SpendersUpto(S, m) |-> SpentAdds(w, f, s)]
  <2>3. ASSUME NEW s \in SpendersUpto(S, m - 1) PROVE s \in SpendersUpto(S, m) /\ g[s] = f[s]
    <3>1. s \in SpendersUpto(S, m) BY <1>0, <1>3 DEF SpendersUpto
    <3>2. f[s] = SpentAdds(w, f, s) BY <2>2 DEF PartialSpent
    <3> QED BY <3>1, <3>2
  <2>4. ASSUME NEW s \in SpendersUpto(S, m), s # {}
        PROVE  s \ {NextSpender(s)} \in SpendersUpto(S, m - 1)
    <3>1. NextSpender(s) \in s BY <2>4, FirstIsIn
    <3>2. s \in SUBSET S /\ IsFiniteSet(s) /\ Cardinality(s) \in Nat /\ Cardinality(s) <= m
      BY <1>0 DEF SpendersUpto
    <3>3. Cardinality(s \ {NextSpender(s)}) = Cardinality(s) - 1 BY <3>1, <3>2, FS_RemoveElement
    <3> QED BY <3>2, <3>3, <1>3 DEF SpendersUpto
  <2>5. ASSUME NEW s \in SpendersUpto(S, m) PROVE SpentAdds(w, f, s) = SpentAdds(w, g, s)
    <3>1. CASE s = {} BY <3>1 DEF SpentAdds
    <3>2. CASE s # {}
      <4>1. g[s \ {NextSpender(s)}] = f[s \ {NextSpender(s)}] BY <3>2, <2>4, <2>3
      <4> HIDE DEF g
      <4> QED BY <4>1, <3>2 DEF SpentAdds
    <3> QED BY <3>1, <3>2
  <2>6. g = [s \in SpendersUpto(S, m) |-> SpentAdds(w, g, s)]
    <3>1. g = [s \in SpendersUpto(S, m) |-> SpentAdds(w, f, s)] OBVIOUS
    <3> HIDE DEF g
    <3> QED BY <3>1, <2>5
  <2> QED BY <2>6, <1>3 DEF PartialSpent
<1> QED BY <1>4, <1>5

LEMMA SumExists ==
  ASSUME NEW w, NEW S, IsFiniteSet(S)
  PROVE  SpentSums(w, CHOOSE g : SpentSums(w, g, S), S)
<1>1. Cardinality(S) \in Nat BY FS_CardinalityType
<1>2. SpendersUpto(S, Cardinality(S)) = SUBSET S BY FS_Subset DEF SpendersUpto
<1>3. \E g : SpentSums(w, g, S)
  <2>1. PICK g : PartialSpent(w, g, S, Cardinality(S)) BY <1>1, PartialSums
  <2>2. SpentSums(w, g, S) BY <2>1, <1>2 DEF SpentSums, PartialSpent
  <2> QED BY <2>2
<1> DEFINE D(g) == SpentSums(w, g, S)
<1> HIDE DEF D
<1>4. \E g : D(g) BY <1>3 DEF D
<1>5. D(CHOOSE g : D(g)) BY <1>4, Zenon
<1> QED BY <1>5, Zenon DEF D

(* Two sums agree where they overlap. *)
LEMMA SumsAgree ==
  ASSUME NEW w, NEW S, NEW R, NEW f, NEW g, IsFiniteSet(S), SpentSums(w, f, S),
         SpentSums(w, g, R), NEW t,
         t \subseteq S, t \subseteq R
  PROVE  f[t] = g[t]
<1> DEFINE F == {s \in SUBSET t : f[s] # g[s]}
<1>1. SUFFICES ASSUME F # {} PROVE FALSE OBVIOUS
<1>2. \A s \in F : IsFiniteSet(s) BY FS_Subset
<1>3. PICK s \in F : \A u \in F : Cardinality(s) <= Cardinality(u)
  <2> HIDE DEF F
  <2> QED BY <1>1, <1>2, SmallestSet
<1>4. s \in SUBSET t /\ f[s] # g[s] /\ IsFiniteSet(s) BY <1>2
<1>5. f[s] = SpentAdds(w, f, s) /\ g[s] = SpentAdds(w, g, s)
  <2>1. s \in SUBSET S /\ s \in SUBSET R BY <1>4
  <2> QED BY <2>1 DEF SpentSums
<1>6. s # {} BY <1>4, <1>5 DEF SpentAdds
<1> DEFINE u == s \ {NextSpender(s)}
<1>7. NextSpender(s) \in s BY <1>6, FirstIsIn
<1>8. Cardinality(u) = Cardinality(s) - 1 /\ Cardinality(s) \in Nat
  BY <1>4, <1>7, FS_RemoveElement, FS_CardinalityType
<1>9. ~(Cardinality(s) <= Cardinality(u)) BY <1>8
<1>10. u \in SUBSET t BY <1>4
<1>11. f[u] = g[u]
  <2> HIDE DEF u
  <2> QED BY <1>9, <1>10, <1>3
<1> QED BY <1>4, <1>5, <1>6, <1>11 DEF SpentAdds

(* A total and the sums of the subsets of any larger set. *)
LEMMA TotalBySums ==
  ASSUME NEW w, NEW S, IsFiniteSet(S)
  PROVE  \E f : SpentSums(w, f, S) /\ \A t \in SUBSET S : f[t] = Recall!Reserved(w, t)
<1> DEFINE f == CHOOSE g : SpentSums(w, g, S)
<1>1. SpentSums(w, f, S) BY SumExists
<1>2. ASSUME NEW t \in SUBSET S PROVE f[t] = Recall!Reserved(w, t)
  <2> DEFINE h == CHOOSE g : SpentSums(w, g, t)
  <2>1. IsFiniteSet(t) BY FS_Subset
  <2>2. SpentSums(w, h, t) BY <2>1, SumExists
  <2>3. Recall!Reserved(w, t) = h[t] BY SumIsFold, Zenon DEF Recall!Reserved
  <2> HIDE DEF f, h
  <2>4. f[t] = h[t] BY <1>1, <2>2, SumsAgree
  <2> QED BY <2>3, <2>4
<1> HIDE DEF f
<1> QED BY <1>1, <1>2

(* A total is taken off one item at a time. *)
LEMMA TotalRecurs ==
  ASSUME NEW w
  PROVE
  /\ Recall!Reserved(w, {}) = 0
  /\ \A S : IsFiniteSet(S) /\ S # {}
       => Recall!Reserved(w, S) = w[NextSpender(S)] + Recall!Reserved(w, S \ {NextSpender(S)})
<1>1. Recall!Reserved(w, {}) = 0
  <2>1. IsFiniteSet({}) BY FS_EmptySet
  <2>2. PICK f : SpentSums(w, f, {}) /\ \A t \in SUBSET {} : f[t] = Recall!Reserved(w, t)
    BY <2>1, TotalBySums
  <2>3. {} \in SUBSET {} OBVIOUS
  <2>4. f[{}] = 0 BY <2>2, <2>3 DEF SpentSums, SpentAdds
  <2> QED BY <2>2, <2>3, <2>4
<1>2. ASSUME NEW S, IsFiniteSet(S), S # {}
      PROVE  Recall!Reserved(w, S) = w[NextSpender(S)] + Recall!Reserved(w, S \ {NextSpender(S)})
  <2>1. PICK f : SpentSums(w, f, S) /\ \A t \in SUBSET S : f[t] = Recall!Reserved(w, t)
    BY <1>2, TotalBySums
  <2>2. S \in SUBSET S /\ S \ {NextSpender(S)} \in SUBSET S OBVIOUS
  <2>3. f[S] = SpentAdds(w, f, S) BY <2>1, <2>2 DEF SpentSums
  <2> QED BY <2>1, <2>2, <2>3, <1>2 DEF SpentAdds
<1> QED BY <1>1, <1>2

(* It does not matter which: an item adds its cost. *)
LEMMA TotalAdds ==
  ASSUME NEW w, NEW S, IsFiniteSet(S), \A i \in S : w[i] \in Int
  PROVE  /\ Recall!Reserved(w, S) \in Int
         /\ \A x \in S : Recall!Reserved(w, S) = w[x] + Recall!Reserved(w, S \ {x})
<1> DEFINE P(s) == /\ Recall!Reserved(w, s) \in Int
                   /\ \A x \in s : Recall!Reserved(w, s) = w[x] + Recall!Reserved(w, s \ {x})
           F == {s \in SUBSET S : ~P(s)}
<1>1. SUFFICES ASSUME F # {} PROVE FALSE
  <2>1. S \in SUBSET S OBVIOUS
  <2> QED BY <2>1
<1>2. \A s \in F : IsFiniteSet(s) BY FS_Subset
<1>3. PICK s \in F : \A u \in F : Cardinality(s) <= Cardinality(u)
  <2> HIDE DEF F
  <2> QED BY <1>1, <1>2, SmallestSet
<1>4. s \in SUBSET S /\ ~P(s) /\ IsFiniteSet(s) BY <1>2
<1>5. ASSUME NEW x \in s PROVE P(s \ {x})
  <2>1. Cardinality(s \ {x}) = Cardinality(s) - 1 /\ Cardinality(s) \in Nat
    BY <1>4, FS_RemoveElement, FS_CardinalityType
  <2>2. ~(Cardinality(s) <= Cardinality(s \ {x})) BY <2>1
  <2>3. s \ {x} \notin F BY <2>2, <1>3
  <2>4. s \ {x} \in SUBSET S BY <1>4
  <2> HIDE DEF P
  <2> QED BY <2>3, <2>4
<1>6. P(s)
  <2>1. CASE s = {} BY <2>1, TotalRecurs
  <2>2. CASE s # {}
    <3> DEFINE y == NextSpender(s)
    <3>1. y \in s BY <2>2, FirstIsIn
    <3>2. Recall!Reserved(w, s) = w[y] + Recall!Reserved(w, s \ {y}) BY <2>2, <1>4, TotalRecurs
    <3> HIDE DEF y
    <3>3. w[y] \in Int /\ Recall!Reserved(w, s \ {y}) \in Int BY <3>1, <1>4, <1>5
    <3>4. ASSUME NEW x \in s PROVE Recall!Reserved(w, s) = w[x] + Recall!Reserved(w, s \ {x})
      <4>1. CASE x = y BY <4>1, <3>2
      <4>2. CASE x # y
        <5>1. x \in s \ {y} /\ y \in s \ {x} BY <4>2, <3>1
        <5>2. (s \ {y}) \ {x} = (s \ {x}) \ {y} OBVIOUS
        <5>3. Recall!Reserved(w, s \ {y}) = w[x] + Recall!Reserved(w, (s \ {y}) \ {x})
          BY <5>1, <3>1, <1>5
        <5>4. Recall!Reserved(w, s \ {x}) = w[y] + Recall!Reserved(w, (s \ {x}) \ {y})
          BY <5>1, <1>5
        <5>5. w[x] \in Int /\ Recall!Reserved(w, s \ {x}) \in Int BY <1>4, <1>5
        <5>6. Recall!Reserved(w, (s \ {x}) \ {y}) \in Int
          <6>1. P(s \ {x}) BY <1>5
          <6>2. Cardinality((s \ {x}) \ {y}) = Cardinality(s) - 2 /\ Cardinality(s) \in Nat
            <7>1. IsFiniteSet(s \ {x}) /\ Cardinality(s \ {x}) = Cardinality(s) - 1
                  /\ Cardinality(s) \in Nat
              BY <1>4, FS_RemoveElement, FS_CardinalityType
            <7>2. Cardinality((s \ {x}) \ {y}) = Cardinality(s \ {x}) - 1
              BY <7>1, <5>1, FS_RemoveElement
            <7> QED BY <7>1, <7>2
          <6>3. (s \ {x}) \ {y} \notin F
            <7> HIDE DEF F
            <7>1. ~(Cardinality(s) <= Cardinality((s \ {x}) \ {y})) BY <6>2
            <7> QED BY <7>1, <1>3
          <6>4. (s \ {x}) \ {y} \in SUBSET S BY <1>4
          <6> QED BY <6>3, <6>4
        <5>7. PICK a, b, c : /\ a = Recall!Reserved(w, s \ {y}) /\ b = Recall!Reserved(w, s \ {x})
                             /\ c = Recall!Reserved(w, (s \ {x}) \ {y})
          OBVIOUS
        <5>8. a = w[x] + c /\ b = w[y] + c /\ c \in Int BY <5>2, <5>3, <5>4, <5>6, <5>7, Zenon
        <5>9. w[y] + a = w[x] + b BY <5>8, <5>5, <3>3
        <5> QED BY <5>7, <5>9, <3>2, Zenon
      <4> QED BY <4>1, <4>2
    <3>5. Recall!Reserved(w, s) \in Int
      <4> HIDE DEF F, P
      <4> QED BY <3>2, <3>3
    <3> QED BY <3>4, <3>5
  <2> QED BY <2>1, <2>2
<1> QED BY <1>4, <1>6

(* A total of costs is no less than none. *)
LEMMA TotalIsNat ==
  ASSUME NEW w, NEW S, IsFiniteSet(S), \A i \in S : w[i] \in Nat
  PROVE  Recall!Reserved(w, S) \in Nat
<1> DEFINE F == {s \in SUBSET S : Recall!Reserved(w, s) \notin Nat}
<1>1. SUFFICES ASSUME F # {} PROVE FALSE
  <2>1. S \in SUBSET S OBVIOUS
  <2> QED BY <2>1
<1>2. \A s \in F : IsFiniteSet(s) BY FS_Subset
<1>3. PICK s \in F : \A u \in F : Cardinality(s) <= Cardinality(u)
  <2> HIDE DEF F
  <2> QED BY <1>1, <1>2, SmallestSet
<1>4. s \in SUBSET S /\ Recall!Reserved(w, s) \notin Nat /\ IsFiniteSet(s) BY <1>2
<1>5. s # {}
  <2> SUFFICES ASSUME s = {} PROVE FALSE OBVIOUS
  <2>1. Recall!Reserved(w, s) = 0 BY TotalRecurs
  <2> HIDE DEF F
  <2> QED BY <2>1, <1>4
<1>6. PICK x : x \in s BY <1>5
<1> DEFINE u == s \ {x}
<1>7. Recall!Reserved(w, u) \in Nat
  <2>1. Cardinality(u) = Cardinality(s) - 1 /\ Cardinality(s) \in Nat
    BY <1>4, <1>6, FS_RemoveElement, FS_CardinalityType
  <2>2. ~(Cardinality(s) <= Cardinality(u)) BY <2>1
  <2>3. u \notin F BY <2>2, <1>3
  <2>4. u \in SUBSET S BY <1>4
  <2> HIDE DEF u
  <2> QED BY <2>3, <2>4
<1>8. Recall!Reserved(w, s) = w[x] + Recall!Reserved(w, u)
  <2>1. \A i \in s : w[i] \in Int BY <1>4
  <2> QED BY <2>1, <1>4, <1>6, TotalAdds
<1>9. w[x] \in Nat BY <1>4, <1>6
<1> HIDE DEF F, u
<1> QED BY <1>4, <1>7, <1>8, <1>9

(* A total depends on what it adds up only. *)
LEMMA TotalsAgree ==
  ASSUME NEW w, NEW v, NEW S, IsFiniteSet(S), \A x \in S : w[x] = v[x]
  PROVE  Recall!Reserved(w, S) = Recall!Reserved(v, S)
<1> DEFINE F == {s \in SUBSET S : Recall!Reserved(w, s) # Recall!Reserved(v, s)}
<1>1. SUFFICES ASSUME F # {} PROVE FALSE
  <2>1. S \in SUBSET S OBVIOUS
  <2> QED BY <2>1
<1>2. \A s \in F : IsFiniteSet(s) BY FS_Subset
<1>3. PICK s \in F : \A u \in F : Cardinality(s) <= Cardinality(u)
  <2> HIDE DEF F
  <2> QED BY <1>1, <1>2, SmallestSet
<1>4. s \in SUBSET S /\ Recall!Reserved(w, s) # Recall!Reserved(v, s) /\ IsFiniteSet(s) BY <1>2
<1>5. s # {}
  <2> SUFFICES ASSUME s = {} PROVE FALSE OBVIOUS
  <2>1. Recall!Reserved(w, s) = 0 /\ Recall!Reserved(v, s) = 0 BY TotalRecurs
  <2> HIDE DEF F
  <2> QED BY <2>1, <1>4
<1> DEFINE u == s \ {NextSpender(s)}
<1>6. NextSpender(s) \in s BY <1>5, FirstIsIn
<1>7. /\ Recall!Reserved(w, s) = w[NextSpender(s)] + Recall!Reserved(w, u)
      /\ Recall!Reserved(v, s) = v[NextSpender(s)] + Recall!Reserved(v, u)
  BY <1>4, <1>5, TotalRecurs
<1>8. Cardinality(u) = Cardinality(s) - 1 /\ Cardinality(s) \in Nat
  BY <1>4, <1>6, FS_RemoveElement, FS_CardinalityType
<1>9. ~(Cardinality(s) <= Cardinality(u)) BY <1>8
<1>10. u \in SUBSET S BY <1>4
<1>11. Recall!Reserved(w, u) = Recall!Reserved(v, u)
  <2> HIDE DEF u
  <2> QED BY <1>9, <1>10, <1>3
<1>12. w[NextSpender(s)] = v[NextSpender(s)] BY <1>4, <1>6
<1> HIDE DEF u, F
<1> QED BY <1>4, <1>7, <1>11, <1>12

(* Nothing adds up to nothing. *)
LEMMA NothingReserved ==
  ASSUME NEW w, NEW S, IsFiniteSet(S), \A x \in S : w[x] = 0
  PROVE  Recall!Reserved(w, S) = 0
<1> DEFINE F == {s \in SUBSET S : Recall!Reserved(w, s) # 0}
<1>1. SUFFICES ASSUME F # {} PROVE FALSE
  <2>1. S \in SUBSET S OBVIOUS
  <2> QED BY <2>1
<1>2. \A s \in F : IsFiniteSet(s) BY FS_Subset
<1>3. PICK s \in F : \A u \in F : Cardinality(s) <= Cardinality(u)
  <2> HIDE DEF F
  <2> QED BY <1>1, <1>2, SmallestSet
<1>4. s \in SUBSET S /\ Recall!Reserved(w, s) # 0 /\ IsFiniteSet(s) BY <1>2
<1>5. s # {}
  <2> SUFFICES ASSUME s = {} PROVE FALSE OBVIOUS
  <2>1. Recall!Reserved(w, s) = 0 BY TotalRecurs
  <2> HIDE DEF F
  <2> QED BY <2>1, <1>4
<1> DEFINE u == s \ {NextSpender(s)}
<1>6. NextSpender(s) \in s BY <1>5, FirstIsIn
<1>7. Recall!Reserved(w, s) = w[NextSpender(s)] + Recall!Reserved(w, u)
  BY <1>4, <1>5, TotalRecurs
<1>8. Cardinality(u) = Cardinality(s) - 1 /\ Cardinality(s) \in Nat
  BY <1>4, <1>6, FS_RemoveElement, FS_CardinalityType
<1>9. ~(Cardinality(s) <= Cardinality(u)) BY <1>8
<1>10. u \in SUBSET S BY <1>4
<1>11. Recall!Reserved(w, u) = 0
  <2> HIDE DEF u
  <2> QED BY <1>9, <1>10, <1>3
<1>12. w[NextSpender(s)] = 0 BY <1>4, <1>6
<1> HIDE DEF u, F
<1> QED BY <1>4, <1>7, <1>11, <1>12

(* A reservation adds one. *)
LEMMA OneMore ==
  ASSUME NEW w, NEW S, IsFiniteSet(S), w \in [S -> Nat], NEW o \in S
  PROVE  /\ Recall!Reserved([w EXCEPT ![o] = @ + 1], S) = Recall!Reserved(w, S) + 1
         /\ Recall!Reserved(w, S) \in Int
<1> DEFINE v == [w EXCEPT ![o] = @ + 1]
           R == S \ {o}
<1>1. IsFiniteSet(R) BY FS_Subset
<1>2. /\ \A x \in S : w[x] \in Int /\ v[x] \in Int
      /\ v[o] = w[o] + 1 /\ \A x \in R : v[x] = w[x]
  OBVIOUS
<1>3. \A x \in R : w[x] \in Int BY <1>2
<1> HIDE DEF v
<1>4. /\ Recall!Reserved(w, S) = w[o] + Recall!Reserved(w, R) /\ Recall!Reserved(w, S) \in Int
      /\ Recall!Reserved(v, S) = v[o] + Recall!Reserved(v, R)
  BY <1>2, TotalAdds
<1> HIDE DEF R
<1>5. Recall!Reserved(w, R) \in Int BY <1>1, <1>3, TotalAdds
<1>6. Recall!Reserved(v, R) = Recall!Reserved(w, R) BY <1>1, <1>2, TotalsAgree
<1>7. Recall!Reserved(v, S) = Recall!Reserved(w, S) + 1 BY <1>2, <1>4, <1>5, <1>6
<1> QED BY <1>4, <1>7 DEF v

-----------------------------------------------------------------------------
(* RecallPipeline: operations.                                             *)

(* The least of some ranks. *)
LEMMA LeastRank ==
  ASSUME NEW R, R \subseteq Nat, R # {}
  PROVE  Recall!Min(R) \in R /\ \A y \in R : Recall!Min(R) <= y
<1> DEFINE P(x) == \A y \in R : x <= y
<1>1. \E x \in R : P(x) BY LeastNumber
<1>2. Recall!Min(R) = CHOOSE x \in R : P(x) BY Zenon DEF Recall!Min
<1> HIDE DEF P
<1>3. Recall!Min(R) \in R /\ P(Recall!Min(R)) BY <1>1, <1>2, Zenon
<1> QED BY <1>3 DEF P

(* What no step takes back: a generation and a cached response stay. *)
NothingLost ==
  /\ Len(history) <= Len(history') /\ \A g \in 1 .. Len(history) : history'[g] = history[g]
  /\ DOMAIN cache \subseteq DOMAIN cache' /\ \A key \in DOMAIN cache : cache'[key] = cache[key]

LEMMA SoundStays ==
  ASSUME Recall!StoreTyped, Len(history') \in Nat, NothingLost, NEW r, Recall!Sound(r)
  PROVE  Recall!Sound(r)'
<1>1. Len(history) \in Nat /\ Len(history) <= Len(history')
  BY DEF Recall!StoreTyped, NothingLost
<1>2. r.gen \in 1 .. Len(history) /\ r.gen \in 1 .. Len(history')
  BY <1>1 DEF Recall!Sound, Recall!Pinned
<1>3. history'[r.gen] = history[r.gen] BY <1>2 DEF NothingLost
<1>4. Recall!Pinned(r)' BY <1>2, <1>3 DEF Recall!Sound, Recall!Pinned, Recall!StateAt
<1>5. Recall!Selected(r)' BY DEF Recall!Sound, Recall!Selected, Recall!Allowed
<1>6. Recall!Served(r)' BY DEF Recall!Sound, Recall!Served, NothingLost
<1>7. Recall!Grounded(r)' BY DEF Recall!Sound, Recall!Grounded
<1> QED BY <1>4, <1>5, <1>6, <1>7 DEF Recall!Sound

(* One operation moves to r, which is sound. *)
LEMMA OpMoves ==
  ASSUME Recall!RecallInvariant, NEW o \in Ops, NEW r \in Recall!Progress,
         op' = [op EXCEPT ![o] = r],
         history' = history, index' = index, NothingLost, Recall!Sound(r)', Recall!Budgeted',
         \A key \in DOMAIN cache' : cache'[key] \in Drafts
  PROVE  Recall!RecallInvariant'
<1>1. Recall!StoreTyped' BY DEF Recall!RecallInvariant, Recall!StoreTyped
<1>2. op \in [Ops -> Recall!Progress] BY DEF Recall!RecallInvariant, Recall!OpsTyped
<1>3. Recall!OpsTyped' BY <1>2 DEF Recall!OpsTyped
<1>4. Len(history') \in Nat BY DEF Recall!RecallInvariant, Recall!StoreTyped
<1>5. ASSUME NEW p \in Ops PROVE Recall!Sound(op[p])'
  <2>1. CASE p = o
    <3>1. op'[p] = r BY <2>1, <1>2
    <3> QED BY <3>1
               DEF Recall!Sound, Recall!Pinned, Recall!Selected, Recall!Served, Recall!Grounded
  <2>2. CASE p # o
    <3>1. op'[p] = op[p] BY <2>2, <1>2
    <3>2. PICK q : q = op[p] OBVIOUS
    <3>3. Recall!Sound(q) BY <3>2 DEF Recall!RecallInvariant
    <3>4. Recall!StoreTyped BY DEF Recall!RecallInvariant
    <3>5. Recall!Sound(q)' BY <3>3, <3>4, <1>4, SoundStays
    <3> QED BY <3>1, <3>2, <3>5
               DEF Recall!Sound, Recall!Pinned, Recall!Selected, Recall!Served, Recall!Grounded
  <2> QED BY <2>1, <2>2
<1> QED BY <1>1, <1>3, <1>5 DEF Recall!RecallInvariant

(* Nothing but the operation moves. *)
LEMMA OpMovesAlone ==
  ASSUME Recall!RecallInvariant, NEW o \in Ops, NEW r \in Recall!Progress,
         op' = [op EXCEPT ![o] = r],
         history' = history, index' = index, cache' = cache, spent' = spent, Recall!Sound(r)
  PROVE  Recall!RecallInvariant'
<1>1. Len(history) \in Nat BY DEF Recall!RecallInvariant, Recall!StoreTyped
<1>2. NothingLost BY <1>1 DEF NothingLost
<1>3. Recall!Sound(r)' BY <1>1, <1>2, SoundStays DEF Recall!RecallInvariant
<1>4. Recall!Budgeted' BY DEF Recall!RecallInvariant, Recall!Budgeted
<1>5. \A key \in DOMAIN cache' : cache'[key] \in Drafts
  BY DEF Recall!RecallInvariant, Recall!OpsTyped
<1> QED BY <1>2, <1>3, <1>4, <1>5, OpMoves

(* What starts nothing, and what ends without a statement. *)
LEMMA EmptySound ==
  ASSUME Recall!StoreTyped
  PROVE  /\ Recall!Idle \in Recall!Progress /\ Recall!Sound(Recall!Idle)
         /\ Recall!Failed \in Recall!Progress /\ Recall!Sound(Recall!Failed)
         /\ Recall!Abstained \in Recall!Progress /\ Recall!Sound(Recall!Abstained)
<1>1. Recall!NoDraft.cites = {} BY DEF Recall!NoDraft
<1>2. {} \in { draft.cites : draft \in Drafts \union {Recall!NoDraft} } BY <1>1
<1>3. Recall!NoKey \in [route : Routes \union {"none"}, gen : Nat, request : SUBSET Recall!Atoms]
  BY DEF Recall!NoKey
<1>4. Recall!Idle \in Recall!Progress BY <1>2, <1>3 DEF Recall!Idle, Recall!Progress
<1>5. Recall!Failed \in Recall!Progress /\ Recall!Abstained \in Recall!Progress
  BY <1>4 DEF Recall!Failed, Recall!Abstained, Recall!Progress
<1>6. 1 \in 1 .. Len(history) BY DEF Recall!StoreTyped
<1>7. Recall!Sound(Recall!Idle)
  BY <1>6
     DEF Recall!Sound, Recall!Pinned, Recall!Selected, Recall!Served, Recall!Grounded,
         Recall!Idle
<1>8. Recall!Sound(Recall!Failed)
  BY <1>6
     DEF Recall!Sound, Recall!Pinned, Recall!Selected, Recall!Served, Recall!Grounded,
         Recall!Failed, Recall!Idle
<1>9. Recall!Sound(Recall!Abstained)
  BY <1>6
     DEF Recall!Sound, Recall!Pinned, Recall!Selected, Recall!Served, Recall!Grounded,
         Recall!Abstained, Recall!Idle
<1> QED BY <1>4, <1>5, <1>7, <1>8, <1>9

LEMMA RetrieveKeeps ==
  ASSUME Recall!RecallInvariant, NEW o \in Ops, NEW query \in Recall!Queries,
         NEW exact \in SUBSET Objects,
         NEW semantic \in SUBSET Objects, NEW fails,
         Recall!Retrieve(o, query, exact, semantic, fails)
  PROVE  Recall!RecallInvariant'
<1>0. /\ Recall!StoreTyped /\ history' = history /\ index' = index /\ cache' = cache
      /\ spent' = spent
  BY DEF Recall!RecallInvariant, Recall!Retrieve
<1>1. CASE fails = "required"
  <2>1. op' = [op EXCEPT ![o] = Recall!Failed] BY <1>1 DEF Recall!Retrieve
  <2>2. PICK r : r = Recall!Failed OBVIOUS
  <2>3. r \in Recall!Progress /\ Recall!Sound(r) BY <2>2, <1>0, EmptySound
  <2> QED BY <2>1, <2>2, <2>3, <1>0, OpMovesAlone
<1>2. CASE fails # "required"
  <2> DEFINE found == exact \union (IF query.optional /\ fails = "none" THEN semantic ELSE {})
             fit == { x \in found : Recall!Eligible(Recall!Current, query.max, x) }
  <2>1. PICK kept \in Recall!Kept(fit \cap exact, fit) :
          \E known \in {kept} \union { kept \ {x} : x \in kept } :
             op' = [op EXCEPT ![o] = Recall!Packed(query, Recall!Pack(Recall!Current, kept, known))]
    BY <1>2 DEF Recall!Retrieve
  <2>12. PICK known :
           op' = [op EXCEPT ![o] = Recall!Packed(query, Recall!Pack(Recall!Current, kept, known))]
    BY <2>1
  <2> DEFINE got == kept \cap known
  <2>2. kept \subseteq fit BY DEF Recall!Kept
  <2>3. \A x \in got : x \in Objects /\ Recall!Eligible(Recall!Current, query.max, x)
    BY <2>2
  <2>4. Recall!Current \in 1 .. Len(history) /\ Recall!Current \in Nat
    BY <1>0 DEF Recall!StoreTyped, Recall!Current
  <2> HIDE DEF found, fit
  <2>5. ASSUME NEW a \in Recall!Pack(Recall!Current, kept, known)
        PROVE  /\ a \in Recall!Atoms
               /\ a.rev = Recall!StateAt(Recall!Current, a.object).rev
               /\ a.shape = Recall!StateAt(Recall!Current, a.object).shape
               /\ a.shape.status \in {"active", "accepted"} /\ a.shape.sens <= query.max
    <3>1. PICK x \in got : a = Recall!Atom(Recall!Current, x) BY DEF Recall!Pack
    <3>2. x \in Objects /\ Recall!Eligible(Recall!Current, query.max, x) BY <2>3
    <3>3. history[Recall!Current] \in [Objects -> [rev : Nat, shape : Shapes]]
      BY <1>0, <2>4 DEF Recall!StoreTyped
    <3>4. Recall!StateAt(Recall!Current, x) \in [rev : Nat, shape : Shapes]
      BY <3>2, <3>3 DEF Recall!StateAt
    <3>5. /\ a.object = x /\ a.rev = Recall!StateAt(Recall!Current, x).rev
          /\ a.shape = Recall!StateAt(Recall!Current, x).shape
          /\ a = [object |-> x, rev |-> a.rev, shape |-> a.shape]
      BY <3>1, <3>2 DEF Recall!Atom, Recall!Eligible
    <3>6. a.rev \in Nat /\ a.shape \in Shapes BY <3>4, <3>5
    <3>7. a \in Recall!Atoms BY <3>2, <3>5, <3>6 DEF Recall!Atoms
    <3>8. a.shape.status \in {"active", "accepted"} /\ a.shape.sens <= query.max
      BY <3>2, <3>5 DEF Recall!Eligible
    <3> QED BY <3>5, <3>7, <3>8
  <2>6. PICK pack, g : pack = Recall!Pack(Recall!Current, kept, known) /\ g = Recall!Current OBVIOUS
  <2>7. PICK r : r = [Recall!Idle EXCEPT !.pc = "packed", !.gen = g, !.max = query.max, !.atoms = pack]
    OBVIOUS
  <2>8. op' = [op EXCEPT ![o] = r] BY <2>12, <2>6, <2>7 DEF Recall!Packed
  <2>9. /\ r \in Recall!Progress
        /\ r.pc = "packed" /\ r.gen = g /\ r.max = query.max /\ r.atoms = pack
        /\ r.selected = {}
    <3>1. Recall!Idle \in Recall!Progress BY <1>0, EmptySound
    <3>2. g \in Nat /\ query.max \in Sensitivities /\ pack \in SUBSET Recall!Atoms
      BY <2>4, <2>5, <2>6 DEF Recall!Queries
    <3>3. Recall!Idle.selected = {} BY DEF Recall!Idle
    <3> QED BY <2>7, <3>1, <3>2, <3>3 DEF Recall!Progress
  <2>10. Recall!Pinned(r)
    <3>1. g \in 1 .. Len(history) BY <2>4, <2>6
    <3>2. \A a \in pack :
            /\ a.rev = Recall!StateAt(g, a.object).rev
            /\ a.shape = Recall!StateAt(g, a.object).shape
            /\ a.shape.status \in {"active", "accepted"} /\ a.shape.sens <= query.max
      BY <2>5, <2>6
    <3> QED BY <3>1, <3>2, <2>9 DEF Recall!Pinned
  <2>11. Recall!Sound(r)
    BY <2>9, <2>10 DEF Recall!Sound, Recall!Selected, Recall!Served, Recall!Grounded
  <2> QED BY <2>8, <2>9, <2>11, <1>0, OpMovesAlone
<1> QED BY <1>1, <1>2

LEMMA PlanKeeps ==
  ASSUME Recall!RecallInvariant, NEW o \in Ops, NEW decision \in Recall!Decisions, NEW unfit,
         Recall!Plan(o, decision, unfit)
  PROVE  Recall!RecallInvariant'
<1>0. /\ history' = history /\ index' = index /\ cache' = cache /\ spent' = spent
      /\ op[o] \in Recall!Progress /\ Recall!Sound(op[o])
  BY DEF Recall!RecallInvariant, Recall!OpsTyped, Recall!Plan
<1> DEFINE room == { a \in op[o].atoms \ unfit : Recall!Allowed(decision, a) }
<1>1. PICK selected \in Recall!kSubset(Recall!Min({TokenCap, Recall!Cardinality(room)}), room) :
        op' = [op EXCEPT ![o] = Recall!Planned(@, decision, selected)]
  BY Zenon DEF Recall!Plan
<1>2. selected \subseteq op[o].atoms /\ \A a \in selected : Recall!Allowed(decision, a)
  <2>1. selected \in SUBSET room BY DEF Recall!kSubset
  <2> QED BY <2>1
<1> HIDE DEF room
<1>3. PICK q, r : /\ q = op[o]
                  /\ r = [q EXCEPT !.pc = "planned", !.decision = decision, !.selected = selected]
  OBVIOUS
<1>4. op' = [op EXCEPT ![o] = r] BY <1>1, <1>3 DEF Recall!Planned
<1>5. q \in Recall!Progress /\ Recall!Sound(q) /\ selected \subseteq q.atoms BY <1>0, <1>2, <1>3
<1>6. /\ r \in Recall!Progress /\ r.pc = "planned" /\ r.gen = q.gen /\ r.max = q.max
      /\ r.atoms = q.atoms
      /\ r.selected = selected /\ r.decision = decision
  BY <1>3, <1>5 DEF Recall!Progress
<1>7. Recall!Pinned(r) BY <1>5, <1>6 DEF Recall!Sound, Recall!Pinned
<1>8. Recall!Selected(r) BY <1>2, <1>5, <1>6 DEF Recall!Selected
<1>9. Recall!Sound(r) BY <1>6, <1>7, <1>8 DEF Recall!Sound, Recall!Served, Recall!Grounded
<1> QED BY <1>0, <1>4, <1>6, <1>9, OpMovesAlone

(* A step of an operation that keeps its pack and its plan. *)
LEMMA SamePlan ==
  ASSUME NEW q, NEW r, Recall!Sound(q), r.gen = q.gen, r.max = q.max, r.atoms = q.atoms,
         r.selected = q.selected, r.decision = q.decision
  PROVE  Recall!Pinned(r) /\ Recall!Selected(r)
<1>1. Recall!Pinned(r) BY DEF Recall!Sound, Recall!Pinned
<1>2. Recall!Selected(r) BY DEF Recall!Sound, Recall!Selected
<1> QED BY <1>1, <1>2

LEMMA CallKeeps ==
  ASSUME Recall!RecallAssumption, Recall!RecallInvariant, NEW o \in Ops, NEW route \in Routes,
         NEW golden \in BOOLEAN, Recall!Call(o, route, golden)
  PROVE  Recall!RecallInvariant'
<1>0. /\ history' = history /\ index' = index /\ cache' = cache
      /\ op[o] \in Recall!Progress /\ Recall!Sound(op[o]) /\ Recall!StoreTyped
  BY DEF Recall!RecallInvariant, Recall!OpsTyped, Recall!Call
<1>1. PICK q, key : q = op[o] /\ key = Recall!Key(o, route) OBVIOUS
<1>2. q \in Recall!Progress /\ Recall!Sound(q) BY <1>0, <1>1
<1>3. key \in [route : Routes \union {"none"}, gen : Nat, request : SUBSET Recall!Atoms]
  <2>1. q.gen \in Nat /\ q.selected \in SUBSET Recall!Atoms BY <1>2 DEF Recall!Progress
  <2> QED BY <2>1, <1>1 DEF Recall!Key
<1>4. CASE /\ ~golden /\ key \in DOMAIN cache
           /\ op' = [op EXCEPT ![o] = [@ EXCEPT !.pc = "drafted", !.draft = cache[key],
                                              !.key = key, !.golden = golden]]
           /\ UNCHANGED spent
  <2>1. PICK r : r = [q EXCEPT !.pc = "drafted", !.draft = cache[key], !.key = key,
                               !.golden = golden]
    OBVIOUS
  <2>2. op' = [op EXCEPT ![o] = r] BY <1>1, <1>4, <2>1
  <2>3. cache[key] \in Drafts BY <1>4 DEF Recall!RecallInvariant, Recall!OpsTyped
  <2>4. /\ r \in Recall!Progress /\ r.pc = "drafted" /\ r.draft = cache[key] /\ r.key = key
        /\ r.gen = q.gen /\ r.max = q.max /\ r.atoms = q.atoms
        /\ r.selected = q.selected /\ r.decision = q.decision
    BY <1>2, <1>3, <2>1, <2>3 DEF Recall!Progress
  <2>5. Recall!Pinned(r) /\ Recall!Selected(r) BY <1>2, <2>4, SamePlan
  <2>6. Recall!Sound(r) BY <2>4, <2>5, <1>4 DEF Recall!Sound, Recall!Served, Recall!Grounded
  <2> QED BY <1>0, <1>4, <2>2, <2>4, <2>6, OpMovesAlone
<1>5. ASSUME op' = [op EXCEPT ![o] = Recall!Failed], UNCHANGED spent
      PROVE  Recall!RecallInvariant'
  <2>1. PICK r : r = Recall!Failed OBVIOUS
  <2>2. r \in Recall!Progress /\ Recall!Sound(r) BY <2>1, <1>0, EmptySound
  <2> QED BY <2>1, <2>2, <1>0, <1>5, OpMovesAlone
<1>6. CASE /\ Recall!Within(o)
           /\ spent' = [spent EXCEPT ![o] = @ + 1]
           /\ op' = [op EXCEPT ![o] = IF route = "missing" THEN Recall!Failed
                                      ELSE [@ EXCEPT !.pc = "calling", !.key = key,
                                                     !.golden = golden]]
  <2>1. Recall!Budgeted'
    <3>1. /\ spent \in [Ops -> Nat] /\ (\A p \in Ops : spent[p] <= OpBudget) /\ IsFiniteSet(Ops)
          /\ OpBudget \in Nat /\ SpaceBudget \in Nat
      BY RecallCounts DEF Recall!RecallInvariant, Recall!Budgeted, Recall!RecallAssumption
    <3>2. spent[o] + 1 <= OpBudget /\ Recall!Reserved(spent, Ops) + 1 <= SpaceBudget
      BY <1>6 DEF Recall!Within
    <3>3. spent' \in [Ops -> Nat] /\ \A p \in Ops : spent'[p] <= OpBudget
      BY <3>1, <3>2, <1>6
    <3>4. Recall!Reserved(spent', Ops) = Recall!Reserved(spent, Ops) + 1 BY <3>1, <1>6, OneMore
    <3>5. Recall!Reserved(spent', Ops) <= SpaceBudget BY <3>2, <3>4
    <3> QED BY <3>3, <3>5 DEF Recall!Budgeted
  <2>2. PICK r : r = IF route = "missing" THEN Recall!Failed
                     ELSE [q EXCEPT !.pc = "calling", !.key = key, !.golden = golden]
    OBVIOUS
  <2>3. op' = [op EXCEPT ![o] = r] BY <1>1, <1>6, <2>2
  <2>4. r \in Recall!Progress /\ Recall!Sound(r)
    <3>1. CASE route = "missing" BY <3>1, <2>2, <1>0, EmptySound
    <3>2. CASE route # "missing"
      <4>1. r = [q EXCEPT !.pc = "calling", !.key = key, !.golden = golden] BY <3>2, <2>2
      <4>2. /\ r \in Recall!Progress /\ r.pc = "calling"
            /\ r.gen = q.gen /\ r.max = q.max /\ r.atoms = q.atoms
            /\ r.selected = q.selected /\ r.decision = q.decision
        BY <1>2, <1>3, <4>1 DEF Recall!Progress
      <4>3. Recall!Pinned(r) /\ Recall!Selected(r) BY <1>2, <4>2, SamePlan
      <4> QED BY <4>2, <4>3 DEF Recall!Sound, Recall!Served, Recall!Grounded
    <3> QED BY <3>1, <3>2
  <2>5. Len(history) \in Nat BY <1>0 DEF Recall!StoreTyped
  <2>6. NothingLost BY <1>0, <2>5 DEF NothingLost
  <2>7. Recall!Sound(r)' BY <1>0, <2>4, <2>5, <2>6, SoundStays
  <2>8. \A k \in DOMAIN cache' : cache'[k] \in Drafts
    BY <1>0 DEF Recall!RecallInvariant, Recall!OpsTyped
  <2> QED BY <1>0, <2>1, <2>3, <2>4, <2>6, <2>7, <2>8, OpMoves
<1> QED BY <1>1, <1>4, <1>5, <1>6 DEF Recall!Call

LEMMA ProviderFailsKeeps ==
  ASSUME Recall!RecallInvariant, NEW o \in Ops, Recall!ProviderFails(o)
  PROVE  Recall!RecallInvariant'
<1>0. /\ history' = history /\ index' = index /\ cache' = cache /\ spent' = spent
      /\ op[o] \in Recall!Progress /\ Recall!Sound(op[o]) /\ Recall!StoreTyped
  BY DEF Recall!RecallInvariant, Recall!OpsTyped, Recall!ProviderFails
<1>1. CASE op' = [op EXCEPT ![o] = [@ EXCEPT !.pc = "planned", !.key = Recall!NoKey, !.golden = FALSE]]
  <2>1. PICK q, r : q = op[o] /\ r = [q EXCEPT !.pc = "planned", !.key = Recall!NoKey, !.golden = FALSE]
    OBVIOUS
  <2>2. op' = [op EXCEPT ![o] = r] BY <1>1, <2>1
  <2>3. q \in Recall!Progress /\ Recall!Sound(q) BY <1>0, <2>1
  <2>4. Recall!NoKey \in [route : Routes \union {"none"}, gen : Nat, request : SUBSET Recall!Atoms]
    BY DEF Recall!NoKey
  <2>5. /\ r \in Recall!Progress /\ r.pc = "planned"
        /\ r.gen = q.gen /\ r.max = q.max /\ r.atoms = q.atoms
        /\ r.selected = q.selected /\ r.decision = q.decision
    BY <2>1, <2>3, <2>4 DEF Recall!Progress
  <2>6. Recall!Pinned(r) /\ Recall!Selected(r) BY <2>3, <2>5, SamePlan
  <2>7. Recall!Sound(r) BY <2>5, <2>6 DEF Recall!Sound, Recall!Served, Recall!Grounded
  <2> QED BY <1>0, <2>2, <2>5, <2>7, OpMovesAlone
<1>2. CASE op' = [op EXCEPT ![o] = Recall!Failed]
  <2>1. PICK r : r = Recall!Failed OBVIOUS
  <2>2. r \in Recall!Progress /\ Recall!Sound(r) BY <2>1, <1>0, EmptySound
  <2> QED BY <2>1, <2>2, <1>0, <1>2, OpMovesAlone
<1> QED BY <1>1, <1>2 DEF Recall!ProviderFails

LEMMA ProviderAnswersKeeps ==
  ASSUME Recall!RecallInvariant, NEW o \in Ops, NEW draft \in Drafts,
         Recall!ProviderAnswers(o, draft)
  PROVE  Recall!RecallInvariant'
<1>0. /\ history' = history /\ index' = index /\ spent' = spent
      /\ op[o] \in Recall!Progress /\ Recall!Sound(op[o]) /\ Recall!StoreTyped
      /\ \A k \in DOMAIN cache : cache[k] \in Drafts
  BY DEF Recall!RecallInvariant, Recall!OpsTyped, Recall!ProviderAnswers
<1>1. CASE op[o].golden \/ Recall!Agrees(op[o].key, draft)
  <2>1. PICK q, r : q = op[o] /\ r = [q EXCEPT !.pc = "drafted", !.draft = draft] OBVIOUS
  <2>2. /\ op' = [op EXCEPT ![o] = r]
        /\ cache' = IF q.golden THEN cache ELSE Recall!Put(q.key, draft)
        /\ q.golden \/ Recall!Agrees(q.key, draft)
    BY <1>1, <2>1 DEF Recall!ProviderAnswers
  <2>3. q \in Recall!Progress /\ Recall!Sound(q) BY <1>0, <2>1
  <2>4. /\ r \in Recall!Progress /\ r.pc = "drafted" /\ r.draft = draft /\ r.key = q.key
        /\ r.golden = q.golden /\ r.gen = q.gen /\ r.max = q.max /\ r.atoms = q.atoms
        /\ r.selected = q.selected /\ r.decision = q.decision
    BY <2>1, <2>3 DEF Recall!Progress
  <2>5. /\ DOMAIN cache \subseteq DOMAIN cache'
        /\ \A k \in DOMAIN cache : cache'[k] = cache[k]
        /\ \A k \in DOMAIN cache' : cache'[k] \in Drafts
    <3>1. CASE q.golden BY <3>1, <2>2, <1>0
    <3>2. CASE ~q.golden BY <3>2, <2>2, <1>0 DEF Recall!Put
    <3> QED BY <3>1, <3>2
  <2>6. ~q.golden => q.key \in DOMAIN cache' /\ cache'[q.key] = draft
    <3> SUFFICES ASSUME ~q.golden PROVE q.key \in DOMAIN cache' /\ cache'[q.key] = draft
      OBVIOUS
    <3>1. cache' = Recall!Put(q.key, draft) /\ Recall!Agrees(q.key, draft) BY <2>2
    <3> QED BY <3>1 DEF Recall!Put, Recall!Agrees
  <2>7. Len(history) \in Nat BY <1>0 DEF Recall!StoreTyped
  <2>8. NothingLost BY <1>0, <2>5, <2>7 DEF NothingLost
  <2>9. Recall!Pinned(r)' /\ Recall!Selected(r)'
    <3>1. Recall!Sound(q)' BY <2>3, <2>7, <2>8, <1>0, SoundStays
    <3> QED BY <3>1, <2>4 DEF Recall!Sound, Recall!Pinned, Recall!Selected
  <2>10. Recall!Served(r)' BY <2>4, <2>6 DEF Recall!Served
  <2>11. Recall!Sound(r)' BY <2>4, <2>9, <2>10 DEF Recall!Sound, Recall!Grounded
  <2>12. Recall!Budgeted' BY <1>0 DEF Recall!RecallInvariant, Recall!Budgeted
  <2> QED BY <1>0, <2>2, <2>4, <2>5, <2>8, <2>11, <2>12, OpMoves
<1>2. CASE ~(op[o].golden \/ Recall!Agrees(op[o].key, draft))
  <2>1. op' = [op EXCEPT ![o] = Recall!Failed] /\ cache' = cache
    BY <1>2 DEF Recall!ProviderAnswers
  <2>2. PICK r : r = Recall!Failed OBVIOUS
  <2>3. r \in Recall!Progress /\ Recall!Sound(r) BY <2>2, <1>0, EmptySound
  <2> QED BY <2>1, <2>2, <2>3, <1>0, OpMovesAlone
<1> QED BY <1>1, <1>2

(* As many atoms as citations: every citation has its atom. *)
LEMMA CitedAtoms ==
  ASSUME NEW A, NEW C, IsFiniteSet(C), \A a \in A : a.object \in C,
         \A a, b \in A : a.object = b.object => a = b, Cardinality(A) = Cardinality(C)
  PROVE  \A x \in C : \E a \in A : a.object = x
<1> DEFINE f == [a \in A |-> a.object]
<1>1. f \in Injection(A, C) BY DEF Injection, IsInjective
<1> HIDE DEF f
<1>2. f \in Surjection(A, C) BY <1>1, FS_Injection
<1> QED BY <1>2 DEF Surjection, f

LEMMA AnswerKeeps ==
  ASSUME Recall!RecallAssumption, Recall!RecallInvariant, NEW o \in Ops, NEW verdict,
         Recall!Answer(o, verdict)
  PROVE  Recall!RecallInvariant'
<1>0. /\ history' = history /\ index' = index /\ cache' = cache /\ spent' = spent
      /\ op[o] \in Recall!Progress /\ Recall!Sound(op[o]) /\ Recall!StoreTyped
      /\ op[o].pc = "drafted"
  BY DEF Recall!RecallInvariant, Recall!OpsTyped, Recall!Answer
<1>1. PICK q, draft, atoms : /\ q = op[o] /\ draft = op[o].draft
                             /\ atoms = Recall!AtomsFor(o, op[o].draft)
  OBVIOUS
<1>2. q \in Recall!Progress /\ Recall!Sound(q) /\ q.pc = "drafted" /\ draft = q.draft
  BY <1>0, <1>1
<1>3. CASE ~Recall!Accepted(draft, atoms, verdict)
  <2>1. op' = [op EXCEPT ![o] = Recall!Abstained] BY <1>1, <1>3 DEF Recall!Answer
  <2>2. PICK r : r = Recall!Abstained OBVIOUS
  <2>3. r \in Recall!Progress /\ Recall!Sound(r) BY <2>2, <1>0, EmptySound
  <2> QED BY <2>1, <2>2, <2>3, <1>0, OpMovesAlone
<1>4. CASE Recall!Accepted(draft, atoms, verdict)
  <2>1. PICK r : r = Recall!Stated(q, atoms) OBVIOUS
  <2>2. op' = [op EXCEPT ![o] = r] BY <1>1, <1>4, <2>1 DEF Recall!Answer
  <2>3. draft \in Drafts \union {Recall!NoDraft} BY <1>2 DEF Recall!Progress
  <2>4. draft.firm \in Nat /\ IsFiniteSet(draft.cites)
    <3>1. Recall!NoDraft.firm = 0 /\ Recall!NoDraft.cites = {} BY DEF Recall!NoDraft
    <3>2. CASE draft \in Drafts
      <4>1. draft.firm \in Nat /\ Recall!IsFiniteSet(draft.cites)
        BY <3>2 DEF Recall!RecallAssumption
      <4>2. IsFiniteSet(draft.cites) BY <4>1, RecallCounts
      <4> QED BY <4>1, <4>2
    <3>3. CASE draft = Recall!NoDraft BY <3>1, <3>3, FS_EmptySet
    <3> QED BY <2>3, <3>2, <3>3
  <2> DEFINE cited == { a \in q.atoms : a.object \in draft.cites }
  <2>5. atoms = IF Cardinality(cited) = Cardinality(draft.cites) THEN cited ELSE {}
    BY <1>1, RecallCounts DEF Recall!AtomsFor
  <2>6. /\ atoms # {} /\ (\A a \in atoms : a.shape.text = draft.text)
        /\ (\A a \in atoms : a.shape.kind # "contradicts") /\ \A a \in atoms : ~a.shape.instruction
    BY <1>4 DEF Recall!Accepted, Recall!Deterministic, Recall!PolicyAllows
  <2>7. atoms = cited /\ Cardinality(cited) = Cardinality(draft.cites) BY <2>5, <2>6
  <2>8. \A a, b \in cited : a.object = b.object => a = b
    <3> SUFFICES ASSUME NEW a \in cited, NEW b \in cited, a.object = b.object PROVE a = b OBVIOUS
    <3>1. a \in Recall!Atoms /\ b \in Recall!Atoms BY <1>2 DEF Recall!Progress
    <3>2. a.rev = b.rev /\ a.shape = b.shape BY <1>2 DEF Recall!Sound, Recall!Pinned
    <3> QED BY <3>1, <3>2 DEF Recall!Atoms
  <2>9. \A x \in draft.cites : \E a \in cited : a.object = x
    <3>1. \A a \in cited : a.object \in draft.cites OBVIOUS
    <3> HIDE DEF cited
    <3> QED BY <2>4, <2>7, <2>8, <3>1, CitedAtoms
  <2> DEFINE firms == {draft.firm} \union { a.shape.firm : a \in atoms }
  <2>10. firms \subseteq Nat /\ firms # {}
    <3>1. ASSUME NEW a \in atoms PROVE a.shape.firm \in Nat
      <4>1. a \in Recall!Atoms BY <1>2, <2>7 DEF Recall!Progress
      <4>2. a.shape \in Shapes BY <4>1 DEF Recall!Atoms
      <4> QED BY <4>2, RecallCounts DEF Recall!RecallAssumption
    <3> QED BY <3>1, <2>4
  <2>11. /\ Recall!Weakest(draft, atoms) \in Nat
         /\ \A a \in atoms : Recall!Weakest(draft, atoms) <= a.shape.firm
    <3>1. Recall!Weakest(draft, atoms) = Recall!Min(firms) BY DEF Recall!Weakest
    <3>2. \A a \in atoms : a.shape.firm \in firms OBVIOUS
    <3> HIDE DEF firms
    <3>3. Recall!Min(firms) \in firms /\ \A y \in firms : Recall!Min(firms) <= y
      BY <2>10, LeastRank
    <3> QED BY <3>1, <3>2, <3>3, <2>10
  <2> HIDE DEF firms
  <2>12. PICK w, c : /\ w = Recall!Weakest(draft, atoms)
                     /\ c = (atoms \cap Recall!ConflictAtoms(q.atoms) # {})
    OBVIOUS
  <2>13. r = [q EXCEPT !.pc = "answered", !.cites = draft.cites, !.firm = w, !.conflict = c]
    BY <1>2, <2>1, <2>12 DEF Recall!Stated
  <2>14. /\ c \in BOOLEAN /\ w \in Nat
         /\ draft.cites \in { d.cites : d \in Drafts \union {Recall!NoDraft} }
    BY <2>3, <2>11, <2>12
  <2>15. /\ r \in Recall!Progress /\ r.pc = "answered" /\ r.draft = draft /\ r.key = q.key
         /\ r.golden = q.golden /\ r.gen = q.gen /\ r.max = q.max /\ r.atoms = q.atoms
         /\ r.selected = q.selected /\ r.decision = q.decision
         /\ r.cites = draft.cites /\ r.firm = w
    BY <1>2, <2>13, <2>14 DEF Recall!Progress
  <2>16. Recall!Pinned(r) /\ Recall!Selected(r) BY <1>2, <2>15, SamePlan
  <2>17. Recall!Served(r) BY <1>2, <2>15 DEF Recall!Sound, Recall!Served
  <2>18. Recall!Grounded(r)
    <3>1. r.cites # {} BY <2>6, <2>7, <2>15
    <3>2. ASSUME NEW x \in r.cites
          PROVE  \E a \in r.atoms :
                   /\ a.object = x /\ a.shape.text = r.draft.text
                   /\ a.shape.kind # "contradicts"
                   /\ ~a.shape.instruction /\ r.firm <= a.shape.firm
      <4>1. PICK a \in cited : a.object = x BY <2>9, <2>15
      <4>2. a \in atoms /\ a \in r.atoms BY <4>1, <2>7, <2>15
      <4>3. r.firm <= a.shape.firm BY <4>2, <2>11, <2>12, <2>15
      <4> QED BY <4>1, <4>2, <4>3, <2>6, <2>15
    <3> QED BY <3>1, <3>2 DEF Recall!Grounded
  <2>19. Recall!Sound(r) BY <2>16, <2>17, <2>18 DEF Recall!Sound
  <2> QED BY <1>0, <2>2, <2>15, <2>19, OpMovesAlone
<1> QED BY <1>3, <1>4

LEMMA StoreKeeps ==
  ASSUME Recall!RecallInvariant, Recall!StoreStep PROVE Recall!RecallInvariant'
<1>0. /\ Recall!StoreTyped /\ Recall!OpsTyped /\ Recall!Budgeted /\ (\A o \in Ops : Recall!Sound(op[o]))
      /\ op' = op /\ cache' = cache /\ spent' = spent
  BY DEF Recall!RecallInvariant, Recall!StoreStep, Recall!Commit, Recall!Reindex
<1>1. Len(history) \in Nat /\ Len(history) >= 1 BY <1>0 DEF Recall!StoreTyped
<1>2. Recall!StoreTyped' /\ NothingLost
  <2>1. ASSUME NEW x \in Objects, NEW shape \in Shapes, Recall!Commit(x, shape)
        PROVE  Recall!StoreTyped' /\ NothingLost
    <3> DEFINE Row == [Objects -> [rev : Nat, shape : Shapes]]
    <3>1. history \in Seq(Row) /\ history[Len(history)] \in Row
      BY <1>0, <1>1 DEF Recall!StoreTyped
    <3>2. PICK row : row = [history[Recall!Current]
                               EXCEPT ![x] = [rev |-> Recall!Current + 1, shape |-> shape]]
      OBVIOUS
    <3>3. row \in Row BY <3>1, <3>2, <1>1 DEF Recall!Current
    <3>4. history' = Append(history, row) /\ index' = index BY <2>1, <3>2 DEF Recall!Commit
    <3> HIDE DEF Row
    <3>5. /\ history' \in Seq(Row) /\ Len(history') = Len(history) + 1
          /\ \A g \in 1 .. Len(history) : history'[g] = history[g]
      BY <3>1, <3>3, <3>4
    <3>6. Recall!StoreTyped' BY <3>4, <3>5, <1>0, <1>1 DEF Recall!StoreTyped, Row
    <3> QED BY <3>5, <3>6, <1>0, <1>1 DEF NothingLost
  <2>2. ASSUME NEW x \in Objects, Recall!Reindex(x) PROVE Recall!StoreTyped' /\ NothingLost
    <3>1. history' = history /\ index' = [index EXCEPT ![x] = Len(history)]
      BY <2>2 DEF Recall!Reindex, Recall!Current
    <3>2. Recall!StoreTyped' BY <3>1, <1>0, <1>1 DEF Recall!StoreTyped
    <3> QED BY <3>1, <3>2, <1>0, <1>1 DEF NothingLost
  <2> QED BY <2>1, <2>2 DEF Recall!StoreStep
<1>3. Len(history') \in Nat BY <1>2 DEF Recall!StoreTyped
<1>4. ASSUME NEW o \in Ops PROVE Recall!Sound(op[o])'
  <2>1. PICK q : q = op[o] OBVIOUS
  <2>2. Recall!Sound(q)' BY <2>1, <1>0, <1>2, <1>3, SoundStays
  <2> QED BY <2>1, <2>2, <1>0
             DEF Recall!Sound, Recall!Pinned, Recall!Selected, Recall!Served, Recall!Grounded
<1>5. Recall!OpsTyped' /\ Recall!Budgeted' BY <1>0 DEF Recall!OpsTyped, Recall!Budgeted
<1> QED BY <1>2, <1>4, <1>5 DEF Recall!RecallInvariant

(* What the invariant says of an answer and of the calls. *)
LEMMA InvariantGrounds ==
  ASSUME Recall!RecallInvariant PROVE Recall!AnswerIsGrounded /\ Recall!CallsAreAccounted
<1>1. ASSUME NEW o \in Ops PROVE op[o] \in Recall!Progress /\ Recall!Sound(op[o])
  BY DEF Recall!RecallInvariant, Recall!OpsTyped
<1>2. Recall!AnswerIsGrounded
  <2> SUFFICES ASSUME NEW o \in Ops, op[o].pc = "answered"
               PROVE  /\ op[o].cites # {}
                      /\ \A x \in op[o].cites :
                           LET then == Recall!StateAt(op[o].gen, x).shape IN
                           /\ then.status \in {"active", "accepted"}
                           /\ then.sens <= op[o].max
                           /\ then.text = op[o].draft.text
                           /\ then.kind # "contradicts"
                           /\ ~then.instruction
                           /\ op[o].firm <= then.firm
                           /\ \E a \in op[o].atoms :
                                a.object = x /\ a.rev = Recall!StateAt(op[o].gen, x).rev
    BY DEF Recall!AnswerIsGrounded
  <2>1. Recall!Pinned(op[o]) /\ Recall!Grounded(op[o]) BY <1>1 DEF Recall!Sound
  <2>2. ASSUME NEW x \in op[o].cites
        PROVE  \E a \in op[o].atoms :
                 /\ a.object = x /\ a.rev = Recall!StateAt(op[o].gen, x).rev
                 /\ a.shape = Recall!StateAt(op[o].gen, x).shape
                 /\ a.shape.status \in {"active", "accepted"} /\ a.shape.sens <= op[o].max
                 /\ a.shape.text = op[o].draft.text /\ a.shape.kind # "contradicts"
                 /\ ~a.shape.instruction /\ op[o].firm <= a.shape.firm
    <3>1. PICK a \in op[o].atoms :
             /\ a.object = x /\ a.shape.text = op[o].draft.text /\ a.shape.kind # "contradicts"
             /\ ~a.shape.instruction /\ op[o].firm <= a.shape.firm
      BY <2>1 DEF Recall!Grounded
    <3>2. /\ a.rev = Recall!StateAt(op[o].gen, x).rev
          /\ a.shape = Recall!StateAt(op[o].gen, x).shape
          /\ a.shape.status \in {"active", "accepted"} /\ a.shape.sens <= op[o].max
      BY <2>1, <3>1 DEF Recall!Pinned
    <3> QED BY <3>1, <3>2
  <2>3. op[o].cites # {} BY <2>1 DEF Recall!Grounded
  <2> QED BY <2>2, <2>3
<1>3. Recall!CallsAreAccounted
  <2>1. Recall!Reserved(spent, Ops) <= SpaceBudget /\ \A o \in Ops : spent[o] <= OpBudget
    BY DEF Recall!RecallInvariant, Recall!Budgeted
  <2>2. ASSUME NEW o \in Ops, op[o].pc \in {"drafted", "answered"}, ~op[o].golden
        PROVE  cache[op[o].key] = op[o].draft
    BY <1>1, <2>2 DEF Recall!Sound, Recall!Served
  <2>3. ASSUME NEW o \in Ops, NEW a \in op[o].selected
        PROVE  /\ Recall!StateAt(op[o].gen, a.object).shape.sens <= op[o].decision.max
               /\ op[o].decision.route = "provider"
                    => Recall!StateAt(op[o].gen, a.object).shape.sens # Recall!Secret
    <3>1. a \in op[o].atoms /\ Recall!Allowed(op[o].decision, a)
      BY <1>1 DEF Recall!Sound, Recall!Selected
    <3>2. a.shape = Recall!StateAt(op[o].gen, a.object).shape
      BY <1>1, <3>1 DEF Recall!Sound, Recall!Pinned
    <3> QED BY <3>1, <3>2 DEF Recall!Allowed
  <2> QED BY <2>1, <2>2, <2>3 DEF Recall!CallsAreAccounted
<1> QED BY <1>2, <1>3

(***************************************************************************)
(* Every answer is grounded in the store at the generation it pinned, and  *)
(* calls share one purse and one cache, for any objects, operations,       *)
(* drafts and budgets, however far the projection lags and however the     *)
(* store moves while the provider works (RecallEngine.answer,              *)
(* VerificationPipeline.verify, CostTracker.reserve, ModelCache.put).      *)
(***************************************************************************)
THEOREM AnswersStayGrounded ==
  ASSUME Recall!RecallAssumption PROVE Recall!Spec => []AnswersAreGrounded
<1>1. Recall!Init => Recall!RecallInvariant
  <2> SUFFICES ASSUME Recall!Init PROVE Recall!RecallInvariant OBVIOUS
  <2> DEFINE Row == [Objects -> [rev : Nat, shape : Shapes]]
  <2>1. PICK shape \in [Objects -> Shapes] :
          history = <<[x \in Objects |-> [rev |-> 1, shape |-> shape[x]]]>>
    BY DEF Recall!Init
  <2>2. [x \in Objects |-> [rev |-> 1, shape |-> shape[x]]] \in Row OBVIOUS
  <2> HIDE DEF Row
  <2>3. history \in Seq(Row) /\ Len(history) = 1 BY <2>1, <2>2
  <2>4. Recall!StoreTyped BY <2>3 DEF Recall!StoreTyped, Recall!Init, Row
  <2>5. Recall!Idle \in Recall!Progress /\ Recall!Sound(Recall!Idle) BY <2>4, EmptySound
  <2>6. op = [o \in Ops |-> Recall!Idle] /\ cache = <<>> BY DEF Recall!Init
  <2>7. op \in [Ops -> Recall!Progress] /\ \A o \in Ops : op[o] = Recall!Idle BY <2>5, <2>6
  <2>8. DOMAIN cache = {} BY <2>6
  <2>9. Recall!OpsTyped BY <2>7, <2>8 DEF Recall!OpsTyped
  <2>10. \A o \in Ops : Recall!Sound(op[o])
    BY <2>5, <2>7
       DEF Recall!Sound, Recall!Pinned, Recall!Selected, Recall!Served, Recall!Grounded
  <2>11. Recall!Budgeted
    <3>1. /\ spent = [o \in Ops |-> 0] /\ IsFiniteSet(Ops) /\ OpBudget \in Nat
          /\ SpaceBudget \in Nat
      BY RecallCounts DEF Recall!Init, Recall!RecallAssumption
    <3>2. Recall!Reserved(spent, Ops) = 0
      <4>1. \A x \in Ops : spent[x] = 0 BY <3>1
      <4> QED BY <3>1, <4>1, NothingReserved
    <3> QED BY <3>1, <3>2 DEF Recall!Budgeted
  <2> QED BY <2>4, <2>9, <2>10, <2>11 DEF Recall!RecallInvariant
<1>2. Recall!RecallInvariant /\ [Recall!Next]_Recall!vars => Recall!RecallInvariant'
  <2> SUFFICES ASSUME Recall!RecallInvariant, [Recall!Next]_Recall!vars
               PROVE  Recall!RecallInvariant'
    OBVIOUS
  <2>1. ASSUME NEW o \in Ops, Recall!OpStep(o) PROVE Recall!RecallInvariant'
    BY <2>1, RetrieveKeeps, PlanKeeps, CallKeeps, ProviderFailsKeeps, ProviderAnswersKeeps,
       AnswerKeeps DEF Recall!OpStep
  <2>2. CASE UNCHANGED Recall!vars
    <3>1. history' = history /\ index' = index /\ op' = op /\ cache' = cache /\ spent' = spent
      BY <2>2 DEF Recall!vars
    <3>2. Recall!StoreTyped' /\ Recall!OpsTyped' /\ Recall!Budgeted'
      BY <3>1 DEF Recall!RecallInvariant, Recall!StoreTyped, Recall!OpsTyped, Recall!Budgeted
    <3>3. ASSUME NEW o \in Ops PROVE Recall!Sound(op[o])'
      BY <3>1
         DEF Recall!RecallInvariant, Recall!Sound, Recall!Pinned, Recall!Selected,
             Recall!Served, Recall!Grounded, Recall!StateAt, Recall!Allowed
    <3> QED BY <3>2, <3>3 DEF Recall!RecallInvariant
  <2> QED BY <2>1, <2>2, StoreKeeps DEF Recall!Next
<1>3. Recall!RecallInvariant => AnswersAreGrounded
  BY InvariantGrounds DEF AnswersAreGrounded
<1> QED BY <1>1, <1>2, <1>3, PTL DEF Recall!Spec
=============================================================================
