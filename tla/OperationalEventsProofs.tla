----------------------- MODULE OperationalEventsProofs -----------------------
(***************************************************************************)
(* Proofs about OperationalEvents, for any finite set of workers, any      *)
(* events of a log and any attempt budget.                                 *)
(***************************************************************************)
EXTENDS OperationalEvents, FiniteSetTheorems, TLAPS

\* One worker takes a step of its call.
CallStep(w) ==
  /\ worker' = [worker EXCEPT ![w] = worker'[w]]
  /\ worker'[w] \in Call

\* NoEvent is before every event, and sequence numbers are numbers.
LEMMA EventFacts ==
  /\ NoEvent \notin Events /\ NoEvent.seq = 0 /\ NoEvent.gen = NoGen
  /\ \A e \in Events \cup {NoEvent} : e.seq \in Nat
  /\ \A e \in Events : e.seq > 0
BY EventsAssumption, NoEventAssumption DEF NoEvent

\* An idle call is a call.
LEMMA IdleCallType == IdleCall \in Call /\ IdleCall.pc = "idle"
BY DEF IdleCall, Call

\* What replay reads from the log are events of the log.
LEMMA FirstAfterType ==
  ASSUME NEW floor
  PROVE  FirstAfter(floor) \subseteq log
BY DEF FirstAfter, After

\* The initial state satisfies the inductive invariant.
LEMMA InitEvents == Init => EventInvariant
<1> SUFFICES ASSUME Init PROVE EventInvariant
  OBVIOUS
<1> USE EventsAssumption DEF Init
<1>1. TypeOK
  BY IdleCallType DEF TypeOK
<1>2. HandledChain /\ SeenIsBehind /\ Handled \subseteq seen
  BY DEF HandledChain, SeenIsBehind, Handled
<1>3. \A w \in Workers : CallIsCurrent(w)
  BY IdleCallType DEF CallIsCurrent, At
<1>4. ASSUME NEW e \in Events
      PROVE  DeadLettering(e) = {} /\ failures[e] = 0 /\ e.seq > checkpoint.seq
  BY IdleCallType, EventFacts DEF DeadLettering, At
<1>5. AttemptsAreHeld
  <2>1. Cardinality({}) = 0
    BY FS_EmptySet
  <2>2. ASSUME NEW e \in Events
        PROVE  failures[e] < MaxAttempts + Cardinality(DeadLettering(e)) + crashes
    <3>1. failures[e] = 0 /\ Cardinality(DeadLettering(e)) = 0 /\ crashes = 0
      BY <1>4, <2>1
    <3> QED BY <3>1
  <2> QED BY <1>4, <2>2 DEF AttemptsAreHeld
<1> QED BY <1>1, <1>2, <1>3, <1>5 DEF EventInvariant

\* The step of one worker leaves the other calls alone.
LEMMA CallStepFacts ==
  ASSUME TypeOK, NEW w \in Workers, CallStep(w)
  PROVE  /\ worker' \in [Workers -> Call]
         /\ \A v \in Workers \ {w} : worker'[v] = worker[v]
BY DEF CallStep, TypeOK

\* The numbers of workers that prepare or dead-letter an event change by the
\* worker that steps only, and no worker does both.
LEMMA Counts ==
  ASSUME TypeOK, NEW w \in Workers, CallStep(w), NEW e
  PROVE  \E d \in Nat, p \in Nat :
           /\ Cardinality(Workers) \in Nat
           /\ Cardinality(DeadLettering(e)) = IF w \in DeadLettering(e) THEN d + 1 ELSE d
           /\ Cardinality(DeadLettering(e))' = IF w \in DeadLettering(e)' THEN d + 1 ELSE d
           /\ Cardinality(Preparing(e)) = IF w \in Preparing(e) THEN p + 1 ELSE p
           /\ Cardinality(Preparing(e))' = IF w \in Preparing(e)' THEN p + 1 ELSE p
           /\ Cardinality(DeadLettering(e)) + Cardinality(Preparing(e)) <= Cardinality(Workers)
<1> DEFINE D == DeadLettering(e)
           P == Preparing(e)
           DD == DeadLettering(e)'
           PP == Preparing(e)'
           d == Cardinality(D \ {w})
           p == Cardinality(P \ {w})
<1>0. \A v \in Workers \ {w} : worker'[v] = worker[v]
  BY CallStepFacts
<1>1. D \subseteq Workers /\ P \subseteq Workers /\ DD \subseteq Workers /\ PP \subseteq Workers
  BY DEF DeadLettering, Preparing
<1>2. D \cap P = {}
  BY DEF DeadLettering, Preparing, At
<1>3. DD \ {w} = D \ {w} /\ PP \ {w} = P \ {w}
  BY <1>0 DEF DeadLettering, Preparing, At
<1> HIDE DEF D, P, DD, PP
<1>4. IsFiniteSet(Workers) /\ IsFiniteSet(D) /\ IsFiniteSet(P) /\ IsFiniteSet(DD) /\ IsFiniteSet(PP)
  BY <1>1, FS_Subset, EventsAssumption
<1>5. ASSUME NEW S, IsFiniteSet(S)
      PROVE  /\ Cardinality(S) \in Nat /\ Cardinality(S \ {w}) \in Nat
             /\ Cardinality(S) = IF w \in S THEN Cardinality(S \ {w}) + 1
                                 ELSE Cardinality(S \ {w})
  <2>1. Cardinality(S) \in Nat
    BY <1>5, FS_CardinalityType
  <2>2. IsFiniteSet(S \ {w}) /\ Cardinality(S \ {w}) =
          IF w \in S THEN Cardinality(S) - 1 ELSE Cardinality(S)
    BY <1>5, FS_RemoveElement
  <2>3. Cardinality(S \ {w}) \in Nat
    BY <2>2, FS_CardinalityType
  <2> QED BY <2>1, <2>2, <2>3
<1>6. Cardinality(D) + Cardinality(P) <= Cardinality(Workers)
  <2>1. IsFiniteSet(D \cup P) /\ Cardinality(D \cup P) =
          Cardinality(D) + Cardinality(P) - Cardinality(D \cap P)
    BY <1>4, FS_Union
  <2>2. Cardinality(D \cap P) = 0
    BY <1>2, FS_EmptySet
  <2>3. Cardinality(D \cup P) <= Cardinality(Workers)
    BY <1>1, <1>4, FS_Subset
  <2>4. Cardinality(D) \in Nat /\ Cardinality(P) \in Nat
    BY <1>4, <1>5
  <2> QED BY <2>1, <2>2, <2>3, <2>4
<1>7. /\ d \in Nat /\ Cardinality(D) = IF w \in D THEN d + 1 ELSE d
      /\ Cardinality(DD) = IF w \in DD THEN d + 1 ELSE d
  <2>1. d = Cardinality(D \ {w}) /\ d = Cardinality(DD \ {w})
    BY <1>3
  <2> QED BY <1>4, <1>5, <2>1
<1>8. /\ p \in Nat /\ Cardinality(P) = IF w \in P THEN p + 1 ELSE p
      /\ Cardinality(PP) = IF w \in PP THEN p + 1 ELSE p
  <2>1. p = Cardinality(P \ {w}) /\ p = Cardinality(PP \ {w})
    BY <1>3
  <2> QED BY <1>4, <1>5, <2>1
<1>9. Cardinality(Workers) \in Nat
  BY <1>4, <1>5
<1> HIDE DEF d, p
<1> QED BY <1>6, <1>7, <1>8, <1>9 DEF D, P, DD, PP

\* A step that neither fails an attempt nor moves the checkpoint keeps the
\* count of attempts: a worker gives up a dead letter by dying or because the
\* event is handled, and starts to prepare only an event that is due.
LEMMA HeldQuiet ==
  ASSUME TypeOK, AttemptsAreHeld, NEW w \in Workers, CallStep(w),
         UNCHANGED <<checkpoint, failures>>, crashes' \in {crashes, crashes + 1},
         At(w, "dead_letter") =>
           crashes' = crashes + 1 \/ worker[w].event.seq <= checkpoint.seq,
         worker'[w].pc = "prepare" => worker'[w].event.seq > checkpoint.seq
  PROVE  AttemptsAreHeld'
<1> SUFFICES ASSUME NEW e \in Events
             PROVE  (IF e.seq > checkpoint.seq
                     THEN failures[e] < MaxAttempts + Cardinality(DeadLettering(e)) + crashes
                     ELSE failures[e] + Cardinality(Preparing(e))
                            < MaxAttempts + Cardinality(Workers) + crashes)'
  BY DEF AttemptsAreHeld
<1>1. PICK d \in Nat, p \in Nat :
        /\ Cardinality(Workers) \in Nat
        /\ Cardinality(DeadLettering(e)) = IF w \in DeadLettering(e) THEN d + 1 ELSE d
        /\ Cardinality(DeadLettering(e))' = IF w \in DeadLettering(e)' THEN d + 1 ELSE d
        /\ Cardinality(Preparing(e)) = IF w \in Preparing(e) THEN p + 1 ELSE p
        /\ Cardinality(Preparing(e))' = IF w \in Preparing(e)' THEN p + 1 ELSE p
  BY Counts
<1>2. IF e.seq > checkpoint.seq
      THEN failures[e] < MaxAttempts + Cardinality(DeadLettering(e)) + crashes
      ELSE failures[e] + Cardinality(Preparing(e))
             < MaxAttempts + Cardinality(Workers) + crashes
  BY DEF AttemptsAreHeld
<1>3. e.seq \in Nat /\ checkpoint.seq \in Nat /\ failures[e] \in Nat /\ crashes \in Nat
      /\ MaxAttempts \in Nat
  BY EventFacts, EventsAssumption DEF TypeOK
<1>4. w \in DeadLettering(e) /\ e.seq > checkpoint.seq => crashes' = crashes + 1
  <2>1. w \in DeadLettering(e) => At(w, "dead_letter") /\ worker[w].event = e
    BY DEF DeadLettering
  <2> QED BY <2>1, <1>3
<1>5. w \in Preparing(e)' => e.seq > checkpoint.seq
  BY DEF Preparing, At
<1>6. CASE e.seq > checkpoint.seq
  <2>1. crashes' \in Nat /\ crashes <= crashes'
    BY <1>3
  <2>2. Cardinality(DeadLettering(e)) \in Nat /\ Cardinality(DeadLettering(e))' \in Nat
    BY <1>1
  <2>3. Cardinality(DeadLettering(e)) + crashes <= Cardinality(DeadLettering(e))' + crashes'
    <3>1. CASE w \in DeadLettering(e)
      <4>1. crashes' = crashes + 1
        BY <1>4, <1>6, <3>1
      <4>2. Cardinality(DeadLettering(e)) <= Cardinality(DeadLettering(e))' + 1
        BY <1>1, <2>2, <3>1
      <4> QED BY <1>3, <2>2, <4>1, <4>2
    <3>2. CASE w \notin DeadLettering(e)
      <4>1. Cardinality(DeadLettering(e)) <= Cardinality(DeadLettering(e))'
        BY <1>1, <2>2, <3>2
      <4> QED BY <1>3, <2>1, <2>2, <4>1
    <3> QED BY <3>1, <3>2
  <2>4. failures[e] < MaxAttempts + Cardinality(DeadLettering(e))' + crashes'
    BY <1>2, <1>3, <1>6, <2>2, <2>3
  <2> QED BY <2>4, <1>6
<1>7. CASE ~(e.seq > checkpoint.seq)
  <2>1. Cardinality(Preparing(e))' <= Cardinality(Preparing(e))
    BY <1>1, <1>5, <1>7
  <2>2. Cardinality(Preparing(e)) \in Nat /\ Cardinality(Preparing(e))' \in Nat
    BY <1>1
  <2>3. failures[e] + Cardinality(Preparing(e))' < MaxAttempts + Cardinality(Workers) + crashes'
    BY <1>1, <1>2, <1>3, <1>7, <2>1, <2>2
  <2> QED BY <2>3, <1>7
<1> QED BY <1>6, <1>7

\* A step that hands the next event to the checkpoint: the attempts on that
\* event were those of the workers at its dead letter, and the ones that still
\* prepare it are others.
LEMMA HeldAdvance ==
  ASSUME TypeOK, AttemptsAreHeld, NEW w \in Workers, CallStep(w), TypeOK',
         checkpoint'.seq = checkpoint.seq + 1, crashes' = crashes,
         \A e \in Events : failures'[e] <= failures[e],
         At(w, "dead_letter") => worker[w].event.seq = checkpoint'.seq,
         worker'[w].pc = "next"
  PROVE  AttemptsAreHeld'
<1> SUFFICES ASSUME NEW e \in Events
             PROVE  (IF e.seq > checkpoint.seq
                     THEN failures[e] < MaxAttempts + Cardinality(DeadLettering(e)) + crashes
                     ELSE failures[e] + Cardinality(Preparing(e))
                            < MaxAttempts + Cardinality(Workers) + crashes)'
  BY DEF AttemptsAreHeld
<1>1. PICK d \in Nat, p \in Nat :
        /\ Cardinality(Workers) \in Nat
        /\ Cardinality(DeadLettering(e)) = IF w \in DeadLettering(e) THEN d + 1 ELSE d
        /\ Cardinality(DeadLettering(e))' = IF w \in DeadLettering(e)' THEN d + 1 ELSE d
        /\ Cardinality(Preparing(e)) = IF w \in Preparing(e) THEN p + 1 ELSE p
        /\ Cardinality(Preparing(e))' = IF w \in Preparing(e)' THEN p + 1 ELSE p
        /\ Cardinality(DeadLettering(e)) + Cardinality(Preparing(e)) <= Cardinality(Workers)
  BY Counts
<1>2. IF e.seq > checkpoint.seq
      THEN failures[e] < MaxAttempts + Cardinality(DeadLettering(e)) + crashes
      ELSE failures[e] + Cardinality(Preparing(e))
             < MaxAttempts + Cardinality(Workers) + crashes
  BY DEF AttemptsAreHeld
<1>3. /\ e.seq \in Nat /\ checkpoint.seq \in Nat /\ checkpoint'.seq \in Nat
      /\ failures[e] \in Nat /\ failures'[e] \in Nat /\ failures'[e] <= failures[e]
      /\ crashes \in Nat /\ MaxAttempts \in Nat
  BY EventFacts, EventsAssumption DEF TypeOK
<1>4. w \in DeadLettering(e) => e.seq = checkpoint'.seq
  BY DEF DeadLettering
<1>5. w \notin Preparing(e)'
  BY DEF Preparing, At
<1>6. Cardinality(Preparing(e))' \in Nat /\ Cardinality(Preparing(e)) \in Nat
      /\ Cardinality(DeadLettering(e)) \in Nat /\ Cardinality(DeadLettering(e))' \in Nat
      /\ Cardinality(Preparing(e))' <= Cardinality(Preparing(e))
  BY <1>1, <1>5
<1>7. CASE e.seq > checkpoint'.seq
  <2>1. Cardinality(DeadLettering(e)) <= Cardinality(DeadLettering(e))'
    BY <1>1, <1>3, <1>4, <1>7
  <2>2. failures'[e] < MaxAttempts + Cardinality(DeadLettering(e))' + crashes
    BY <1>2, <1>3, <1>6, <1>7, <2>1
  <2> QED BY <2>2, <1>7
<1>8. CASE ~(e.seq > checkpoint'.seq)
  <2>1. failures[e] + Cardinality(Preparing(e)) < MaxAttempts + Cardinality(Workers) + crashes
    BY <1>1, <1>2, <1>3, <1>6
  <2>2. failures'[e] + Cardinality(Preparing(e))' < MaxAttempts + Cardinality(Workers) + crashes
    BY <1>1, <1>3, <1>6, <2>1
  <2> QED BY <2>2, <1>8
<1> QED BY <1>7, <1>8

\* A failed attempt: the worker leaves its preparation, for the dead letter
\* once the budget is used.
LEMMA HeldFailure ==
  ASSUME TypeOK, AttemptsAreHeld, NEW w \in Workers, CallStep(w),
         UNCHANGED <<checkpoint, crashes>>,
         worker[w].pc = "prepare", worker[w].event \in Events,
         worker'[w].event = worker[w].event,
         failures' = [failures EXCEPT ![worker[w].event] = @ + 1],
         worker'[w].pc = IF failures'[worker[w].event] < MaxAttempts
                         THEN "next" ELSE "dead_letter"
  PROVE  AttemptsAreHeld'
<1> SUFFICES ASSUME NEW e \in Events
             PROVE  (IF e.seq > checkpoint.seq
                     THEN failures[e] < MaxAttempts + Cardinality(DeadLettering(e)) + crashes
                     ELSE failures[e] + Cardinality(Preparing(e))
                            < MaxAttempts + Cardinality(Workers) + crashes)'
  BY DEF AttemptsAreHeld
<1>1. PICK d \in Nat, p \in Nat :
        /\ Cardinality(Workers) \in Nat
        /\ Cardinality(DeadLettering(e)) = IF w \in DeadLettering(e) THEN d + 1 ELSE d
        /\ Cardinality(DeadLettering(e))' = IF w \in DeadLettering(e)' THEN d + 1 ELSE d
        /\ Cardinality(Preparing(e)) = IF w \in Preparing(e) THEN p + 1 ELSE p
        /\ Cardinality(Preparing(e))' = IF w \in Preparing(e)' THEN p + 1 ELSE p
  BY Counts
<1>2. IF e.seq > checkpoint.seq
      THEN failures[e] < MaxAttempts + Cardinality(DeadLettering(e)) + crashes
      ELSE failures[e] + Cardinality(Preparing(e))
             < MaxAttempts + Cardinality(Workers) + crashes
  BY DEF AttemptsAreHeld
<1>3. /\ e.seq \in Nat /\ checkpoint.seq \in Nat /\ failures[e] \in Nat /\ crashes \in Nat
      /\ MaxAttempts \in Nat
      /\ failures'[e] = IF worker[w].event = e THEN failures[e] + 1 ELSE failures[e]
  BY EventFacts, EventsAssumption DEF TypeOK
<1>4. /\ w \notin DeadLettering(e) /\ w \notin Preparing(e)'
      /\ w \in Preparing(e) <=> worker[w].event = e
      /\ w \in DeadLettering(e)' <=> worker[w].event = e /\ failures'[e] >= MaxAttempts
  <2>1. w \notin DeadLettering(e) /\ w \notin Preparing(e)'
        /\ (w \in Preparing(e) <=> worker[w].event = e)
    BY DEF DeadLettering, Preparing, At
  <2>2. w \in DeadLettering(e)' <=> worker[w].event = e /\ failures'[e] >= MaxAttempts
    BY <1>3 DEF DeadLettering, At
  <2> QED BY <2>1, <2>2
<1>5. Cardinality(Preparing(e))' \in Nat /\ Cardinality(Preparing(e)) \in Nat
      /\ Cardinality(DeadLettering(e)) \in Nat /\ Cardinality(DeadLettering(e))' \in Nat
  BY <1>1
<1>6. CASE e.seq > checkpoint.seq
  <2>1. failures'[e] < MaxAttempts + Cardinality(DeadLettering(e))' + crashes
    <3>1. CASE worker[w].event # e
      BY <1>1, <1>2, <1>3, <1>4, <1>6, <3>1
    <3>2. CASE worker[w].event = e /\ failures'[e] < MaxAttempts
      BY <1>3, <1>5, <3>2
    <3>3. CASE worker[w].event = e /\ failures'[e] >= MaxAttempts
      BY <1>1, <1>2, <1>3, <1>4, <1>5, <1>6, <3>3
    <3> QED BY <3>1, <3>2, <3>3, <1>3
  <2> QED BY <2>1, <1>6
<1>7. CASE ~(e.seq > checkpoint.seq)
  <2>1. failures'[e] + Cardinality(Preparing(e))' <= failures[e] + Cardinality(Preparing(e))
    BY <1>1, <1>3, <1>4, <1>5
  <2>2. failures'[e] + Cardinality(Preparing(e))' < MaxAttempts + Cardinality(Workers) + crashes
    BY <1>1, <1>2, <1>3, <1>5, <1>7, <2>1
  <2> QED BY <2>2, <1>7
<1> QED BY <1>6, <1>7

\* What another worker's locals say stays true while the checkpoint stays and
\* no attempt is taken back, and when the checkpoint moves up.
LEMMA OthersStayCurrent ==
  ASSUME EventInvariant, TypeOK', NEW v \in Workers, worker'[v] = worker[v],
         \/ checkpoint' = checkpoint /\ \A e \in Events : failures'[e] >= failures[e]
         \/ checkpoint'.seq > checkpoint.seq
  PROVE  CallIsCurrent(v)'
<1>1. CallIsCurrent(v)
  BY DEF EventInvariant
<1>2. /\ checkpoint.seq \in Nat /\ checkpoint'.seq \in Nat
      /\ failures \in [Events -> Nat] /\ failures' \in [Events -> Nat]
      /\ MaxAttempts \in Nat
      /\ worker[v].event \in Events \cup {NoEvent}
      /\ worker[v].event.seq \in Nat /\ worker[v].expected.seq \in Nat
  BY EventFacts, EventsAssumption DEF EventInvariant, TypeOK, Call
<1>3. CASE checkpoint' = checkpoint /\ \A e \in Events : failures'[e] >= failures[e]
  <2>1. At(v, "dead_letter") /\ worker[v].expected = checkpoint
          => failures'[worker[v].event] >= MaxAttempts
    <3> SUFFICES ASSUME At(v, "dead_letter"), worker[v].expected = checkpoint
                 PROVE  failures'[worker[v].event] >= MaxAttempts
      OBVIOUS
    <3>1. worker[v].event \in Events /\ failures[worker[v].event] >= MaxAttempts
      BY <1>1 DEF CallIsCurrent, At
    <3> QED BY <3>1, <1>2, <1>3
  <2> QED BY <1>1, <1>3, <2>1 DEF CallIsCurrent, At
<1>4. CASE checkpoint'.seq > checkpoint.seq
  <2>1. worker[v].pc \in {"prepare", "dead_letter"} =>
          worker[v].expected.seq < checkpoint'.seq /\ worker[v].expected # checkpoint'
    BY <1>1, <1>2, <1>4 DEF CallIsCurrent
  <2>2. At(v, "stale") => worker[v].event.seq <= checkpoint'.seq
    BY <1>1, <1>2, <1>4 DEF CallIsCurrent
  <2> QED BY <1>1, <1>2, <2>1, <2>2 DEF CallIsCurrent, At
<1> QED BY <1>3, <1>4

\* A step of one worker that leaves the store alone keeps the invariant when
\* that worker's own locals are true.
LEMMA QuietStep ==
  ASSUME EventInvariant, NEW w \in Workers, CallStep(w), UNCHANGED <<log, store>>,
         crashes' \in {crashes, crashes + 1}, crashes' <= MaxCrashes, CallIsCurrent(w)',
         At(w, "dead_letter") =>
           crashes' = crashes + 1 \/ worker[w].event.seq <= checkpoint.seq,
         worker'[w].pc = "prepare" => worker'[w].event.seq > checkpoint.seq
  PROVE  EventInvariant'
<1>0. TypeOK /\ AttemptsAreHeld
  BY DEF EventInvariant
<1>1. /\ worker' \in [Workers -> Call]
      /\ \A v \in Workers \ {w} : worker'[v] = worker[v]
  BY <1>0, CallStepFacts
<1>2. TypeOK'
  <2>1. crashes' \in 0 .. MaxCrashes
    BY <1>0, EventsAssumption DEF TypeOK
  <2> QED BY <1>0, <1>1, <2>1 DEF TypeOK, store
<1>3. AttemptsAreHeld'
  BY <1>0, HeldQuiet DEF store
<1>4. \A v \in Workers : CallIsCurrent(v)'
  <2>1. \A e \in Events : failures'[e] >= failures[e]
    BY <1>0 DEF TypeOK, store
  <2>2. ASSUME NEW v \in Workers \ {w} PROVE CallIsCurrent(v)'
    BY <1>1, <1>2, <2>1, OthersStayCurrent DEF store
  <2> QED BY <2>2
<1>5. (HandledChain /\ SeenIsBehind /\ Handled \subseteq seen
        /\ \A e \in dead : failures[e] >= MaxAttempts)'
  BY DEF EventInvariant, HandledChain, SeenIsBehind, Handled, store
<1> QED BY <1>2, <1>3, <1>4, <1>5 DEF EventInvariant
\* A worker that leaves its event behind has nothing to keep.
LEMMA NewCallIsCurrent ==
  ASSUME NEW w \in Workers, worker'[w].pc \in {"idle", "replay_log", "next"}
  PROVE  CallIsCurrent(w)'
BY DEF CallIsCurrent, At

\* The result of consume goes back to the loop with a smaller to-do list.
LEMMA ResultStep ==
  ASSUME TypeOK, NEW w \in Workers, NEW status, Result(w, status)
  PROVE  CallStep(w) /\ worker'[w].pc = "next" /\ worker'[w].event = worker[w].event
<1>1. worker[w] \in Call
  BY DEF TypeOK
<1>2. worker'[w] = [worker[w] EXCEPT !.pc = "next",
                      !.todo = IF status = "retry_later" THEN {} ELSE worker[w].todo]
  BY DEF Result, TypeOK
<1>3. worker'[w] \in Call
  BY <1>1, <1>2 DEF Call
<1>4. worker'[w].pc = "next" /\ worker'[w].event = worker[w].event
  BY <1>1, <1>2 DEF Call
<1>5. worker' = [worker EXCEPT ![w] = worker'[w]]
  BY <1>2 DEF Result, TypeOK
<1> QED BY <1>3, <1>4, <1>5 DEF CallStep

\* A jump changes the label only.
LEMMA GotoStep ==
  ASSUME TypeOK, NEW w \in Workers, Goto(w, "checkpoint") \/ Goto(w, "stale")
                                      \/ Goto(w, "dead_letter")
  PROVE  /\ CallStep(w)
         /\ worker'[w].event = worker[w].event /\ worker'[w].expected = worker[w].expected
         /\ Goto(w, "checkpoint") => worker'[w].pc = "checkpoint"
         /\ Goto(w, "stale") => worker'[w].pc = "stale"
         /\ Goto(w, "dead_letter") => worker'[w].pc = "dead_letter"
<1>1. worker[w] \in Call
  BY DEF TypeOK
<1>2. PICK pc \in {"checkpoint", "stale", "dead_letter"} : Goto(w, pc)
  OBVIOUS
<1>3. worker'[w] = [worker[w] EXCEPT !.pc = pc] /\ worker' = [worker EXCEPT ![w] = worker'[w]]
  BY <1>2 DEF Goto, TypeOK
<1>4. /\ worker'[w] \in Call /\ worker'[w].event = worker[w].event
      /\ worker'[w].expected = worker[w].expected /\ worker'[w].pc = pc
  BY <1>1, <1>2, <1>3 DEF Call
<1>5. ASSUME NEW q, Goto(w, q) PROVE worker'[w].pc = q
  BY <1>1, <1>5 DEF Goto, TypeOK, Call
<1> QED BY <1>3, <1>4, <1>5 DEF CallStep

\* AppendEvent: the log grows, and nobody has read it yet.
LEMMA AppendEventKeeps ==
  ASSUME EventInvariant, NEW e \in Events, AppendEvent(e)
  PROVE  EventInvariant'
<1>1. TypeOK'
  BY DEF EventInvariant, TypeOK, AppendEvent, store
<1>2. (HandledChain /\ SeenIsBehind /\ Handled \subseteq seen
        /\ \A f \in dead : failures[f] >= MaxAttempts)'
  BY DEF EventInvariant, HandledChain, SeenIsBehind, Handled, AppendEvent, store
<1>3. \A w \in Workers : CallIsCurrent(w)'
  BY DEF EventInvariant, CallIsCurrent, At, AppendEvent, store
<1>4. AttemptsAreHeld'
  BY DEF EventInvariant, AttemptsAreHeld, DeadLettering, Preparing, At, AppendEvent, store
<1> QED BY <1>1, <1>2, <1>3, <1>4 DEF EventInvariant

\* Deliver: consume is called with an event of the log.
LEMMA DeliverKeeps ==
  ASSUME EventInvariant, NEW w \in Workers, Deliver(w)
  PROVE  EventInvariant'
<1>0. TypeOK
  BY DEF EventInvariant
<1>1. PICK e \in log : worker' = [worker EXCEPT ![w] = [IdleCall EXCEPT !.pc = "next", !.todo = {e}]]
  BY DEF Deliver
<1>2. worker'[w] = [IdleCall EXCEPT !.pc = "next", !.todo = {e}]
  BY <1>0, <1>1 DEF TypeOK
<1>3. worker'[w] \in Call /\ worker'[w].pc = "next"
  <2>1. {e} \in SUBSET Events
    BY <1>0 DEF TypeOK
  <2> QED BY <2>1, <1>2, IdleCallType DEF Call
<1>4. CallStep(w)
  BY <1>1, <1>2, <1>3 DEF CallStep
<1>5. worker[w].pc = "idle" /\ UNCHANGED <<log, store, crashes>>
  BY DEF Deliver, At
<1>6. crashes' <= MaxCrashes
  BY <1>0, <1>5, EventsAssumption DEF TypeOK
<1> QED BY <1>3, <1>4, <1>5, <1>6, NewCallIsCurrent, QuietStep DEF At

\* StartReplay: replay reads the checkpoint.
LEMMA StartReplayKeeps ==
  ASSUME EventInvariant, NEW w \in Workers, StartReplay(w)
  PROVE  EventInvariant'
<1>0. TypeOK
  BY DEF EventInvariant
<1>2. /\ worker' = [worker EXCEPT ![w] = worker'[w]]
      /\ worker'[w] = [IdleCall EXCEPT !.pc = "replay_log", !.expected = checkpoint]
  BY <1>0 DEF StartReplay, TypeOK
<1>3. worker'[w] \in Call /\ worker'[w].pc = "replay_log"
  BY <1>0, <1>2, IdleCallType DEF Call, TypeOK
<1>5. worker[w].pc = "idle" /\ UNCHANGED <<log, store, crashes>>
  BY DEF StartReplay, At
<1>6. crashes' <= MaxCrashes
  BY <1>0, <1>5, EventsAssumption DEF TypeOK
<1>7. CallStep(w)
  BY <1>2, <1>3 DEF CallStep
<1> QED BY <1>3, <1>5, <1>6, <1>7, NewCallIsCurrent, QuietStep DEF At

\* ReplayLog: replay reads the log.
LEMMA ReplayLogKeeps ==
  ASSUME EventInvariant, NEW w \in Workers, ReplayLog(w)
  PROVE  EventInvariant'
<1>0. TypeOK /\ worker[w] \in Call
  BY DEF EventInvariant, TypeOK
<1> DEFINE todo == FirstAfter(worker[w].expected.seq)
<1>1. todo \subseteq Events
  BY <1>0, FirstAfterType DEF TypeOK
<1>2. /\ worker' = [worker EXCEPT ![w] = worker'[w]]
      /\ worker'[w] = [worker[w] EXCEPT !.pc = "next", !.todo = todo]
  BY <1>0 DEF ReplayLog, TypeOK
<1> HIDE DEF todo
<1>3. worker'[w] \in Call /\ worker'[w].pc = "next"
  BY <1>0, <1>1, <1>2 DEF Call
<1>5. worker[w].pc = "replay_log" /\ UNCHANGED <<log, store, crashes>>
  BY DEF ReplayLog, At
<1>6. crashes' <= MaxCrashes
  BY <1>0, <1>5, EventsAssumption DEF TypeOK
<1>7. CallStep(w)
  BY <1>2, <1>3 DEF CallStep
<1> QED BY <1>3, <1>5, <1>6, <1>7, NewCallIsCurrent, QuietStep DEF At

\* NextEvent: the loop takes the next event or ends.
LEMMA NextEventKeeps ==
  ASSUME EventInvariant, NEW w \in Workers, NextEvent(w)
  PROVE  EventInvariant'
<1>0. TypeOK /\ worker[w] \in Call
  BY DEF EventInvariant, TypeOK
<1>1. worker[w].pc = "next" /\ UNCHANGED <<log, store, crashes>>
  BY DEF NextEvent, At
<1>2. crashes' <= MaxCrashes
  BY <1>0, <1>1, EventsAssumption DEF TypeOK
<1>3. CASE worker[w].todo = {}
  <2>1. /\ worker' = [worker EXCEPT ![w] = worker'[w]]
        /\ worker'[w] = [worker[w] EXCEPT !.pc = "idle", !.event = NoEvent, !.expected = NoEvent]
    BY <1>0, <1>3 DEF NextEvent, TypeOK
  <2>2. worker'[w] \in Call /\ worker'[w].pc = "idle"
    BY <1>0, <2>1 DEF Call
  <2>3. CallStep(w)
    BY <2>1, <2>2 DEF CallStep
  <2> QED BY <1>1, <1>2, <2>2, <2>3, NewCallIsCurrent, QuietStep DEF At
<1>4. CASE worker[w].todo # {}
  <2>1. PICK e \in worker[w].todo :
          worker' = [worker EXCEPT ![w].pc = "seen", ![w].event = e,
                       ![w].todo = @ \ {e}, ![w].expected = NoEvent]
    BY <1>4 DEF NextEvent
  <2>2. /\ worker' = [worker EXCEPT ![w] = worker'[w]]
        /\ worker'[w] = [worker[w] EXCEPT !.pc = "seen", !.event = e,
                           !.todo = worker[w].todo \ {e}, !.expected = NoEvent]
    BY <1>0, <2>1 DEF TypeOK
  <2>3. e \in Events /\ worker[w].todo \ {e} \in SUBSET Events
    BY <1>0 DEF Call
  <2>4. worker'[w] \in Call /\ worker'[w].pc = "seen" /\ worker'[w].event = e
    BY <1>0, <2>2, <2>3 DEF Call
  <2>5. CallStep(w)
    BY <2>2, <2>4 DEF CallStep
  <2>6. CallIsCurrent(w)'
    BY <2>3, <2>4 DEF CallIsCurrent, At
  <2> QED BY <1>1, <1>2, <2>4, <2>5, <2>6, QuietStep DEF At
<1> QED BY <1>3, <1>4
\* Crash: a worker dies, perhaps with a dead letter that it owes.
LEMMA CrashKeeps ==
  ASSUME EventInvariant, NEW w \in Workers, Crash(w)
  PROVE  EventInvariant'
<1>0. TypeOK
  BY DEF EventInvariant
<1>1. worker' = [worker EXCEPT ![w] = worker'[w]] /\ worker'[w] = IdleCall
  BY <1>0 DEF Crash, TypeOK
<1>2. crashes' = crashes + 1 /\ crashes' <= MaxCrashes /\ UNCHANGED <<log, store>>
  BY <1>0, EventsAssumption DEF Crash, TypeOK
<1>3. CallStep(w) /\ worker'[w].pc = "idle"
  BY <1>1, IdleCallType DEF CallStep
<1> QED BY <1>2, <1>3, NewCallIsCurrent, QuietStep

\* CheckSeen: a duplicate ends the call.
LEMMA CheckSeenKeeps ==
  ASSUME EventInvariant, NEW w \in Workers, CheckSeen(w)
  PROVE  EventInvariant'
<1>0. TypeOK /\ CallIsCurrent(w)
  BY DEF EventInvariant
<1>1. worker[w].pc = "seen" /\ UNCHANGED <<log, store, crashes>>
  BY DEF CheckSeen, At
<1>2. crashes' <= MaxCrashes
  BY <1>0, <1>1, EventsAssumption DEF TypeOK
<1>3. CASE Result(w, "duplicate")
  <2>1. CallStep(w) /\ worker'[w].pc = "next"
    BY <1>0, <1>3, ResultStep
  <2> QED BY <1>1, <1>2, <2>1, NewCallIsCurrent, QuietStep DEF At
<1>4. CASE Goto(w, "checkpoint")
  <2>1. CallStep(w) /\ worker'[w].pc = "checkpoint" /\ worker'[w].event = worker[w].event
    BY <1>0, <1>4, GotoStep
  <2>2. CallIsCurrent(w)'
    BY <1>0, <1>1, <2>1 DEF CallIsCurrent, At
  <2> QED BY <1>1, <1>2, <2>1, <2>2, QuietStep DEF At
<1> QED BY <1>3, <1>4 DEF CheckSeen

\* ReadCheckpoint: the event is stale, not due, or the child of the
\* checkpoint that is read.
LEMMA ReadCheckpointKeeps ==
  ASSUME EventInvariant, NEW w \in Workers, ReadCheckpoint(w)
  PROVE  EventInvariant'
<1>0. TypeOK /\ CallIsCurrent(w) /\ worker[w] \in Call
  BY DEF EventInvariant, TypeOK
<1>1. worker[w].pc = "checkpoint" /\ UNCHANGED <<log, store, crashes>>
  BY DEF ReadCheckpoint, At
<1>2. crashes' <= MaxCrashes
  BY <1>0, <1>1, EventsAssumption DEF TypeOK
<1>3. /\ worker[w].event \in Events /\ worker[w].event.seq \in Nat
      /\ checkpoint \in Events \cup {NoEvent} /\ checkpoint.seq \in Nat
  BY <1>0, <1>1, EventFacts DEF CallIsCurrent, TypeOK
<1>4. CASE worker[w].event.seq < checkpoint.seq + 1 /\ Goto(w, "stale")
  <2>1. CallStep(w) /\ worker'[w].pc = "stale" /\ worker'[w].event = worker[w].event
    BY <1>0, <1>4, GotoStep
  <2>2. worker'[w].event.seq <= checkpoint'.seq
    BY <1>1, <1>3, <1>4, <2>1 DEF store
  <2>3. CallIsCurrent(w)'
    BY <1>3, <2>1, <2>2 DEF CallIsCurrent, At
  <2> QED BY <1>1, <1>2, <2>1, <2>3, QuietStep DEF At
<1>5. CASE Result(w, "retry_later")
  <2>1. CallStep(w) /\ worker'[w].pc = "next"
    BY <1>0, <1>5, ResultStep
  <2> QED BY <1>1, <1>2, <2>1, NewCallIsCurrent, QuietStep DEF At
<1>6. CASE /\ worker[w].event.seq = checkpoint.seq + 1 /\ worker[w].event.parent = checkpoint.gen
           /\ worker' = [worker EXCEPT ![w].pc = "prepare", ![w].expected = checkpoint]
  <2>1. /\ worker' = [worker EXCEPT ![w] = worker'[w]]
        /\ worker'[w] = [worker[w] EXCEPT !.pc = "prepare", !.expected = checkpoint]
    BY <1>0, <1>6 DEF TypeOK
  <2>2. /\ worker'[w] \in Call /\ worker'[w].pc = "prepare"
        /\ worker'[w].event = worker[w].event /\ worker'[w].expected = checkpoint
    BY <1>0, <1>3, <2>1 DEF Call
  <2>3. CallStep(w)
    BY <2>1, <2>2 DEF CallStep
  <2>4. CallIsCurrent(w)'
    BY <1>1, <1>3, <1>6, <2>2 DEF CallIsCurrent, At, store
  <2>5. worker'[w].event.seq > checkpoint.seq
    BY <1>3, <1>6, <2>2
  <2> QED BY <1>1, <1>2, <2>3, <2>4, <2>5, QuietStep DEF At
<1>7. \/ worker[w].event.seq < checkpoint.seq + 1 /\ Goto(w, "stale")
      \/ Result(w, "retry_later")
      \/ /\ worker[w].event.seq = checkpoint.seq + 1 /\ worker[w].event.parent = checkpoint.gen
         /\ worker' = [worker EXCEPT ![w].pc = "prepare", ![w].expected = checkpoint]
  <2>1. CASE worker[w].event.seq < checkpoint.seq + 1
    BY <1>3, <2>1 DEF ReadCheckpoint
  <2>2. CASE worker[w].event.seq > checkpoint.seq + 1
    BY <1>3, <2>2 DEF ReadCheckpoint
  <2>3. CASE worker[w].event.seq = checkpoint.seq + 1
    BY <1>3, <2>3 DEF ReadCheckpoint
  <2> QED BY <1>3, <2>1, <2>2, <2>3
<1> QED BY <1>4, <1>5, <1>6, <1>7

\* AcknowledgeStale: the marker is for an event behind the checkpoint.
LEMMA AcknowledgeStaleKeeps ==
  ASSUME EventInvariant, NEW w \in Workers, AcknowledgeStale(w)
  PROVE  EventInvariant'
<1>0. TypeOK /\ CallIsCurrent(w) /\ AttemptsAreHeld
  BY DEF EventInvariant
<1>1. /\ worker[w].pc = "stale" /\ seen' = seen \cup {worker[w].event}
      /\ UNCHANGED <<log, checkpoint, failures, effects, dead, crashes>>
  BY DEF AcknowledgeStale, At
<1>2. CallStep(w) /\ worker'[w].pc = "next"
  BY <1>0, ResultStep DEF AcknowledgeStale
<1>3. /\ worker' \in [Workers -> Call]
      /\ \A v \in Workers \ {w} : worker'[v] = worker[v]
  BY <1>0, <1>2, CallStepFacts
<1>4. worker[w].event \in Events /\ worker[w].event.seq <= checkpoint.seq
  BY <1>0, <1>1 DEF CallIsCurrent, At
<1>5. TypeOK'
  BY <1>0, <1>1, <1>3, <1>4 DEF TypeOK
<1>6. AttemptsAreHeld'
  BY <1>0, <1>1, <1>2, HeldQuiet DEF At
<1>7. \A v \in Workers : CallIsCurrent(v)'
  <2>1. \A e \in Events : failures'[e] >= failures[e]
    BY <1>0, <1>1 DEF TypeOK
  <2>2. ASSUME NEW v \in Workers \ {w} PROVE CallIsCurrent(v)'
    BY <1>1, <1>3, <1>5, <2>1, OthersStayCurrent
  <2> QED BY <1>2, <2>2, NewCallIsCurrent
<1>8. (HandledChain /\ SeenIsBehind /\ Handled \subseteq seen
        /\ \A e \in dead : failures[e] >= MaxAttempts)'
  BY <1>1, <1>4 DEF EventInvariant, HandledChain, SeenIsBehind, Handled
<1> QED BY <1>5, <1>6, <1>7, <1>8 DEF EventInvariant
\* The child of the checkpoint is a new event, and handling it makes the chain
\* one longer.
LEMMA ChainAdvance ==
  ASSUME EventInvariant, NEW e \in Events,
         e.seq = checkpoint.seq + 1, e.parent = checkpoint.gen,
         checkpoint' = e, seen' = seen \cup {e},
         \/ effects' = effects \cup {e} /\ dead' = dead
         \/ dead' = dead \cup {e} /\ effects' = effects
  PROVE  /\ e \notin Handled
         /\ HandledChain' /\ SeenIsBehind' /\ (Handled \subseteq seen)'
<1>0. TypeOK /\ HandledChain /\ SeenIsBehind /\ Handled \subseteq seen
  BY DEF EventInvariant
<1>1. /\ checkpoint \in Events \cup {NoEvent} /\ checkpoint.seq \in Nat /\ e.seq \in Nat
      /\ Handled \subseteq Events /\ seen \subseteq Events
      /\ \A f \in Events : f.seq \in Nat /\ f.seq > 0
  BY <1>0, EventFacts DEF TypeOK, Handled
<1>2. Handled' = Handled \cup {e}
  BY DEF Handled
<1>3. \A f \in Handled : f.seq <= checkpoint.seq /\ f.seq < e.seq
  BY <1>0, <1>1 DEF HandledChain
<1>4. e \notin Handled
  BY <1>1, <1>3
<1>5. HandledChain'
  <2>1. (effects \cap dead = {})'
    BY <1>0, <1>4 DEF HandledChain, Handled
  <2>2. \A f \in Handled' : f.seq <= e.seq
    BY <1>1, <1>2, <1>3
  <2>3. \A f \in Handled', g \in Handled' : f.seq = g.seq => f = g
    BY <1>0, <1>1, <1>2, <1>3 DEF HandledChain
  <2>4. ASSUME NEW f \in Handled'
        PROVE  IF f.seq = 1 THEN f.parent = NoGen
               ELSE \E g \in Handled' : g.seq + 1 = f.seq /\ g.gen = f.parent
    <3>1. CASE f \in Handled
      BY <1>0, <1>2, <3>1 DEF HandledChain
    <3>2. CASE f = e /\ checkpoint = NoEvent
      BY <1>1, <3>2, EventFacts
    <3>3. CASE f = e /\ checkpoint # NoEvent
      <4>1. checkpoint \in Handled /\ checkpoint \in Events
        BY <1>0, <1>1, <3>3 DEF HandledChain
      <4>2. e.seq # 1
        BY <1>1, <4>1
      <4> QED BY <1>2, <3>3, <4>1, <4>2
    <3> QED BY <1>2, <2>4, <3>1, <3>2, <3>3
  <2> QED BY <1>2, <2>1, <2>2, <2>3, <2>4 DEF HandledChain
<1>6. SeenIsBehind'
  <2>1. ASSUME NEW f \in seen PROVE f.seq <= e.seq
    <3>1. f.seq <= checkpoint.seq
      BY <1>0, <1>3 DEF SeenIsBehind
    <3> QED BY <1>1, <3>1
  <2> QED BY <1>1, <1>2, <2>1 DEF SeenIsBehind
<1>7. (Handled \subseteq seen)'
  BY <1>0, <1>2
<1> QED BY <1>4, <1>5, <1>6, <1>7

\* Commit: the effect, the marker and the checkpoint together, or nothing.
LEMMA CommitKeeps ==
  ASSUME EventInvariant, NEW w \in Workers, Commit(w)
  PROVE  EventInvariant'
<1> DEFINE e == worker[w].event
<1>0. TypeOK /\ CallIsCurrent(w) /\ AttemptsAreHeld /\ Handled \subseteq seen
  BY DEF EventInvariant
<1>1. worker[w].pc = "prepare" /\ UNCHANGED <<log, crashes>>
  BY DEF Commit, At
<1>2. crashes' <= MaxCrashes
  BY <1>0, <1>1, EventsAssumption DEF TypeOK
<1>3. /\ e \in Events /\ e.seq = worker[w].expected.seq + 1
      /\ e.parent = worker[w].expected.gen
  BY <1>0, <1>1 DEF CallIsCurrent
<1>4. CASE UNCHANGED store
  <2>1. Result(w, "processed") \/ Result(w, "retry_later")
    BY DEF Commit
  <2>2. CallStep(w) /\ worker'[w].pc = "next"
    BY <1>0, <2>1, ResultStep
  <2> QED BY <1>1, <1>2, <1>4, <2>2, NewCallIsCurrent, QuietStep DEF At
<1>5. CASE /\ e \notin seen /\ checkpoint = worker[w].expected
           /\ effects' = effects \cup {e} /\ seen' = seen \cup {e}
           /\ failures' = [failures EXCEPT ![e] = 0] /\ checkpoint' = e
           /\ Result(w, "processed") /\ UNCHANGED dead
  <2>1. CallStep(w) /\ worker'[w].pc = "next"
    BY <1>0, <1>5, ResultStep
  <2>2. /\ worker' \in [Workers -> Call]
        /\ \A v \in Workers \ {w} : worker'[v] = worker[v]
    BY <1>0, <2>1, CallStepFacts
  <2>3. TypeOK'
    <3>1. failures' \in [Events -> Nat]
      BY <1>0, <1>5 DEF TypeOK
    <3> QED BY <1>0, <1>1, <1>3, <1>5, <2>2, <3>1 DEF TypeOK
  <2>4. checkpoint.seq \in Nat /\ checkpoint'.seq = checkpoint.seq + 1
        /\ checkpoint'.seq > checkpoint.seq
    BY <1>0, <1>3, <1>5, EventFacts DEF TypeOK
  <2>5. HandledChain' /\ SeenIsBehind' /\ (Handled \subseteq seen)'
    BY <1>3, <1>5, ChainAdvance
  <2>6. (\A f \in dead : failures[f] >= MaxAttempts)'
    <3>1. ASSUME NEW f \in dead PROVE failures'[f] >= MaxAttempts
      <4>1. f # e /\ f \in Events /\ failures[f] >= MaxAttempts
        BY <1>0, <1>5 DEF EventInvariant, Handled, TypeOK
      <4> QED BY <1>0, <1>5, <4>1 DEF TypeOK
    <3> QED BY <1>5, <3>1
  <2>7. AttemptsAreHeld'
    <3>1. \A f \in Events : failures'[f] <= failures[f]
      BY <1>0, <1>5 DEF TypeOK
    <3> QED BY <1>0, <1>1, <2>1, <2>3, <2>4, <3>1, HeldAdvance DEF At
  <2>8. \A v \in Workers : CallIsCurrent(v)'
    <3>1. ASSUME NEW v \in Workers \ {w} PROVE CallIsCurrent(v)'
      BY <2>2, <2>3, <2>4, OthersStayCurrent
    <3> QED BY <2>1, <3>1, NewCallIsCurrent
  <2> QED BY <2>3, <2>5, <2>6, <2>7, <2>8 DEF EventInvariant
<1> QED BY <1>4, <1>5 DEF Commit

\* RecordFailure: an attempt is counted, and the last one of the budget leads
\* to the dead letter.
LEMMA RecordFailureKeeps ==
  ASSUME EventInvariant, NEW w \in Workers, RecordFailure(w)
  PROVE  EventInvariant'
<1> DEFINE e == worker[w].event
<1>0. TypeOK /\ CallIsCurrent(w) /\ AttemptsAreHeld
  BY DEF EventInvariant
<1>1. /\ worker[w].pc = "prepare" /\ failures' = [failures EXCEPT ![e] = @ + 1]
      /\ UNCHANGED <<log, seen, checkpoint, effects, dead, crashes>>
  BY DEF RecordFailure, At
<1>2. e \in Events
  BY <1>0, <1>1 DEF CallIsCurrent
<1>3. /\ CallStep(w) /\ worker'[w].event = e
      /\ worker'[w].pc = IF failures'[e] < MaxAttempts THEN "next" ELSE "dead_letter"
      /\ ~(failures'[e] < MaxAttempts) => worker'[w].expected = worker[w].expected
  <2>1. CASE failures'[e] < MaxAttempts
    <3>1. Result(w, "retry_later")
      BY <2>1 DEF RecordFailure
    <3> QED BY <1>0, <2>1, <3>1, ResultStep
  <2>2. CASE ~(failures'[e] < MaxAttempts)
    <3>1. Goto(w, "dead_letter")
      BY <2>2 DEF RecordFailure
    <3> QED BY <1>0, <2>2, <3>1, GotoStep
  <2> QED BY <2>1, <2>2
<1>4. /\ worker' \in [Workers -> Call]
      /\ \A v \in Workers \ {w} : worker'[v] = worker[v]
  BY <1>0, <1>3, CallStepFacts
<1>5. failures' \in [Events -> Nat] /\ \A f \in Events : failures'[f] >= failures[f]
  BY <1>0, <1>1, <1>2 DEF TypeOK
<1>6. TypeOK'
  BY <1>0, <1>1, <1>4, <1>5 DEF TypeOK
<1>7. (HandledChain /\ SeenIsBehind /\ Handled \subseteq seen)'
  BY <1>1 DEF EventInvariant, HandledChain, SeenIsBehind, Handled
<1>8. (\A f \in dead : failures[f] >= MaxAttempts)'
  <2>1. ASSUME NEW f \in dead PROVE failures'[f] >= MaxAttempts
    <3>1. f \in Events /\ failures[f] >= MaxAttempts /\ failures[f] \in Nat
      BY <1>0 DEF EventInvariant, TypeOK
    <3> QED BY <1>5, <3>1, EventsAssumption
  <2> QED BY <1>1, <2>1
<1>9. AttemptsAreHeld'
  BY <1>0, <1>1, <1>2, <1>3, HeldFailure
<1>10. \A v \in Workers : CallIsCurrent(v)'
  <2>1. ASSUME NEW v \in Workers \ {w} PROVE CallIsCurrent(v)'
    BY <1>1, <1>4, <1>5, <1>6, OthersStayCurrent
  <2>2. CASE failures'[e] < MaxAttempts
    BY <1>3, <2>1, <2>2, NewCallIsCurrent
  <2>3. CASE ~(failures'[e] < MaxAttempts)
    <3>1. worker'[w].pc = "dead_letter" /\ worker'[w].event = e
          /\ worker'[w].expected = worker[w].expected
      BY <1>3, <2>3
    <3>2. failures'[e] >= MaxAttempts
      BY <1>2, <1>5, <2>3, EventsAssumption
    <3>3. CallIsCurrent(w)'
      BY <1>0, <1>1, <3>1, <3>2 DEF CallIsCurrent, At
    <3> QED BY <2>1, <3>3
  <2> QED BY <2>2, <2>3
<1> QED BY <1>6, <1>7, <1>8, <1>9, <1>10 DEF EventInvariant

\* DeadLetter: the poison event is handled, or the checkpoint has moved and
\* the event is behind it.
LEMMA DeadLetterKeeps ==
  ASSUME EventInvariant, NEW w \in Workers, DeadLetter(w)
  PROVE  EventInvariant'
<1> DEFINE e == worker[w].event
           x == worker[w].expected
<1>0. TypeOK /\ CallIsCurrent(w) /\ AttemptsAreHeld
  BY DEF EventInvariant
<1>1. worker[w].pc = "dead_letter" /\ UNCHANGED <<log, failures, effects, crashes>>
  BY DEF DeadLetter, At
<1>2. crashes' <= MaxCrashes
  BY <1>0, <1>1, EventsAssumption DEF TypeOK
<1>3. /\ e \in Events /\ e.seq = x.seq + 1 /\ e.parent = x.gen
      /\ x.seq <= checkpoint.seq /\ (x.seq = checkpoint.seq => x = checkpoint)
      /\ x = checkpoint => failures[e] >= MaxAttempts
  BY <1>0, <1>1 DEF CallIsCurrent, At
<1>4. x.seq \in Nat /\ checkpoint.seq \in Nat
  BY <1>0, EventFacts DEF TypeOK, Call
<1>5. CASE checkpoint # x
  <2>1. Result(w, "retry_later") /\ UNCHANGED <<seen, checkpoint, dead>>
    BY <1>5 DEF DeadLetter
  <2>2. CallStep(w) /\ worker'[w].pc = "next"
    BY <1>0, <2>1, ResultStep
  <2>3. e.seq <= checkpoint.seq
    BY <1>3, <1>4, <1>5
  <2>4. UNCHANGED <<log, store>> /\ crashes' \in {crashes, crashes + 1}
    BY <1>1, <2>1 DEF store
  <2> QED BY <1>2, <2>2, <2>3, <2>4, NewCallIsCurrent, QuietStep
<1>6. CASE checkpoint = x
  <2>0. /\ dead' = dead \cup {e} /\ seen' = seen \cup {e} /\ checkpoint' = e
        /\ Result(w, "dead_lettered")
    BY <1>6 DEF DeadLetter
  <2>1. CallStep(w) /\ worker'[w].pc = "next"
    BY <1>0, <2>0, ResultStep
  <2>2. /\ worker' \in [Workers -> Call]
        /\ \A v \in Workers \ {w} : worker'[v] = worker[v]
    BY <1>0, <2>1, CallStepFacts
  <2>3. TypeOK'
    BY <1>0, <1>1, <1>3, <2>0, <2>2 DEF TypeOK
  <2>4. checkpoint'.seq = checkpoint.seq + 1 /\ checkpoint'.seq > checkpoint.seq
    BY <1>3, <1>4, <1>6, <2>0
  <2>5. HandledChain' /\ SeenIsBehind' /\ (Handled \subseteq seen)'
    BY <1>1, <1>3, <1>6, <2>0, ChainAdvance
  <2>6. (\A f \in dead : failures[f] >= MaxAttempts)'
    BY <1>1, <1>3, <1>6, <2>0 DEF EventInvariant
  <2>7. AttemptsAreHeld'
    <3>1. \A f \in Events : failures'[f] <= failures[f]
      BY <1>0, <1>1 DEF TypeOK
    <3>2. worker[w].event.seq = checkpoint'.seq
      BY <2>0
    <3> QED BY <1>0, <1>1, <2>1, <2>3, <2>4, <3>1, <3>2, HeldAdvance
  <2>8. \A v \in Workers : CallIsCurrent(v)'
    <3>1. ASSUME NEW v \in Workers \ {w} PROVE CallIsCurrent(v)'
      BY <2>2, <2>3, <2>4, OthersStayCurrent
    <3> QED BY <2>1, <3>1, NewCallIsCurrent
  <2> QED BY <2>3, <2>5, <2>6, <2>7, <2>8 DEF EventInvariant
<1> QED BY <1>5, <1>6

\* A stuttering step keeps the invariant.
LEMMA StutterKeeps ==
  ASSUME EventInvariant, UNCHANGED vars
  PROVE  EventInvariant'
<1>1. UNCHANGED <<log, seen, checkpoint, failures, effects, dead, worker, crashes>>
  BY DEF vars, store
<1>2. TypeOK'
  BY <1>1 DEF EventInvariant, TypeOK
<1>3. (HandledChain /\ SeenIsBehind /\ Handled \subseteq seen
        /\ \A e \in dead : failures[e] >= MaxAttempts)'
  BY <1>1 DEF EventInvariant, HandledChain, SeenIsBehind, Handled
<1>4. \A w \in Workers : CallIsCurrent(w)'
  BY <1>1 DEF EventInvariant, CallIsCurrent, At
<1>5. AttemptsAreHeld'
  BY <1>1 DEF EventInvariant, AttemptsAreHeld, DeadLettering, Preparing, At
<1> QED BY <1>2, <1>3, <1>4, <1>5 DEF EventInvariant

\* Every step keeps the invariant.
LEMMA NextKeeps == EventInvariant /\ [Next]_vars => EventInvariant'
<1> SUFFICES ASSUME EventInvariant, [Next]_vars PROVE EventInvariant'
  OBVIOUS
<1>1. CASE \E e \in Events : AppendEvent(e)
  BY <1>1, AppendEventKeeps
<1>2. ASSUME NEW w \in Workers, Deliver(w) \/ StartReplay(w) \/ Step(w) \/ Crash(w)
      PROVE  EventInvariant'
  BY <1>2, DeliverKeeps, StartReplayKeeps, ReplayLogKeeps, NextEventKeeps, CheckSeenKeeps,
     ReadCheckpointKeeps, AcknowledgeStaleKeeps, CommitKeeps, RecordFailureKeeps,
     DeadLetterKeeps, CrashKeeps DEF Step
<1>3. CASE UNCHANGED vars
  BY <1>3, StutterKeeps
<1> QED BY <1>1, <1>2, <1>3 DEF Next

\* The inductive invariant implies what the run checks: the budget is
\* overdrawn by the workers at their dead letter or that died, at most.
LEMMA InvariantOrders == EventInvariant => EventsAreOrdered
<1> SUFFICES ASSUME EventInvariant PROVE AttemptBudget
  BY DEF EventInvariant, EventsAreOrdered
<1> SUFFICES ASSUME NEW e \in Events
             PROVE  failures[e] < MaxAttempts + Cardinality(Workers) + crashes
  BY DEF EventInvariant, AttemptBudget
<1>1. failures[e] \in Nat /\ crashes \in Nat /\ MaxAttempts \in Nat
  BY EventsAssumption DEF EventInvariant, TypeOK
<1>2. /\ DeadLettering(e) \subseteq Workers /\ Preparing(e) \subseteq Workers
      /\ IsFiniteSet(Workers)
  BY EventsAssumption DEF DeadLettering, Preparing
<1>3. /\ IsFiniteSet(DeadLettering(e)) /\ IsFiniteSet(Preparing(e))
      /\ Cardinality(DeadLettering(e)) <= Cardinality(Workers)
  BY <1>2, FS_Subset
<1>4. /\ Cardinality(DeadLettering(e)) \in Nat /\ Cardinality(Preparing(e)) \in Nat
      /\ Cardinality(Workers) \in Nat
  BY <1>2, <1>3, FS_CardinalityType
<1>5. CASE failures[e] < MaxAttempts + Cardinality(DeadLettering(e)) + crashes
  BY <1>1, <1>3, <1>4, <1>5
<1>6. CASE failures[e] + Cardinality(Preparing(e)) < MaxAttempts + Cardinality(Workers) + crashes
  BY <1>1, <1>4, <1>6
<1>7. AttemptsAreHeld
  BY DEF EventInvariant
<1> QED BY <1>5, <1>6, <1>7 DEF AttemptsAreHeld

\* Whichever workers race, die or replay, the handled events are one unbroken
\* chain of children that ends at the checkpoint, nothing is deduplicated
\* before its turn, and a dead letter has had its whole budget, overdrawn by
\* at most one attempt per worker and per crash (consume, replay and the
\* operations of the event store).
THEOREM EventsStayOrdered == Spec => []EventsAreOrdered
<1>1. Init => EventInvariant
  BY InitEvents
<1>2. EventInvariant /\ [Next]_vars => EventInvariant'
  BY NextKeeps
<1>3. EventInvariant => EventsAreOrdered
  BY InvariantOrders
<1> QED BY <1>1, <1>2, <1>3, PTL DEF Spec
=============================================================================
