-------------------------- MODULE OperationalEvents --------------------------
(***************************************************************************)
(* Operational events (memory_core/events.py): a deduplicating consumer    *)
(* with a monotonic checkpoint, its dead letters, and replay from the log. *)
(* Several workers run the same consumer of one workspace against one      *)
(* store; every call of the store takes its lock and is a step of its own. *)
(* The handler is external: preparing an effect succeeds or fails.         *)
(***************************************************************************)
EXTENDS Naturals, FiniteSets

CONSTANTS
  Workers,      \* threads that run consume or replay
  Events,       \* records [id, seq, gen, parent]: OperationalEvent
  NoGen,        \* parent_generation_id None
  MaxAttempts,  \* max_attempts of OperationalEventConsumer
  Limit,        \* limit of EventReplayCoordinator.replay
  MaxCrashes    \* bound: workers that die in the middle of a call

ASSUME EventsAssumption ==
  /\ \A e \in Events : e.id \in Nat /\ e.seq \in Nat \ {0}
  /\ \A e \in Events, f \in Events : e.id = f.id => e = f
  /\ MaxAttempts \in Nat \ {0} /\ Limit \in Nat \ {0} /\ MaxCrashes \in Nat
  /\ IsFiniteSet(Workers)

NoEvent == [id |-> 0, seq |-> 0, gen |-> NoGen, parent |-> NoGen]

ASSUME NoEventAssumption == \A e \in Events : e.id # 0

VARIABLES
  log,         \* InMemoryEventLog: the events appended so far
  seen,        \* store._seen
  checkpoint,  \* store._checkpoints: the last event, or NoEvent
  failures,    \* store._failures
  effects,     \* store._effects: the events with an effect
  dead,        \* store._dead_letters
  worker,      \* the locals of every worker's call
  crashes

store == <<seen, checkpoint, failures, effects, dead>>
vars  == <<log, store, worker, crashes>>

\* A worker's call: the events still to consume, the one being consumed
\* and the checkpoint it read.
Call == [pc : {"idle", "replay_log", "next", "seen", "checkpoint", "stale",
               "prepare", "dead_letter"},
         todo : SUBSET Events, event : Events \cup {NoEvent},
         expected : Events \cup {NoEvent}]

IdleCall == [pc |-> "idle", todo |-> {}, event |-> NoEvent,
             expected |-> NoEvent]

Init ==
  /\ log = {} /\ seen = {} /\ checkpoint = NoEvent
  /\ failures = [e \in Events |-> 0]
  /\ effects = {} /\ dead = {}
  /\ worker = [w \in Workers |-> IdleCall]
  /\ crashes = 0

At(w, pc)   == worker[w].pc = pc
Goto(w, pc) == worker' = [worker EXCEPT ![w].pc = pc]

\* InMemoryEventLog.append, in any order.
AppendEvent(e) ==
  /\ e \notin log
  /\ log' = log \cup {e}
  /\ UNCHANGED <<store, worker, crashes>>

\* Events after the floor, by (seq, event_id).
Before(e, f) == e.seq < f.seq \/ (e.seq = f.seq /\ e.id < f.id)

After(floor) == {e \in log : e.seq > floor}

\* The first Limit of them.
FirstAfter(floor) ==
  {e \in After(floor) : Cardinality({f \in After(floor) : Before(f, e)}) < Limit}

\* A delivery: consume called with any event of the log, again or out of order.
Deliver(w) ==
  /\ At(w, "idle")
  /\ \E e \in log :
       worker' = [worker EXCEPT ![w] = [IdleCall EXCEPT !.pc = "next",
                                                        !.todo = {e}]]
  /\ UNCHANGED <<log, store, crashes>>

\* replay reads the checkpoint and then the log.
StartReplay(w) ==
  /\ At(w, "idle")
  /\ worker' = [worker EXCEPT ![w] = [IdleCall EXCEPT !.pc = "replay_log",
                                                      !.expected = checkpoint]]
  /\ UNCHANGED <<log, store, crashes>>

\* Mutant: replay resumes after the event that follows the checkpoint.
Mut_ReplayLog(w) ==
  /\ At(w, "replay_log")
  /\ worker' = [worker EXCEPT ![w].pc = "next",
                  ![w].todo = FirstAfter(worker[w].expected.seq + 1)]
  /\ UNCHANGED <<log, store, crashes>>

ReplayLog(w) ==
  /\ At(w, "replay_log")
  /\ worker' = [worker EXCEPT ![w].pc = "next",
                  ![w].todo = FirstAfter(worker[w].expected.seq)]
  /\ UNCHANGED <<log, store, crashes>>

\* The loop of replay: the next event in order, or the end.
NextEvent(w) ==
  /\ At(w, "next")
  /\ IF worker[w].todo = {}
     THEN worker' = [worker EXCEPT ![w].pc = "idle", ![w].event = NoEvent,
                                   ![w].expected = NoEvent]
     ELSE \E e \in worker[w].todo :
            /\ \A f \in worker[w].todo : f = e \/ Before(e, f)
            /\ worker' = [worker EXCEPT ![w].pc = "seen", ![w].event = e,
                            ![w].todo = @ \ {e}, ![w].expected = NoEvent]
  /\ UNCHANGED <<log, store, crashes>>

\* consume returns a result; retry_later ends a replay.
Result(w, status) ==
  worker' = [worker EXCEPT ![w].pc = "next", ![w].todo = IF status = "retry_later" THEN {} ELSE @]

CheckSeen(w) ==
  /\ At(w, "seen")
  /\ IF worker[w].event \in seen THEN Result(w, "duplicate")
     ELSE Goto(w, "checkpoint")
  /\ UNCHANGED <<log, store, crashes>>

\* Mutant: an event of another lineage is acknowledged like a stale one.
Mut_ReadCheckpointGap(w) ==
  LET e == worker[w].event
  IN
  /\ At(w, "checkpoint")
  /\ IF e.seq = checkpoint.seq + 1 /\ e.parent = checkpoint.gen
     THEN worker' = [worker EXCEPT ![w].pc = "prepare", ![w].expected = checkpoint]
     ELSE Goto(w, "stale")
  /\ UNCHANGED <<log, store, crashes>>

\* The checkpoint is read; the event is stale, ahead, of another lineage, or
\* due.
ReadCheckpoint(w) ==
  LET e == worker[w].event
  IN
  /\ At(w, "checkpoint")
  /\ CASE e.seq < checkpoint.seq + 1 -> Goto(w, "stale")
       [] e.seq > checkpoint.seq + 1
          \/ (e.seq = checkpoint.seq + 1 /\ e.parent # checkpoint.gen)
            -> Result(w, "retry_later")
       [] OTHER -> worker' = [worker EXCEPT ![w].pc = "prepare",
                                            ![w].expected = checkpoint]
  /\ UNCHANGED <<log, store, crashes>>

\* Mutant: the marker is for the checkpoint, which is not an event of the log.
Mut_AcknowledgeStale(w) ==
  /\ At(w, "stale")
  /\ seen' = seen \cup {worker[w].expected}
  /\ Result(w, "ignored_stale")
  /\ UNCHANGED <<log, checkpoint, failures, effects, dead, crashes>>

AcknowledgeStale(w) ==
  /\ At(w, "stale")
  /\ seen' = seen \cup {worker[w].event}
  /\ Result(w, "ignored_stale")
  /\ UNCHANGED <<log, checkpoint, failures, effects, dead, crashes>>

\* Mutant: the commit does not compare the checkpoint.
Mut_Commit(w) ==
  LET e == worker[w].event
  IN
  /\ At(w, "prepare")
  /\ IF e \in seen THEN Result(w, "processed") /\ UNCHANGED store
     ELSE /\ effects' = effects \cup {e}
          /\ seen' = seen \cup {e}
          /\ failures' = [failures EXCEPT ![e] = 0]
          /\ checkpoint' = e
          /\ Result(w, "processed")
          /\ UNCHANGED dead
  /\ UNCHANGED <<log, crashes>>

\* The handler has prepared an effect: the effect, the dedupe marker and the
\* checkpoint are committed together, unless the checkpoint has moved.
Commit(w) ==
  LET e == worker[w].event
  IN
  /\ At(w, "prepare")
  /\ CASE e \in seen -> Result(w, "processed") /\ UNCHANGED store
       [] e \notin seen /\ checkpoint # worker[w].expected ->
            Result(w, "retry_later") /\ UNCHANGED store
       [] OTHER ->
            /\ effects' = effects \cup {e}
            /\ seen' = seen \cup {e}
            /\ failures' = [failures EXCEPT ![e] = 0]
            /\ checkpoint' = e
            /\ Result(w, "processed")
            /\ UNCHANGED dead
  /\ UNCHANGED <<log, crashes>>

\* Mutant: one attempt too few.
Mut_RecordFailure(w) ==
  LET e == worker[w].event
  IN
  /\ At(w, "prepare")
  /\ failures' = [failures EXCEPT ![e] = @ + 1]
  /\ IF failures'[e] < MaxAttempts - 1 THEN Result(w, "retry_later")
     ELSE Goto(w, "dead_letter")
  /\ UNCHANGED <<log, seen, checkpoint, effects, dead, crashes>>

\* The handler has failed.
RecordFailure(w) ==
  LET e == worker[w].event
  IN
  /\ At(w, "prepare")
  /\ failures' = [failures EXCEPT ![e] = @ + 1]
  /\ IF failures'[e] < MaxAttempts THEN Result(w, "retry_later")
     ELSE Goto(w, "dead_letter")
  /\ UNCHANGED <<log, seen, checkpoint, effects, dead, crashes>>

\* Mutant: the dead letter does not compare the checkpoint.
Mut_DeadLetter(w) ==
  LET e == worker[w].event
  IN
  /\ At(w, "dead_letter")
  /\ dead' = dead \cup {e} /\ seen' = seen \cup {e} /\ checkpoint' = e
  /\ Result(w, "dead_lettered")
  /\ UNCHANGED <<log, failures, effects, crashes>>

\* dead_letter_and_advance
DeadLetter(w) ==
  LET e == worker[w].event
  IN
  /\ At(w, "dead_letter")
  /\ IF checkpoint # worker[w].expected
     THEN Result(w, "retry_later") /\ UNCHANGED <<seen, checkpoint, dead>>
     ELSE /\ dead' = dead \cup {e} /\ seen' = seen \cup {e} /\ checkpoint' = e
          /\ Result(w, "dead_lettered")
  /\ UNCHANGED <<log, failures, effects, crashes>>

\* A worker dies between two calls of the store.
Crash(w) ==
  /\ ~At(w, "idle") /\ crashes < MaxCrashes
  /\ crashes' = crashes + 1
  /\ worker' = [worker EXCEPT ![w] = IdleCall]
  /\ UNCHANGED <<log, store>>

Step(w) ==
  \/ ReplayLog(w) \/ NextEvent(w) \/ CheckSeen(w) \/ ReadCheckpoint(w)
  \/ AcknowledgeStale(w) \/ Commit(w) \/ RecordFailure(w) \/ DeadLetter(w)

Next ==
  \/ \E e \in Events : AppendEvent(e)
  \/ \E w \in Workers : Deliver(w) \/ StartReplay(w) \/ Step(w) \/ Crash(w)

Spec == Init /\ [][Next]_vars

\* A started call goes on, and replay is called again and again.
FairSpec ==
  Spec /\ \A w \in Workers : WF_vars(Step(w)) /\ SF_vars(StartReplay(w))

-----------------------------------------------------------------------------

\* Types of the store's dictionaries and of the locals of consume and replay.
TypeOK ==
  /\ log \subseteq Events /\ seen \subseteq Events
  /\ checkpoint \in Events \cup {NoEvent}
  /\ failures \in [Events -> Nat]
  /\ effects \subseteq Events /\ dead \subseteq Events
  /\ worker \in [Workers -> Call]
  /\ crashes \in 0 .. MaxCrashes

Handled == effects \cup dead

\* The events that were committed or dead-lettered form one unbroken chain
\* that ends at the checkpoint: one event per sequence number, each the child
\* of the one before, none both committed and dead-lettered, whichever workers
\* race for the same event.
HandledChain ==
  /\ effects \cap dead = {}
  /\ checkpoint # NoEvent => checkpoint \in Handled
  /\ \A e \in Handled : e.seq <= checkpoint.seq
  /\ \A e \in Handled, f \in Handled : e.seq = f.seq => e = f
  /\ \A e \in Handled :
       IF e.seq = 1 THEN e.parent = NoGen
       ELSE \E f \in Handled : f.seq + 1 = e.seq /\ f.gen = e.parent

\* No event is deduplicated before its turn: what is marked as seen has been
\* handled or is behind the checkpoint for good.
SeenIsBehind ==
  \A e \in seen : e \in Handled \/ e.seq <= checkpoint.seq

\* A poison event has used its whole budget, and every worker that races for
\* it or dies before its dead letter overdraws the budget by one attempt.
AttemptBudget ==
  /\ \A e \in dead : failures[e] >= MaxAttempts
  /\ \A e \in Events : failures[e] < MaxAttempts + Cardinality(Workers) + crashes

\* The events that were committed or dead-lettered form one chain that ends at
\* the checkpoint, no event is deduplicated before its turn, and a poison event
\* has used its whole budget, whichever workers race for it (consume, replay).
EventsAreOrdered == TypeOK /\ HandledChain /\ SeenIsBehind /\ AttemptBudget

\* An event of the log that continues the handled chain does not wait for
\* ever: the checkpoint reaches its sequence number, by it or by a sibling,
\* although the handler may fail on every attempt.
DueEventsHandled ==
  \A e \in Events :
    (e \in log /\ e.seq = checkpoint.seq + 1 /\ e.parent = checkpoint.gen)
      ~> checkpoint.seq >= e.seq

-----------------------------------------------------------------------------
(* The inductive invariant behind EventsAreOrdered.                        *)

\* What a worker's locals still say of the store, although other workers have
\* changed it since: a stale event is behind the checkpoint, one that is being
\* prepared is the child of the checkpoint that was read, and the checkpoint
\* has moved on from that one or is still it.
CallIsCurrent(w) ==
  LET e == worker[w].event
      x == worker[w].expected
  IN
  /\ worker[w].pc \in {"seen", "checkpoint", "stale", "prepare", "dead_letter"}
       => e \in Events
  /\ At(w, "stale") => e.seq <= checkpoint.seq
  /\ worker[w].pc \in {"prepare", "dead_letter"} =>
       /\ e.seq = x.seq + 1 /\ e.parent = x.gen
       /\ x.seq <= checkpoint.seq
       /\ x.seq = checkpoint.seq => x = checkpoint
  /\ At(w, "dead_letter") /\ x = checkpoint => failures[e] >= MaxAttempts

\* The workers that hold e between their checkpoint and their effect.
Preparing(e)     == {w \in Workers : At(w, "prepare") /\ worker[w].event = e}
DeadLettering(e) == {w \in Workers : At(w, "dead_letter") /\ worker[w].event = e}

\* Until e is handled, every attempt past the budget is that of a worker about
\* to dead-letter e or of one that has died. After that only the workers that
\* were preparing e still add an attempt, one each.
AttemptsAreHeld ==
  \A e \in Events :
    IF e.seq > checkpoint.seq
    THEN failures[e] < MaxAttempts + Cardinality(DeadLettering(e)) + crashes
    ELSE failures[e] + Cardinality(Preparing(e))
           < MaxAttempts + Cardinality(Workers) + crashes

EventInvariant ==
  /\ TypeOK /\ HandledChain /\ SeenIsBehind
  /\ Handled \subseteq seen
  /\ \A e \in dead : failures[e] >= MaxAttempts
  /\ \A w \in Workers : CallIsCurrent(w)
  /\ AttemptsAreHeld
=============================================================================
