---------------------------- MODULE Backpressure ----------------------------
(***************************************************************************)
(* Bounded work: the queue, the retry budget, the circuit breaker and the  *)
(* controller that drives the three (memory_core/operability.py).  Each of *)
(* the three has its own lock; the controller's lock covers submit and     *)
(* cancel, not the reports of success and failure.  Time is a clock that   *)
(* every caller passes in.                                                 *)
(***************************************************************************)
EXTENDS Naturals, Sequences, FiniteSets, FiniteSetsExt, SequencesExt

CONSTANTS
  Items,         \* work items: [id, op, ws, cost, deadline]
  Workers,       \* threads that pop work and report its outcome
  None,
  MaxItems, MaxCost, PerWorkspace,     \* limits of the queue
  MaxOperations, MaxAttempts, MaxTotal, \* limits of the budget
  Threshold, ResetAfter,                \* limits of the circuit breaker
  MaxClock       \* bound: the clock

VARIABLES
  queue,      \* BoundedWorkQueue._items, and _by_id
  wsCounts,   \* BoundedWorkQueue._workspace_counts
  cost,       \* BoundedWorkQueue._cost
  budget,     \* RetryBudget._values: operation -> attempts and total
  circuit,    \* CircuitBreaker: state, failures, opened_at, probe in flight
  clock,
  hand,       \* the item each worker has, and whether it reports success
  probes      \* ghost: items let in as a probe whose outcome is unknown

vars == <<queue, wsCounts, cost, budget, circuit, clock, hand, probes>>

Workspaces == {i.ws : i \in Items}

Free == [item |-> None, closing |-> FALSE]

Init ==
  /\ queue = <<>> /\ wsCounts = [w \in Workspaces |-> 0] /\ cost = 0
  /\ budget = [o \in {} |-> None]
  /\ circuit = [state |-> "closed", failures |-> 0, opened |-> 0,
                inflight |-> FALSE]
  /\ clock = 0
  /\ hand = [w \in Workers |-> Free]
  /\ probes = {}

\* BoundedWorkItem: the deadline lies after the time it was made, and the id
\* is a digest of the rest.
Expired(i) == clock >= i.deadline

-----------------------------------------------------------------------------
(* the queue                                                               *)

Queued == ToSet(queue)

\* BoundedWorkQueue.submit, as far as it accepts.
Admits(i) ==
  /\ i \notin Queued /\ ~Expired(i)
  /\ Len(queue) < MaxItems
  /\ wsCounts[i.ws] < PerWorkspace
  /\ cost + i.cost <= MaxCost

Enqueue(i) ==
  /\ queue' = Append(queue, i)
  /\ wsCounts' = [wsCounts EXCEPT ![i.ws] = @ + 1]
  /\ cost' = cost + i.cost

\* The cost units of some items together.
CostOf(is) == MapThenSumSet(LAMBDA i : i.cost, is)

\* Mutant: the cost of items that leave is not given back.
Mut_RemoveAccounting(is) ==
  /\ wsCounts' = [w \in Workspaces |->
                    wsCounts[w] - Cardinality({i \in is : i.ws = w})]
  /\ UNCHANGED cost

\* _remove_accounting for items that leave the queue.
RemoveAccounting(is) ==
  /\ wsCounts' = [w \in Workspaces |->
                    wsCounts[w] - Cardinality({i \in is : i.ws = w})]
  /\ cost' = cost - CostOf(is)

\* What is left of q without the item i, in order.
Without(q, i) ==
  LET kept[n \in 0 .. Len(q)] ==
        IF n = 0 THEN <<>>
        ELSE IF q[n] = i THEN kept[n-1] ELSE Append(kept[n-1], q[n])
  IN  kept[Len(q)]

\* BoundedWorkQueue.remove, of an item that is queued.
Dequeue(i) ==
  /\ queue' = Without(queue, i)
  /\ RemoveAccounting({i})

-----------------------------------------------------------------------------
(* the retry budget                                                        *)

Spent(op) == IF op \in DOMAIN budget THEN budget[op]
             ELSE [attempts |-> 0, total |-> 0]

\* RetryBudget.reserve, as far as it allows.
MayReserve(i) ==
  /\ i.op \in DOMAIN budget \/ Cardinality(DOMAIN budget) < MaxOperations
  /\ Spent(i.op).attempts < MaxAttempts
  /\ Spent(i.op).total + i.cost <= MaxTotal

SetBudget(op, b) ==
  budget' = [o \in DOMAIN budget \cup {op} |-> IF o = op THEN b ELSE budget[o]]

DropBudget(op) ==
  budget' = [o \in DOMAIN budget \ {op} |-> budget[o]]

Reserve(i) ==
  SetBudget(i.op, [attempts |-> Spent(i.op).attempts + 1,
                   total    |-> Spent(i.op).total + i.cost])

\* RetryBudget.rollback raises when the total would become negative.
Underflow(i) == i.op \in DOMAIN budget /\ budget[i.op].total < i.cost

Rollback(i) ==
  IF i.op \notin DOMAIN budget THEN UNCHANGED budget
  ELSE IF budget[i.op].attempts = 1 THEN DropBudget(i.op)
  ELSE SetBudget(i.op, [attempts |-> budget[i.op].attempts - 1,
                        total    |-> budget[i.op].total - i.cost])

-----------------------------------------------------------------------------
(* the circuit breaker                                                     *)

HalfOpenDue == circuit.state = "open" /\ clock - circuit.opened >= ResetAfter

\* CircuitBreaker.before_call, where it allows the call: a closed circuit is
\* left alone, and one that is half open, or due to be, has one probe.
Allows == \/ circuit.state = "closed"
          \/ HalfOpenDue
          \/ circuit.state = "half_open" /\ ~circuit.inflight

AfterAllow ==
  IF circuit.state = "closed" THEN circuit
  ELSE [circuit EXCEPT !.state = "half_open", !.inflight = TRUE]

\* cancel_probe on a state c.
CancelProbe(c) ==
  IF c.state = "half_open" THEN [c EXCEPT !.inflight = FALSE] ELSE c

RecordSuccess ==
  circuit' = [state |-> "closed", failures |-> 0, opened |-> 0,
              inflight |-> FALSE]

\* Failures beyond the threshold are not told apart.
RecordFailure ==
  LET n == IF circuit.failures < Threshold THEN circuit.failures + 1
           ELSE Threshold
      open == circuit.state = "half_open" \/ n >= Threshold
  IN  circuit' = [state |-> IF open THEN "open" ELSE circuit.state,
                  failures |-> n,
                  opened |-> IF open THEN clock ELSE circuit.opened,
                  inflight |-> FALSE]

-----------------------------------------------------------------------------
(* the controller                                                          *)

\* Mutant: the queue is not rolled back when the budget denies.
Mut_SubmitDenied(i) ==
  /\ Allows /\ Admits(i) /\ ~MayReserve(i)
  /\ queue' = Append(queue, i)
  /\ circuit' = CancelProbe(AfterAllow)
  /\ UNCHANGED <<wsCounts, cost, budget, clock, hand, probes>>

\* submit: the gate lets it through, but queue or budget do not take it; what
\* was queued is removed, and the probe given back.
SubmitDenied(i) ==
  /\ Allows /\ ~(Admits(i) /\ MayReserve(i))
  /\ circuit' = CancelProbe(AfterAllow)
  /\ UNCHANGED <<queue, wsCounts, cost, budget, clock, hand, probes>>

SubmitAccepted(i) ==
  /\ Allows /\ Admits(i) /\ MayReserve(i)
  /\ Enqueue(i) /\ Reserve(i)
  /\ circuit' = AfterAllow
  /\ probes' = IF AfterAllow.state = "half_open" THEN probes \cup {i} ELSE probes
  /\ UNCHANGED <<clock, hand>>

\* cancel gives the probe back whichever item it cancels, except when the
\* rollback raises: then the item is gone from the queue and nothing else is
\* done.
Cancel(i) ==
  /\ IF i \notin Queued
     THEN /\ UNCHANGED <<queue, wsCounts, cost, budget>>
          /\ circuit' = CancelProbe(circuit)
     ELSE /\ Dequeue(i)
          /\ IF Underflow(i) THEN UNCHANGED <<budget, circuit>>
             ELSE Rollback(i) /\ circuit' = CancelProbe(circuit)
  /\ probes' = IF i \in Queued THEN probes \ {i} ELSE probes
  /\ UNCHANGED <<clock, hand>>

\* pop drops the expired items at the front and takes the next one.
Pop(w) ==
  LET live == {n \in DOMAIN queue : ~Expired(queue[n])}
      n    == IF live = {} THEN Len(queue) ELSE Min(live)
      gone == {queue[m] : m \in 1 .. n}
  IN
  /\ hand[w] = Free /\ queue # <<>>
  /\ queue' = SubSeq(queue, n + 1, Len(queue))
  /\ RemoveAccounting(gone)
  /\ hand' = IF live = {} THEN hand ELSE [hand EXCEPT ![w].item = queue[n]]
  /\ probes' = probes \ {i \in gone : Expired(i)}
  /\ UNCHANGED <<budget, circuit, clock>>

\* record_success: the budget first,
CompleteBudget(w) ==
  /\ hand[w].item # None /\ ~hand[w].closing
  /\ DropBudget(hand[w].item.op)
  /\ hand' = [hand EXCEPT ![w].closing = TRUE]
  /\ UNCHANGED <<queue, wsCounts, cost, circuit, clock, probes>>

\* then the circuit, whenever the call was let in.
CloseCircuit(w) ==
  /\ hand[w].closing
  /\ RecordSuccess
  /\ hand' = [hand EXCEPT ![w] = Free]
  /\ probes' = probes \ {hand[w].item}
  /\ UNCHANGED <<queue, wsCounts, cost, budget, clock>>

Fail(w) ==
  /\ hand[w].item # None /\ ~hand[w].closing
  /\ RecordFailure
  /\ hand' = [hand EXCEPT ![w] = Free]
  /\ probes' = probes \ {hand[w].item}
  /\ UNCHANGED <<queue, wsCounts, cost, budget, clock>>

Tick ==
  /\ clock < MaxClock
  /\ clock' = clock + 1
  /\ UNCHANGED <<queue, wsCounts, cost, budget, circuit, hand, probes>>

Next ==
  \/ \E i \in Items : SubmitDenied(i) \/ SubmitAccepted(i) \/ Cancel(i)
  \/ \E w \in Workers : Pop(w) \/ CompleteBudget(w) \/ CloseCircuit(w) \/ Fail(w)
  \/ Tick

Spec == Init /\ [][Next]_vars

-----------------------------------------------------------------------------

QueueCounts ==
  /\ cost = CostOf(Queued) /\ cost <= MaxCost
  /\ \A w \in Workspaces :
       /\ wsCounts[w] = Cardinality({i \in Queued : i.ws = w})
       /\ wsCounts[w] <= PerWorkspace
  /\ IsInjective(queue) /\ Len(queue) <= MaxItems

BudgetBounds ==
  /\ Cardinality(DOMAIN budget) <= MaxOperations
  /\ \A o \in DOMAIN budget :
       /\ budget[o].attempts \in 1 .. MaxAttempts
       /\ budget[o].total <= MaxTotal

\* Whatever order of submits, cancels, expiries and reports: the counters of
\* the queue say what is in it, nothing is in it twice, its limits hold, and
\* the budget stays within its own and never below what it has counted.
QueueAccounting == QueueCounts /\ BudgetBounds

\* Round 15 of the adversarial validation: a half-open circuit has one probe.
SingleProbe == Cardinality(probes) <= 1

-----------------------------------------------------------------------------
\* The constructors refuse limits below one, an item costs at least one unit.
PressureAssumption ==
  /\ MaxItems \in Nat /\ MaxCost \in Nat /\ PerWorkspace \in Nat
  /\ MaxOperations \in Nat /\ MaxAttempts \in Nat /\ MaxTotal \in Nat
  /\ \A i \in Items : i.cost \in Nat

\* Inductive with the counts: what is counted is finite.
QueueTyped ==
  /\ queue \in Seq(Items) /\ IsFiniteSet(Queued)
  /\ wsCounts \in [Workspaces -> Int]

BudgetTyped ==
  /\ IsFiniteSet(DOMAIN budget)
  /\ \A o \in DOMAIN budget : budget[o].total \in Nat

QueueInvariant == QueueTyped /\ QueueCounts
BudgetInvariant == BudgetTyped /\ BudgetBounds
=============================================================================
