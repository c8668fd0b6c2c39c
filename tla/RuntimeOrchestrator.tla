------------------------- MODULE RuntimeOrchestrator -------------------------
(***************************************************************************)
(* The Runtime orchestrator (memory_runtime/orchestrator.py): one operation *)
(* runs through the stages of its pipeline, driven by any number of         *)
(* workers that deliver the same request.  Stages are claimed under a lease *)
(* and fenced by the claim token; results are stored once per stage and     *)
(* input digest; cancellation and the absolute deadline win over results    *)
(* that are not committed.                                                  *)
(*                                                                          *)
(* Every call of the operation store or the result store takes the store's  *)
(* lock and is one step.  A call reads the clock before it takes the lock:  *)
(* the time it uses may be any time since the worker's previous step.       *)
(***************************************************************************)
EXTENDS Naturals, Sequences, FiniteSets

CONSTANTS
  Workers,      \* calls of RuntimeOrchestrator.run, one at a time each
  Operations,   \* operation ids that share one idempotency key
  Contents,     \* payloads a stage handler may produce
  Stages,       \* length of the pipeline; a stage is its index
  MaxAttempts,  \* max_stage_attempts
  Lease,        \* lease_duration
  Deadline,     \* deadline_at of the operation
  MaxTime,      \* bound on the clock
  MaxCrashes    \* bound: workers that die in a call

ASSUME RuntimeAssumption ==
  /\ Stages \in Nat \ {0} /\ MaxAttempts \in Nat \ {0} /\ Lease \in Nat \ {0}
  /\ Deadline \in Nat /\ MaxTime \in Nat /\ MaxCrashes \in Nat
  /\ IsFiniteSet(Workers)

None == "none"   \* no operation, no worker, no content

NoInput  == [stage |-> 0, prev |-> << >>]
NoClaim  == [stage |-> 0, attempt |-> 0, by |-> None, input |-> NoInput, expires |-> 0]
NoResult == [stage |-> 0, input |-> NoInput, content |-> None,
             disposition |-> "continue"]

\* REJECTED stands for ABSTAINED and DEGRADED too: a disposition ends the
\* operation in each of them in the same way.
Terminal == {"completed", "rejected", "failed", "cancelled"}

Dispositions == {"continue", "complete", "reject"}

Replies == Terminal \cup {None, "retry_later", "conflict", "raised"}

VARIABLES
  clock,
  owner,       \* store._idempotency: the operation registered for the key
  rec,         \* store._records: the operation record
  results,     \* result store: [stage, input, content, disposition]
  worker,      \* the locals of every run call
  executions,  \* handler executions per stage
  crashes

vars == <<clock, owner, rec, results, worker, executions, crashes>>

\* _stage_input_digest: the stage and the results before it.
InputDigest(stage, refs) ==
  [stage |-> stage, prev |-> [i \in 1 .. Len(refs) |-> refs[i].content]]

NoRecord == [state |-> "received", index |-> 0, refs |-> << >>,
             attempts |-> [s \in 1 .. Stages |-> 0], cancelled |-> FALSE,
             claim |-> NoClaim]

NoCall == [pc |-> "idle", op |-> None, since |-> 0, loops |-> 0,
           input |-> NoInput, existing |-> NoResult, claim |-> NoClaim,
           result |-> NoResult, reply |-> None]

Init ==
  /\ clock = 0 /\ owner = None /\ rec = NoRecord /\ results = {}
  /\ worker = [w \in Workers |-> NoCall]
  /\ executions = [s \in 1 .. Stages |-> 0]
  /\ crashes = 0

-----------------------------------------------------------------------------
(* The operation store.                                                    *)

Claimed(r) == r.claim.stage # 0

\* Mutant: an expired claim is kept.
Mut_DropExpired(r, now) == r

DropExpired(r, now) ==
  IF Claimed(r) /\ r.claim.expires <= now THEN [r EXCEPT !.claim = NoClaim] ELSE r

\* _normalize_terminal: an unclaimed operation that is cancelled, past its
\* deadline or at the end of its pipeline becomes terminal.
NormalizeTerminal(r, now) ==
  IF r.state \in Terminal \/ Claimed(r) THEN r
  ELSE [r EXCEPT !.state =
          CASE r.cancelled -> "cancelled"
            [] ~r.cancelled /\ now >= Deadline -> "failed"
            [] ~r.cancelled /\ now < Deadline /\ r.index >= Stages -> "completed"
            [] OTHER -> r.state]

Refreshed(r, now) == NormalizeTerminal(DropExpired(r, now), now)

Earlier(a, b) == IF a < b THEN a ELSE b

\* A claim binds stage, attempt, delivery and input digest.
Token(c) == [stage |-> c.stage, attempt |-> c.attempt, by |-> c.by, input |-> c.input]

\* Mutant: the token of a claim is not compared.
Mut_HoldsClaim(r, claim, now, lenient) ==
  Claimed(r) /\ (lenient \/ r.cancelled \/ now >= Deadline \/ r.claim.expires > now)

\* _require_claim: the active claim is this one, and unexpired unless the
\* operation is cancelled or past its deadline.
HoldsClaim(r, claim, now, lenient) ==
  /\ Claimed(r) /\ Token(r.claim) = Token(claim)
  /\ lenient \/ r.cancelled \/ now >= Deadline \/ r.claim.expires > now

\* What commit_stage, release_transient and fail_stage do first: drop the
\* claim, and let cancellation and the deadline win.
Settled(r, now, state) ==
  [r EXCEPT !.claim = NoClaim,
            !.state = CASE r.cancelled -> "cancelled"
                        [] ~r.cancelled /\ now >= Deadline -> "failed"
                        [] OTHER -> state]

\* Mutant: a commit ignores the cancellation.
Mut_Committed(r, ref, now) ==
  IF now >= Deadline THEN Settled(r, now, r.state)
  ELSE [r EXCEPT !.claim = NoClaim, !.index = @ + 1, !.refs = Append(@, ref),
          !.state = IF ref.disposition = "reject" THEN "rejected"
                    ELSE IF r.index + 1 >= Stages THEN "completed" ELSE "running"]

\* The result of commit_stage; the states of the stages are one "running".
Committed(r, ref, now) ==
  IF r.cancelled \/ now >= Deadline THEN Settled(r, now, r.state)
  ELSE [r EXCEPT !.claim = NoClaim, !.index = @ + 1, !.refs = Append(@, ref),
          !.state = CASE ref.disposition = "reject" -> "rejected"
                      [] ref.disposition # "reject" /\ r.index + 1 >= Stages -> "completed"
                      [] OTHER -> "running"]

\* Mutant: a terminal operation is cancelled too.
Mut_CancelRequested(r) ==
  IF r.cancelled THEN r
  ELSE [r EXCEPT !.cancelled = TRUE,
                 !.state = IF Claimed(r) THEN @ ELSE "cancelled"]

\* request_cancel: the first signal stays; an unclaimed operation is
\* cancelled at once.
CancelRequested(r) ==
  IF r.state \in Terminal \/ r.cancelled THEN r
  ELSE [r EXCEPT !.cancelled = TRUE,
                 !.state = IF Claimed(r) THEN @ ELSE "cancelled"]

-----------------------------------------------------------------------------
(* run                                                                     *)

At(w, pc) == worker[w].pc = pc

\* The times that a store call of w may have read.
Now(w) == worker[w].since .. clock

Move(w, pc)     == worker' = [worker EXCEPT ![w].pc = pc, ![w].since = clock]
Reply(w, reply) == worker' = [worker EXCEPT ![w] = [NoCall EXCEPT !.reply = reply]]

\* The response for record r.
ReplyFor(w, r) == Reply(w, IF r.state \in Terminal THEN r.state ELSE "retry_later")

Run(w) ==
  /\ At(w, "idle")
  /\ \E op \in Operations :
       worker' = [worker EXCEPT ![w] = [NoCall EXCEPT !.pc = "register", !.op = op,
                                                      !.since = clock]]
  /\ UNCHANGED <<clock, owner, rec, results, executions, crashes>>

\* register: the idempotency key belongs to one operation.
Register(w) ==
  /\ At(w, "register")
  /\ IF owner \notin {None, worker[w].op}
     THEN Reply(w, "conflict") /\ UNCHANGED owner
     ELSE Move(w, "get") /\ owner' = worker[w].op
  /\ UNCHANGED <<clock, rec, results, executions, crashes>>

\* The head of the loop: the record is read, the input digest computed.
Get(w) ==
  /\ At(w, "get")
  /\ IF rec.state \in Terminal \/ rec.index >= Stages
        \/ worker[w].loops >= Stages + 2
     THEN ReplyFor(w, rec)
     ELSE worker' = [worker EXCEPT ![w].pc = "lookup", ![w].since = clock,
                       ![w].loops = @ + 1, ![w].claim = NoClaim, ![w].result = NoResult,
                       ![w].input = InputDigest(rec.index + 1, rec.refs)]
  /\ UNCHANGED <<clock, owner, rec, results, executions, crashes>>

\* The stored result for a stage and its input digest.
Stored(stage, input) == {r \in results : r.stage = stage /\ r.input = input}

Lookup(w) ==
  LET found == Stored(worker[w].input.stage, worker[w].input)
  IN
  /\ At(w, "lookup")
  /\ worker' = [worker EXCEPT ![w].pc = "claim", ![w].since = clock,
                  ![w].existing = IF found = {} THEN NoResult
                                  ELSE CHOOSE r \in found : TRUE]
  /\ UNCHANGED <<clock, owner, rec, results, executions, crashes>>

\* Mutant: an exhausted budget does not fail the operation.
Mut_ClaimNext(w) ==
  /\ At(w, "claim")
  /\ \E now \in Now(w) :
       LET r     == Refreshed(rec, now)
           stage == r.index + 1
           claim == [stage |-> stage, attempt |-> r.attempts[stage] + 1, by |-> w,
                     input |-> worker[w].input,
                     expires |-> Earlier(Deadline, now + Lease)]
       IN CASE r.state \in Terminal \/ Claimed(r) -> rec' = r /\ ReplyFor(w, r)
            [] OTHER ->
                 /\ rec' = [r EXCEPT !.claim = claim, !.attempts[stage] = @ + 1]
                 /\ worker' = [worker EXCEPT ![w].claim = claim, ![w].since = clock,
                                 ![w].result = worker[w].existing,
                                 ![w].existing = NoResult, ![w].input = NoInput,
                                 ![w].pc = IF worker[w].existing = NoResult
                                           THEN "execute" ELSE "commit"]
  /\ UNCHANGED <<clock, owner, results, executions, crashes>>

\* claim_next: the stage is that of the record now, the input digest and the
\* existing result are those of the record that was read before.
ClaimNext(w) ==
  /\ At(w, "claim")
  /\ \E now \in Now(w) :
       LET r     == Refreshed(rec, now)
           stage == r.index + 1
           claim == [stage |-> stage, attempt |-> r.attempts[stage] + 1, by |-> w,
                     input |-> worker[w].input,
                     expires |-> Earlier(Deadline, now + Lease)]
           done  == r.state \in Terminal \/ Claimed(r)
           spent == ~done /\ r.attempts[stage] >= MaxAttempts
                    /\ worker[w].existing = NoResult
       IN CASE done  -> rec' = r /\ ReplyFor(w, r)
            [] spent -> rec' = [r EXCEPT !.state = "failed"] /\ Reply(w, "failed")
            [] OTHER ->
                 /\ rec' = [r EXCEPT !.claim = claim, !.attempts[stage] = @ + 1]
                 /\ worker' = [worker EXCEPT ![w].claim = claim, ![w].since = clock,
                                 ![w].result = worker[w].existing,
                                 ![w].existing = NoResult, ![w].input = NoInput,
                                 ![w].pc = IF worker[w].existing = NoResult
                                           THEN "execute" ELSE "commit"]
  /\ UNCHANGED <<clock, owner, results, executions, crashes>>

\* context.checkpoint: cancelled, expired, or on.
Checkpoint(w, next) ==
  IF rec.cancelled THEN Move(w, "cancel")
  ELSE \E now \in Now(w) : Move(w, IF now >= Deadline THEN "deadline" ELSE next)

CheckBefore(w) ==
  /\ At(w, "execute")
  /\ Checkpoint(w, "handler")
  /\ UNCHANGED <<clock, owner, rec, results, executions, crashes>>

\* The handler is external: it returns a result, fails, or gives up at a
\* checkpoint.  COMPLETE before the last stage is a fatal error.
Handler(w) ==
  /\ At(w, "handler")
  /\ executions' = [executions EXCEPT ![worker[w].claim.stage] = @ + 1]
  /\ \/ \E c \in Contents, d \in Dispositions :
          IF d = "complete" /\ worker[w].claim.stage < Stages THEN Move(w, "fail")
          ELSE worker' = [worker EXCEPT ![w].pc = "check", ![w].since = clock,
                            ![w].result = [stage |-> worker[w].claim.stage,
                                           input |-> worker[w].claim.input,
                                           content |-> c, disposition |-> d]]
     \/ Move(w, "transient")
     \/ Move(w, "fail")
     \/ Move(w, "cancel")
  /\ UNCHANGED <<clock, owner, rec, results, crashes>>

CheckAfter(w) ==
  /\ At(w, "check")
  /\ Checkpoint(w, "put")
  /\ UNCHANGED <<clock, owner, rec, results, executions, crashes>>

\* put_once: the first result is kept; another one is nondeterminism.
PutOnce(w) ==
  LET r     == worker[w].result
      found == Stored(r.stage, r.input)
  IN
  /\ At(w, "put")
  /\ IF found \subseteq {r}
     THEN results' = results \cup {r} /\ Move(w, "commit")
     ELSE UNCHANGED results /\ Move(w, "fail")
  /\ UNCHANGED <<clock, owner, rec, executions, crashes>>

\* commit_stage, after which the loop goes on.
CommitStage(w) ==
  LET ref == worker[w].result
  IN
  /\ At(w, "commit")
  /\ \E now \in Now(w) :
       IF /\ HoldsClaim(rec, worker[w].claim, now, FALSE)
          /\ ref.stage = worker[w].claim.stage /\ ref.input = worker[w].claim.input
       THEN /\ rec' = Committed(rec, ref, now)
            /\ IF rec'.state \in Terminal THEN Reply(w, rec'.state)
               ELSE Move(w, "get")
       ELSE Move(w, "lost") /\ UNCHANGED rec
  /\ UNCHANGED <<clock, owner, results, executions, crashes>>

\* TransientStageError: the claim is released, or the budget is spent.
Transient(w) ==
  /\ At(w, "transient")
  /\ \E now \in Now(w) :
       IF HoldsClaim(rec, worker[w].claim, now, FALSE)
       THEN /\ rec' = Settled(rec, now, IF worker[w].claim.attempt >= MaxAttempts
                                        THEN "failed" ELSE rec.state)
            /\ ReplyFor(w, rec')
       ELSE Move(w, "lost") /\ UNCHANGED rec
  /\ UNCHANGED <<clock, owner, results, executions, crashes>>

\* Fatal errors and results that differ from the stored one.
FailStage(w) ==
  /\ At(w, "fail")
  /\ \E now \in Now(w) :
       IF HoldsClaim(rec, worker[w].claim, now, FALSE)
       THEN rec' = Settled(rec, now, "failed") /\ ReplyFor(w, rec')
       ELSE Move(w, "lost") /\ UNCHANGED rec
  /\ UNCHANGED <<clock, owner, results, executions, crashes>>

\* OperationDeadlineExceeded: a conflict of this fail_stage is not caught.
FailDeadline(w) ==
  /\ At(w, "deadline")
  /\ \E now \in Now(w) :
       IF HoldsClaim(rec, worker[w].claim, now, TRUE)
       THEN rec' = Settled(rec, now, "failed") /\ ReplyFor(w, rec')
       ELSE Reply(w, "raised") /\ UNCHANGED rec
  /\ UNCHANGED <<clock, owner, results, executions, crashes>>

\* OperationCancelled: the signal is recorded unless there is one,
SignalCancel(w) ==
  /\ At(w, "cancel")
  /\ rec' = CancelRequested(rec)
  /\ Move(w, "cancel_commit")
  /\ UNCHANGED <<clock, owner, results, executions, crashes>>

Placeholder(w) == [stage |-> worker[w].claim.stage, input |-> worker[w].claim.input,
                   content |-> None, disposition |-> "continue"]

\* Mutant: the placeholder is stored as a result.
Mut_CommitCancelled(w) ==
  /\ At(w, "cancel_commit")
  /\ \E now \in Now(w) :
       IF HoldsClaim(rec, worker[w].claim, now, FALSE)
       THEN rec' = Committed(rec, Placeholder(w), now) /\ ReplyFor(w, rec')
       ELSE Reply(w, "raised") /\ UNCHANGED rec
  /\ results' = results \cup {Placeholder(w)}
  /\ UNCHANGED <<clock, owner, executions, crashes>>

\* and a placeholder is committed; a conflict is not caught here either.
CommitCancelled(w) ==
  /\ At(w, "cancel_commit")
  /\ \E now \in Now(w) :
       IF HoldsClaim(rec, worker[w].claim, now, FALSE)
       THEN rec' = Committed(rec, Placeholder(w), now) /\ ReplyFor(w, rec')
       ELSE Reply(w, "raised") /\ UNCHANGED rec
  /\ UNCHANGED <<clock, owner, results, executions, crashes>>

\* _claim_lost_response
ClaimLost(w) ==
  /\ At(w, "lost")
  /\ ReplyFor(w, rec)
  /\ UNCHANGED <<clock, owner, rec, results, executions, crashes>>

-----------------------------------------------------------------------------
(* Clients and the environment.                                            *)

\* RuntimeOrchestrator.cancel
Cancel ==
  /\ owner # None /\ rec' = CancelRequested(rec) /\ rec' # rec
  /\ UNCHANGED <<clock, owner, results, worker, executions, crashes>>

\* RuntimeOrchestrator.status
Status ==
  /\ owner # None /\ rec' = Refreshed(rec, clock) /\ rec' # rec
  /\ UNCHANGED <<clock, owner, results, worker, executions, crashes>>

Tick ==
  /\ clock < MaxTime /\ clock' = clock + 1
  /\ UNCHANGED <<owner, rec, results, worker, executions, crashes>>

Crash(w) ==
  /\ ~At(w, "idle") /\ crashes < MaxCrashes /\ crashes' = crashes + 1
  /\ worker' = [worker EXCEPT ![w] = NoCall]
  /\ UNCHANGED <<clock, owner, rec, results, executions>>

Step(w) ==
  \/ Register(w) \/ Get(w) \/ Lookup(w) \/ ClaimNext(w) \/ CheckBefore(w)
  \/ Handler(w) \/ CheckAfter(w) \/ PutOnce(w) \/ CommitStage(w) \/ Transient(w)
  \/ FailStage(w) \/ FailDeadline(w) \/ SignalCancel(w) \/ CommitCancelled(w)
  \/ ClaimLost(w)

Next ==
  \/ \E w \in Workers : Run(w) \/ Step(w) \/ Crash(w)
  \/ Cancel \/ Status \/ Tick

Spec == Init /\ [][Next]_vars

\* Time passes, started calls go on, and clients poll status.
FairSpec ==
  Spec /\ WF_vars(Tick) /\ WF_vars(Status) /\ \A w \in Workers : WF_vars(Step(w))

-----------------------------------------------------------------------------

\* An input digest, a stored result, a claim, the record and the locals of run.
Input == [stage : 0 .. Stages, prev : Seq(Contents \cup {None})]

StoredResult == [stage : 1 .. Stages, input : Input, content : Contents,
                 disposition : Dispositions]

Claim == [stage : 0 .. Stages, attempt : Nat, by : Workers \cup {None}, input : Input,
          expires : Nat]

Record == [state : Terminal \cup {"received", "running"}, index : 0 .. Stages,
           refs : Seq(StoredResult), attempts : [1 .. Stages -> Nat],
           cancelled : BOOLEAN, claim : Claim]

Locals ==
  [pc : {"idle", "register", "get", "lookup", "claim", "execute", "handler", "check",
         "put", "commit", "transient", "fail", "deadline", "cancel", "cancel_commit",
         "lost"},
   op : Operations \cup {None}, since : 0 .. MaxTime, loops : Nat, input : Input,
   existing : StoredResult \cup {NoResult}, claim : Claim,
   result : StoredResult \cup {NoResult}, reply : Replies]

\* Shapes of the record, the stored results and the locals of run.
TypeOK ==
  /\ clock \in 0 .. MaxTime
  /\ owner \in Operations \cup {None}
  /\ rec \in Record
  /\ results \subseteq StoredResult
  /\ worker \in [Workers -> Locals]
  /\ executions \in [1 .. Stages -> Nat]
  /\ crashes \in 0 .. MaxCrashes

\* A terminal operation is closed: it holds no claim, and no worker that is
\* still running, no client and no clock changes its record again. Cancellation
\* wins over every result that is not committed, also when it arrives between
\* the last checkpoint of the handler and the commit.
OutcomeIsFinal ==
  [][/\ rec.state \in Terminal => rec.claim = NoClaim /\ rec' = rec
     /\ rec.cancelled => rec'.refs = rec.refs
                           /\ rec'.state \in {rec.state, "cancelled"}]_vars

\* Fencing: the committed results are those of the stages in order, one per
\* stage, each the one stored first, whatever workers lost their leases.
CommittedInOrder ==
  /\ Len(rec.refs) = rec.index
  /\ \A i \in 1 .. Len(rec.refs) : rec.refs[i].stage = i /\ rec.refs[i] \in results
  /\ rec.state = "completed" => rec.index = Stages

\* A stage's handler runs at most MaxAttempts times, crashes, expired leases
\* and concurrent deliveries included.
ExecutionBudget == \A s \in 1 .. Stages : executions[s] <= MaxAttempts

\* Fencing and its budget: the committed results are those of the stages in
\* order, each the one stored first, and a stage's handler runs at most
\* MaxAttempts times, whatever workers lost their leases (commit_stage, claim).
StagesAreFenced == TypeOK /\ CommittedInOrder /\ ExecutionBudget

\* An operation does not stay open for ever: a worker that died with the
\* claim blocks it until the deadline at most.
OperationEnds == owner # None ~> rec.state \in Terminal

\* ADR-0012: "Each stage claim binds operation, stage, attempt, delivery
\* request, and input digest".  The input digest of a committed result is that
\* of its own stage and of the results before it.
InputDigestBinds ==
  \A i \in 1 .. Len(rec.refs) :
    rec.refs[i].input = InputDigest(i, SubSeq(rec.refs, 1, i - 1))

-----------------------------------------------------------------------------
(* The inductive invariant behind StagesAreFenced and OutcomeIsFinal.      *)

\* A claim is that of the next stage and keeps the operation open; only the
\* holder of a claim keeps a cancelled operation open.
RecordIsSound(r) ==
  /\ r \in Record
  /\ Len(r.refs) = r.index
  /\ \A i \in 1 .. Len(r.refs) : r.refs[i].stage = i /\ r.refs[i] \in results
  /\ r.state = "completed" => r.index = Stages
  /\ IF Claimed(r) THEN r.state \notin Terminal /\ r.claim.stage = r.index + 1
     ELSE r.claim = NoClaim
  /\ r.cancelled => r.state \in Terminal \/ Claimed(r)

\* What worker w knows of the stores: the result that it found, or put, is
\* stored, and a placeholder is committed only after the signal.
CallIsSound(w) ==
  /\ worker[w].existing \in results \cup {NoResult}
  /\ worker[w].pc = "commit" => worker[w].result \in results
  /\ worker[w].pc \in {"check", "put"} => worker[w].result \in StoredResult
  /\ worker[w].pc \in {"execute", "handler"} => worker[w].claim.stage \in 1 .. Stages
  /\ worker[w].pc = "cancel_commit" => rec.cancelled \/ rec.state \in Terminal

\* The workers that have claimed a stage to execute it and have not done so.
Executing(s) ==
  {w \in Workers : worker[w].pc \in {"execute", "handler"} /\ worker[w].claim.stage = s}

\* Every execution, also one to come, was claimed as an attempt while the
\* budget lasted; claims for a stored result go beyond it.
AttemptsCover ==
  \A s \in 1 .. Stages :
    /\ executions[s] + Cardinality(Executing(s)) <= rec.attempts[s]
    /\ executions[s] + Cardinality(Executing(s)) <= MaxAttempts

RuntimeInvariant ==
  /\ TypeOK /\ RecordIsSound(rec) /\ (\A w \in Workers : CallIsSound(w)) /\ AttemptsCover
=============================================================================
