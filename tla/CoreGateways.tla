---------------------------- MODULE CoreGateways ----------------------------
(***************************************************************************)
(* The gateways of the memory core: commands with idempotency keys,        *)
(* queries pinned to a generation, plugin calls, export requests with      *)
(* their audit trail, and telemetry (memory_core/command_gateway.py,       *)
(* query_gateway.py, plugins.py, policy.py, contracts.py, operability.py). *)
(*                                                                         *)
(* Storage, plugin runner and command handler are ports.  A command runs   *)
(* under the gateway's lock; queries, plugin calls and exports interleave. *)
(* There is one workspace; a record of another one is foreign.             *)
(***************************************************************************)
EXTENDS Naturals, FiniteSets

CONSTANTS
  Callers,      \* threads that use the gateways
  Keys,         \* idempotency keys
  Payloads,     \* command payloads, as digests
  Objects,      \* memory records
  Jobs,         \* export requests
  None,
  MaxLevel,     \* the highest sensitivity rank
  MaxGen,       \* bound: generations
  MaxAudit,     \* capacity of the audit sink
  Quota,        \* max_calls_per_operation of the plugin
  Egress        \* egress rank of the plugin, or None

Levels == 0 .. MaxLevel

\* None is no command, and a quota and a generation are numbers.
GatewayAssumption == None \notin Payloads /\ Quota \in Nat /\ MaxGen \in Nat

VARIABLES
  life,       \* lifecycle status of every object at every generation
  level,      \* sensitivity of the objects
  token,      \* the capability the resolver gives out: max level, or None
  stored,     \* idempotency records: key -> payload
  answered,   \* ghost: final answers given to commands
  disclosed,  \* ghost: what a query or plugin call lets out in this step
  calls,      \* PluginQuotaStore: calls of the operation
  audit,      \* records of the audit sink
  jobs,       \* jobs of the export submitter
  call        \* the locals of every call

core == <<life, level, token>>
vars == <<core, stored, answered, disclosed, calls, audit, jobs, call>>

Idle == [pc |-> "idle", max |-> None, gen |-> 0, batch |-> {}, from |-> 0,
         job |-> None]

Current == Cardinality(DOMAIN life)

Init ==
  /\ life = [g \in {1} |-> [o \in Objects |-> "active"]]
  /\ level \in [Objects -> Levels]
  /\ token \in Levels
  /\ stored = [k \in Keys |-> None] /\ answered = {}
  /\ disclosed = {} /\ calls = 0 /\ audit = {} /\ jobs = {}
  /\ call = [c \in Callers |-> Idle]

At(c, pc) == call[c].pc = pc

Goto(c, pc) == call' = [call EXCEPT ![c].pc = pc]

Return(c) == call' = [call EXCEPT ![c] = Idle]

-----------------------------------------------------------------------------
(* policy                                                                  *)

\* PolicyEngine.authorize: a token of the same workspace and actor that has
\* the action, has not expired, and reaches the sensitivity.
Authorize(max, sensitivity) == max # None /\ sensitivity <= max

\* The resolver hands out another capability, or none.
Regrant ==
  /\ token' \in Levels \cup {None}
  /\ disclosed' = {}
  /\ UNCHANGED <<life, level, stored, answered, calls, audit, jobs, call>>

\* A publication makes a generation with other lifecycle states.
Publish ==
  /\ Current < MaxGen
  /\ \E s \in [Objects -> {"active", "revoked"}] :
       life' = [g \in DOMAIN life \cup {Current + 1} |->
                  IF g = Current + 1 THEN s ELSE life[g]]
  /\ disclosed' = {}
  /\ UNCHANGED <<level, token, stored, answered, calls, audit, jobs, call>>

-----------------------------------------------------------------------------
(* commands                                                                *)

\* MemoryCommandGateway.execute: the idempotency record is asked first, so a
\* replay is answered whatever has become of generation and capability; then
\* generation, capability and policy; a result other than retry_later is
\* stored.  A handler that raises may have done its work.
Execute(k, p, expected, sensitivity, outcome) ==
  /\ \/ /\ stored[k] = p
        /\ answered' = answered \cup {[key |-> k, payload |-> p]}
        /\ UNCHANGED stored
     \/ /\ stored[k] = None
        /\ expected = Current /\ Authorize(token, sensitivity)
        /\ IF outcome = "final"
           THEN /\ stored' = [stored EXCEPT ![k] = p]
                /\ answered' = answered \cup {[key |-> k, payload |-> p]}
           ELSE UNCHANGED <<stored, answered>>
  /\ disclosed' = {}
  /\ UNCHANGED <<core, calls, audit, jobs, call>>

-----------------------------------------------------------------------------
(* queries                                                                 *)

\* The capability is resolved before the backend is read.
QueryStart(c, asOf) ==
  /\ At(c, "idle") /\ token # None /\ asOf \in DOMAIN life
  /\ call' = [call EXCEPT ![c].pc = "read", ![c].max = token, ![c].gen = asOf]
  /\ disclosed' = {}
  /\ UNCHANGED <<core, stored, answered, calls, audit, jobs>>

\* QueryBackend.read: the objects that are active in the generation it has; a
\* projection may be of another one than the query is pinned to.
QueryRead(c, from, projection) ==
  /\ At(c, "read") /\ from \in DOMAIN life
  /\ IF from # call[c].gen /\ ~projection THEN Return(c)
     ELSE call' = [call EXCEPT ![c].pc = "filter", ![c].from = from,
                     ![c].batch = {o \in Objects : life[from][o] = "active"}]
  /\ disclosed' = {}
  /\ UNCHANGED <<core, stored, answered, calls, audit, jobs>>

\* Mutant: the state at the generation of the batch is taken.
Mut_QueryFilter(c) ==
  LET seen == {o \in call[c].batch : /\ life[call[c].from][o] = "active"
                                     /\ Authorize(call[c].max, level[o])}
  IN
  /\ At(c, "filter")
  /\ disclosed' =
       {[by |-> "query", object |-> o, gen |-> call[c].gen, max |-> call[c].max,
         level |-> level[o]] : o \in seen}
  /\ Return(c)
  /\ UNCHANGED <<core, stored, answered, calls, audit, jobs>>

\* Every record is filtered by its state at the pinned generation, and by the
\* capability of the start.
QueryFilter(c) ==
  LET seen == {o \in call[c].batch : /\ life[call[c].gen][o] = "active"
                                     /\ Authorize(call[c].max, level[o])}
  IN
  /\ At(c, "filter")
  /\ disclosed' =
       {[by |-> "query", object |-> o, gen |-> call[c].gen, max |-> call[c].max,
         level |-> level[o]] : o \in seen}
  /\ Return(c)
  /\ UNCHANGED <<core, stored, answered, calls, audit, jobs>>

-----------------------------------------------------------------------------
(* plugins                                                                 *)

\* PluginManifest and EgressClass: a plugin without egress takes no payload.
EgressAllows(sensitivity, empty) ==
  IF Egress = None THEN empty ELSE sensitivity <= Egress

\* PluginGateway.invoke up to the runner; consume counts under its own lock.
PluginInvoke(c, sensitivity, empty) ==
  /\ At(c, "idle")
  /\ Authorize(token, sensitivity) /\ EgressAllows(sensitivity, empty)
  /\ calls < Quota
  /\ calls' = calls + 1
  /\ disclosed' =
       {[by |-> "plugin", level |-> sensitivity, empty |-> empty,
         max |-> token, call |-> calls']}
  /\ Goto(c, "plugin")
  /\ UNCHANGED <<core, stored, answered, audit, jobs>>

\* The runner times out, crashes or answers; only an answer that is bound to
\* request and manifest and passes the output schema is handed on.
PluginAnswer(c) ==
  /\ At(c, "plugin")
  /\ Return(c)
  /\ disclosed' = {}
  /\ UNCHANGED <<core, stored, answered, calls, audit, jobs>>

-----------------------------------------------------------------------------
(* audit, telemetry and exports                                            *)

\* AuditRecorder.record and the sink: a record is known by its content, and
\* a full sink refuses a new one.
Records(r) == r \in audit \/ Cardinality(audit) < MaxAudit

Record(r) == audit' = audit \cup {r}

AuditOf(c, j, outcome) == [by |-> c, job |-> j, outcome |-> outcome]

\* PrivacyPreservingTelemetry.emit: a point the sink does not take leaves an
\* audit record, or an error.
EmitTelemetry(c) ==
  /\ At(c, "idle") /\ Records(AuditOf(c, None, "degraded"))
  /\ Record(AuditOf(c, None, "degraded"))
  /\ disclosed' = {}
  /\ UNCHANGED <<core, stored, answered, calls, jobs, call>>

\* ExportRequestGateway.submit: policy first; a denial is audited, or raises.
ExportDenied(c, j, sensitivity) ==
  /\ At(c, "idle") /\ ~Authorize(token, sensitivity)
  /\ Records(AuditOf(c, j, "denied")) /\ Record(AuditOf(c, j, "denied"))
  /\ disclosed' = {}
  /\ UNCHANGED <<core, stored, answered, calls, jobs, call>>

\* The job is queued; a job that is queued already is answered with accepted,
\* and is not audited again.
ExportQueued(c, j, sensitivity) ==
  /\ At(c, "idle") /\ Authorize(token, sensitivity)
  /\ jobs' = jobs \cup {j}
  /\ IF j \in jobs THEN UNCHANGED call
     ELSE call' = [call EXCEPT ![c].pc = "audit", ![c].job = j]
  /\ disclosed' = {}
  /\ UNCHANGED <<core, stored, answered, calls, audit>>

\* The submitter is full or does not answer: the request is deferred, and audited.
ExportDeferred(c, j, sensitivity) ==
  /\ At(c, "idle") /\ Authorize(token, sensitivity) /\ j \notin jobs
  /\ Records(AuditOf(c, j, "deferred")) /\ Record(AuditOf(c, j, "deferred"))
  /\ disclosed' = {}
  /\ UNCHANGED <<core, stored, answered, calls, jobs, call>>

\* Mutant: a job whose audit record was refused stays queued.
Mut_ExportAudit(c) ==
  LET r == AuditOf(c, call[c].job, "accepted")
  IN
  /\ At(c, "audit")
  /\ IF Records(r) THEN Record(r) ELSE UNCHANGED audit
  /\ Return(c)
  /\ disclosed' = {}
  /\ UNCHANGED <<core, stored, answered, calls, jobs>>

\* The audit record, or else the job is cancelled.
ExportAudit(c) ==
  LET r == AuditOf(c, call[c].job, "accepted")
  IN
  /\ At(c, "audit")
  /\ IF Records(r) THEN Record(r) /\ UNCHANGED jobs
     ELSE jobs' = jobs \ {call[c].job} /\ UNCHANGED audit
  /\ Return(c)
  /\ disclosed' = {}
  /\ UNCHANGED <<core, stored, answered, calls>>

\* BoundedProjectionJobSubmitter.pop, by a worker.
PopJob ==
  /\ \E j \in jobs : jobs' = jobs \ {j}
  /\ disclosed' = {}
  /\ UNCHANGED <<core, stored, answered, calls, audit, call>>

-----------------------------------------------------------------------------

Next ==
  \/ Regrant \/ Publish \/ PopJob
  \/ \E k \in Keys, p \in Payloads, g \in 0 .. MaxGen, s \in Levels,
        outcome \in {"final", "retry_later", "raised"} :
       Execute(k, p, g, s, outcome)
  \/ \E c \in Callers :
       \/ \E g \in 1 .. MaxGen : QueryStart(c, g)
       \/ \E g \in 1 .. MaxGen, projection \in BOOLEAN :
            QueryRead(c, g, projection)
       \/ QueryFilter(c)
       \/ \E s \in Levels, empty \in BOOLEAN : PluginInvoke(c, s, empty)
       \/ PluginAnswer(c) \/ EmitTelemetry(c) \/ ExportAudit(c)
       \/ \E j \in Jobs, s \in Levels :
            ExportDenied(c, j, s) \/ ExportDeferred(c, j, s) \/ ExportQueued(c, j, s)

Spec == Init /\ [][Next]_vars

-----------------------------------------------------------------------------

Call ==
  [pc : {"idle", "read", "filter", "plugin", "audit"}, max : Levels \cup {None},
   gen : 0 .. MaxGen, batch : SUBSET Objects, from : 0 .. MaxGen, job : Jobs \cup {None}]

\* Types of the capability, the stored commands, the counters and the locals.
TypeOK ==
  /\ token \in Levels \cup {None}
  /\ stored \in [Keys -> Payloads \cup {None}]
  /\ calls \in 0 .. Quota /\ jobs \subseteq Jobs
  /\ call \in [Callers -> Call]

\* A key answers one command only; what a query lets out is active at the
\* generation it is pinned to, even when it came from the projection of
\* another one, and within the capability; and a plugin sees nothing above its
\* egress class, and not more often than its quota.
AnswersAreBound ==
  /\ \A a, b \in answered : a.key = b.key => a.payload = b.payload
  /\ \A d \in disclosed :
       /\ d.level <= d.max
       /\ d.by = "query" => life[d.gen][d.object] = "active"
       /\ d.by = "plugin" => d.call <= Quota /\ EgressAllows(d.level, d.empty)

\* ADR-0009: no export job stays queued without an audit record of its
\* acceptance, or a call that is about to write it.
NoOrphanJob ==
  \A j \in jobs :
    \/ \E c \in Callers : AuditOf(c, j, "accepted") \in audit
    \/ \E c \in Callers : At(c, "audit") /\ call[c].job = j

\* A command key answers one payload, a query lets out what is active at its
\* generation and within the capability, a plugin what its egress class allows,
\* and no export job stays queued without the audit record of its acceptance
\* (CommandGateway, QueryGateway, PluginGateway, ExportRequestGateway).
GatewaysAreSafe == TypeOK /\ AnswersAreBound /\ NoOrphanJob

-----------------------------------------------------------------------------
(* The inductive invariant behind GatewaysAreSafe.                         *)

\* What was answered is what is stored, for good.
AnswersAreStored ==
  \A a \in answered : a.key \in Keys /\ a.payload \in Payloads /\ stored[a.key] = a.payload

GatewayInvariant == GatewaysAreSafe /\ AnswersAreStored
=============================================================================
