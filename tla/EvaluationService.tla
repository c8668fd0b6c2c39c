-------------------------- MODULE EvaluationService --------------------------
(* The evaluation boundary (applications/second_brain_evaluation_service.py *)
(* over memory_core/second_brain_evaluation_contracts.py): benchmark and    *)
(* holdout material is kept out of serving, reflection proposals fall with  *)
(* the candidates that support them, and projections leave only through the *)
(* destinations the resolved scope allows.                                  *)
EXTENDS Naturals, Sequences, FiniteSets

CONSTANTS
  Candidates,    \* memory candidates that support proposals
  Items,         \* content digests
  Benchmark,     \* item digests of the benchmark manifest
  Holdout,       \* item digests of the holdout manifest
  Routes,        \* external model routes and export destinations
  EnabledRoutes, \* the ones the resolved scope enables
  MaxEdges,      \* bound on registered support edges
  MaxProposals,  \* bound on reflection proposals held
  MaxProjections \* bound on published projections

VARIABLES
  serving,     \* content digests the ledger serves
  proposals,   \* reflection proposals, in submission order
  edges,       \* registered support edges <<supporter, dependent>>
  projections, \* published projections, in order
  report,      \* the last isolation report: the digests it covered, or {}
  withdrawn    \* the candidates last withdrawn, until the next submission
               \* or edge (history: withdraw_support keeps no record)

vars == <<serving, proposals, edges, projections, report, withdrawn>>

Local == "local"

Proposal(supports, via) == [supports |-> supports, via |-> via]
Projection(ref, dest, withheld) ==
  [ref |-> ref, dest |-> dest, withheld |-> withheld]

(* The governance tool: two non-empty manifests without a shared item.     *)
Separated == Benchmark # {} /\ Holdout # {} /\ Benchmark \cap Holdout = {}

(* EvaluationGovernanceV1 and the constructor of the service.              *)
Init ==
  /\ Separated
  /\ serving = {} /\ proposals = <<>> /\ edges = {}
  /\ projections = <<>> /\ report = {} /\ withdrawn = {}

(* The ledger admits or drops a candidate; it does not ask this service.   *)
Serve(c) ==
  /\ serving' = IF c \in serving THEN serving \ {c} ELSE serving \cup {c}
  /\ UNCHANGED <<proposals, edges, projections, report, withdrawn>>

(* assert_evaluation_isolated_from_serving and                             *)
(* assert_serving_content_allowed, over the snapshot just acquired.        *)
Isolated(served) == served \cap (Benchmark \cup Holdout) = {}

ProveIsolation ==
  /\ serving # {} /\ Isolated(serving)
  /\ report' = serving
  /\ UNCHANGED <<serving, proposals, edges, projections, withdrawn>>

RegisterSupportEdge(a, b) ==
  /\ Cardinality(edges) < MaxEdges
  /\ edges' = edges \cup {<<a, b>>}
  /\ withdrawn' = {}
  /\ UNCHANGED <<serving, proposals, projections, report>>

(* assert_rationale_egress_allowed: a rationale that carries a forbidden   *)
(* marker is refused, local or not; an external one needs its route.       *)
SubmitReflection(supports, via, marked) ==
  /\ Len(proposals) < MaxProposals
  /\ ~marked /\ via \in EnabledRoutes \cup {Local}
  /\ proposals' = Append(proposals, Proposal(supports, via))
  /\ withdrawn' = {}
  /\ UNCHANGED <<serving, edges, projections, report>>

(* transitive_support_closure: a work list over the direct edges, of which *)
(* a turn takes one candidate; one that was seen is not looked at again.   *)
Dependents(a) == {b \in Candidates : <<a, b>> \in edges}

Visit(walk) ==
  LET node == CHOOSE x \in walk.todo : TRUE
      seen == walk.seen \cup {node}
  IN IF walk.todo = {} THEN walk
     ELSE [seen |-> seen, todo |-> (walk.todo \cup Dependents(node)) \ seen]

Mut_SupportClosure(roots) ==
  roots \cup {b \in Candidates : \E a \in roots : <<a, b>> \in edges}

SupportClosure(roots) ==
  LET walk[n \in 0 .. Cardinality(Candidates)] ==
        IF n = 0 THEN [seen |-> {}, todo |-> roots] ELSE Visit(walk[n-1])
  IN walk[Cardinality(Candidates)].seen

(* invalidate_reflection_support_transitive: the proposals left, in order. *)
Standing(fallen) ==
  LET kept[n \in 0 .. Len(proposals)] ==
        IF n = 0 THEN <<>>
        ELSE IF proposals[n].supports \cap fallen = {}
             THEN Append(kept[n-1], proposals[n]) ELSE kept[n-1]
  IN kept[Len(proposals)]

WithdrawSupport(roots) ==
  /\ proposals' = Standing(SupportClosure(roots))
  /\ withdrawn' = roots
  /\ UNCHANGED <<serving, edges, projections, report>>

(* assert_projection_export_allowed.                                       *)
PublishProjection(ref, dest) ==
  /\ Len(projections) < MaxProjections
  /\ dest \in EnabledRoutes \cup {Local}
  /\ projections' = Append(projections, Projection(ref, dest, FALSE))
  /\ UNCHANGED <<serving, proposals, edges, report, withdrawn>>

(* withhold_projection replaces the first projection of that reference; a  *)
(* later one of the same reference stays published.                        *)
WithholdProjection(ref) ==
  /\ \E i \in 1..Len(projections) : projections[i].ref = ref
  /\ LET i == CHOOSE x \in 1..Len(projections) :
                /\ projections[x].ref = ref
                /\ \A y \in 1..(x - 1) : projections[y].ref # ref
     IN /\ ~projections[i].withheld
        /\ projections' = [projections EXCEPT ![i] = Projection(ref, Local, TRUE)]
  /\ UNCHANGED <<serving, proposals, edges, report, withdrawn>>

Next ==
  \/ \E c \in Items : Serve(c)
  \/ ProveIsolation
  \/ \E a, b \in Candidates : RegisterSupportEdge(a, b)
  \/ \E s \in SUBSET Candidates, v \in Routes \cup {Local}, m \in BOOLEAN :
        s # {} /\ SubmitReflection(s, v, m)
  \/ \E r \in SUBSET Candidates : r # {} /\ WithdrawSupport(r)
  \/ \E c \in Candidates, d \in Routes \cup {Local} : PublishProjection(c, d)
  \/ \E c \in Candidates : WithholdProjection(c)

Spec == Init /\ [][Next]_vars

-----------------------------------------------------------------------------
(* A path of support edges from a to b, by its definition.                 *)
Supports(a, b) ==
  \E n \in 1..Cardinality(Candidates) :
    \E path \in [1..n -> Candidates] :
      /\ path[1] = a /\ path[n] = b
      /\ \A i \in 1..(n - 1) : <<path[i], path[i+1]>> \in edges

(* withdraw_support: once a candidate is withdrawn no proposal is left     *)
(* that rests on it along some path of support edges, cycles included; and *)
(* no proposal or projection ever names a route or destination the scope   *)
(* does not enable, a withheld one none at all.                            *)
WithdrawalReaches ==
  /\ \A i \in 1..Len(proposals) :
       /\ \A a \in withdrawn, b \in proposals[i].supports : ~Supports(a, b)
       /\ proposals[i].via \in EnabledRoutes \cup {Local}
  /\ \A i \in 1..Len(projections) :
       /\ projections[i].dest \in EnabledRoutes \cup {Local}
       /\ projections[i].withheld => projections[i].dest = Local

-----------------------------------------------------------------------------
(* Edges and supports are over finitely many candidates.                   *)
EvaluationAssumption == IsFiniteSet(Candidates)

(* Inductive with the property.                                            *)
Held ==
  /\ edges \subseteq Candidates \X Candidates /\ withdrawn \subseteq Candidates
  /\ proposals \in Seq([supports : SUBSET Candidates, via : EnabledRoutes \cup {Local}])
  /\ projections \in Seq([ref : Candidates, dest : EnabledRoutes \cup {Local},
                          withheld : BOOLEAN])

EvaluationInvariant == Held /\ WithdrawalReaches
=============================================================================
