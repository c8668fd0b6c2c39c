------------------------- MODULE SecondBrainRelease -------------------------
(* The gates of a Second Brain release: source-by-source cutover           *)
(* (memory_core/second_brain_cutover.py), the product-release envelope     *)
(* (memory_core/second_brain_product_release.py) and the certificate that  *)
(* keeps the old source read-only.  The code decides and never acts: the   *)
(* operator who holds manifests, decisions and receipts, calls the gates   *)
(* and then switches the route is the environment of this module.          *)
EXTENDS Integers, FiniteSets

CONSTANTS
  Sources,      \* migration sources
  MaxScope,     \* bound on resolved scopes
  Drills,       \* kinds of operational drill the release requires
  Foundations,  \* digests of foundational receipts
  MinDays,      \* MIN_OBSERVATION_DAYS and the retention period, in ticks
  MaxDay,       \* bound of the calendar
  MaxDecisions  \* bound on signed decisions

VARIABLES
  scope,        \* the resolved scope in force: its number
  enabled,      \* scope number -> its enabled migration sources
  cohort,       \* the cohort manifest in force
  decisions,    \* signed cutover decisions
  drills,       \* drill kind -> outcome of its receipt
  stale,        \* foundational receipts known to be stale
  envelope,     \* the product-release envelope, or NoEnvelope
  released,     \* the envelope was admitted
  route,        \* where reads go: "external" or "canonical"
  day,          \* days since the observation began
  closedOn      \* the day the rollback window closed

vars == <<scope, enabled, cohort, decisions, drills, stale, envelope,
          released, route, day, closedOn>>

(* _ALLOWED_TRANSITIONS.                                                   *)
Transitions ==
  [DISCOVERED |-> {"IMPORTING"},
   IMPORTING |-> {"QUARANTINED_ITEM", "RECONCILING", "READY_NON_SERVING"},
   QUARANTINED_ITEM |-> {"IMPORTING", "RECONCILING"},
   RECONCILING |-> {"IMPORTING", "READY_NON_SERVING"},
   READY_NON_SERVING |-> {"CUTOVER_READY"},
   CUTOVER_READY |-> {"ROUTE_SWITCHED_NO_MUTATION"},
   ROUTE_SWITCHED_NO_MUTATION |-> {"CANONICAL_MUTATED", "ROLLED_BACK_RECONCILE"},
   CANONICAL_MUTATED |-> {"ROLLBACK_CLOSED"},
   ROLLBACK_CLOSED |-> {"DECOMMISSIONED"},
   ROLLED_BACK_RECONCILE |-> {"IMPORTING"},
   DECOMMISSIONED |-> {}]

Mutated == {"CANONICAL_MUTATED", "ROLLBACK_CLOSED", "DECOMMISSIONED"}
NoEnvelope == [scope |-> 0, drills |-> {}, foundations |-> {}]

(* A digest binds a body, so a manifest is named by its content: one       *)
(* source, the state and the scope it was built for.                       *)
Manifest(s, state, sc) == [source |-> s, state |-> state, scope |-> sc]

Init ==
  /\ scope = 1
  /\ enabled \in [1..MaxScope -> SUBSET Sources]
  /\ \E s \in enabled[1] : cohort = Manifest(s, "DISCOVERED", 1)
  /\ decisions = {} /\ drills = [k \in Drills |-> "NONE"]
  /\ stale = {} /\ envelope = NoEnvelope /\ released = FALSE
  /\ route = "external" /\ day = 0 /\ closedOn = 0

-----------------------------------------------------------------------------
(* assert_cohort_subset_of_enabled_migration_sources.                      *)
CohortInScope(c) == c.scope = scope /\ c.source \in enabled[scope]

(* assert_cohort_transition, for the steps that move no route.             *)
Prepare(next) ==
  /\ next \in Transitions[cohort.state]
  /\ next \notin {"ROUTE_SWITCHED_NO_MUTATION", "CANONICAL_MUTATED",
                  "ROLLED_BACK_RECONCILE", "ROLLBACK_CLOSED", "DECOMMISSIONED"}
  /\ CohortInScope([cohort EXCEPT !.state = next])
  /\ cohort' = [cohort EXCEPT !.state = next]
  /\ UNCHANGED <<scope, enabled, decisions, drills, stale, envelope, released,
                 route, day, closedOn>>

(* A new resolved scope takes over; a cohort is rebuilt for it while it    *)
(* has switched nothing.                                                   *)
ResolveScope ==
  /\ scope < MaxScope
  /\ scope' = scope + 1
  /\ UNCHANGED <<enabled, cohort, decisions, drills, stale, envelope, released,
                 route, day, closedOn>>

RebuildCohort(s) ==
  /\ route = "external"
  /\ CohortInScope(Manifest(s, "DISCOVERED", scope))
  /\ cohort' = Manifest(s, "DISCOVERED", scope)
  /\ UNCHANGED <<scope, enabled, decisions, drills, stale, envelope, released,
                 route, day, closedOn>>

(* CutoverDecisionV1: formula_pass is recomputed from the numbers; the     *)
(* four approver roles sign.                                               *)
Formula(days, rates, holdoutChanged) ==
  days >= MinDays /\ rates /\ ~holdoutChanged

Decide(rates, holdoutChanged) ==
  /\ Cardinality(decisions) < MaxDecisions
  /\ decisions' = decisions \cup
       {[manifest |-> cohort, scope |-> scope, days |-> day,
         pass |-> Formula(day, rates, holdoutChanged)]}
  /\ UNCHANGED <<scope, enabled, cohort, drills, stale, envelope, released,
                 route, day, closedOn>>

(* assert_cutover_decision_joins_scope_and_cohort.                         *)
Mut_Joins(d) ==
  /\ d.scope = scope
  /\ cohort.state \in {"CUTOVER_READY", "ROUTE_SWITCHED_NO_MUTATION"}
  /\ d.pass

Joins(d) ==
  /\ d.scope = scope
  /\ d.manifest = cohort
  /\ cohort.state \in {"CUTOVER_READY", "ROUTE_SWITCHED_NO_MUTATION"}
  /\ d.pass

(* assert_live_route_switch_authorized: the operator switches the route    *)
(* once a joined decision passes and the humans approved.  The join does   *)
(* not compare the cohort's scope with the one in force, so the operator   *)
(* puts the cohort through its own gate again.                             *)
SwitchRoute(d, approved) ==
  /\ cohort.state = "CUTOVER_READY"
  /\ CohortInScope(cohort) /\ Joins(d) /\ approved
  /\ route' = "canonical"
  /\ cohort' = [cohort EXCEPT !.state = "ROUTE_SWITCHED_NO_MUTATION"]
  /\ UNCHANGED <<scope, enabled, decisions, drills, stale, envelope, released,
                 day, closedOn>>

(* assert_pre_mutation_rollback_allowed.                                   *)
RollBack ==
  /\ cohort.state = "ROUTE_SWITCHED_NO_MUTATION"
  /\ route' = "external"
  /\ cohort' = [cohort EXCEPT !.state = "ROLLED_BACK_RECONCILE"]
  /\ UNCHANGED <<scope, enabled, decisions, drills, stale, envelope, released,
                 day, closedOn>>

(* The first canonical mutation; it closes the external rollback           *)
(* (assert_post_mutation_fail_closed).                                     *)
Mutate ==
  /\ "CANONICAL_MUTATED" \in Transitions[cohort.state]
  /\ cohort' = [cohort EXCEPT !.state = "CANONICAL_MUTATED"]
  /\ UNCHANGED <<scope, enabled, decisions, drills, stale, envelope, released,
                 route, day, closedOn>>

ExternalRollback == cohort.state \notin Mutated /\ RollBack

CloseRollback ==
  /\ "ROLLBACK_CLOSED" \in Transitions[cohort.state]
  /\ cohort' = [cohort EXCEPT !.state = "ROLLBACK_CLOSED"]
  /\ closedOn' = day
  /\ UNCHANGED <<scope, enabled, decisions, drills, stale, envelope, released,
                 route, day>>

(* assert_destructive_decommission_authorized; the retention certificate   *)
(* names the same period and authorizes no deletion before it.             *)
Decommission(evidence, approved) ==
  /\ cohort.state = "ROLLBACK_CLOSED"
  /\ day - closedOn >= MinDays
  /\ evidence /\ approved
  /\ cohort' = [cohort EXCEPT !.state = "DECOMMISSIONED"]
  /\ UNCHANGED <<scope, enabled, decisions, drills, stale, envelope, released,
                 route, day, closedOn>>

-----------------------------------------------------------------------------
(* Drill receipts, and the envelope that binds them to the scope.          *)
RunDrill(k, outcome) ==
  /\ drills[k] = "NONE"
  /\ drills' = [drills EXCEPT ![k] = outcome]
  /\ UNCHANGED <<scope, enabled, cohort, decisions, stale, envelope, released,
                 route, day, closedOn>>

WithdrawFoundation(f) ==
  /\ f \notin stale
  /\ stale' = stale \cup {f}
  /\ UNCHANGED <<scope, enabled, cohort, decisions, drills, envelope, released,
                 route, day, closedOn>>

BuildEnvelope(fs) ==
  /\ envelope = NoEnvelope \/ ~released
  /\ \E k \in Drills : drills[k] # "NONE"
  /\ envelope' = [scope |-> scope, foundations |-> fs,
                  drills |-> {k \in Drills : drills[k] # "NONE"}]
  /\ UNCHANGED <<scope, enabled, cohort, decisions, drills, stale, released,
                 route, day, closedOn>>

(* assert_envelope_matches_scope_and_contract.                             *)
EnvelopeMatches ==
  /\ envelope.scope = scope
  /\ envelope.foundations \cap stale = {}

(* assert_required_drills_present.                                         *)
DrillsPass == /\ envelope.drills = Drills
              /\ \A k \in Drills : drills[k] = "PASS"

Admit ==
  /\ ~released /\ envelope # NoEnvelope
  /\ EnvelopeMatches /\ DrillsPass
  /\ released' = TRUE
  /\ UNCHANGED <<scope, enabled, cohort, decisions, drills, stale, envelope,
                 route, day, closedOn>>

Tick == /\ day < MaxDay
        /\ day' = day + 1
        /\ UNCHANGED <<scope, enabled, cohort, decisions, drills, stale,
                       envelope, released, route, closedOn>>

Next ==
  \/ \E next \in DOMAIN Transitions : Prepare(next)
  \/ ResolveScope
  \/ \E s \in Sources : RebuildCohort(s)
  \/ \E rates, changed \in BOOLEAN : Decide(rates, changed)
  \/ \E d \in decisions, approved \in BOOLEAN : SwitchRoute(d, approved)
  \/ ExternalRollback \/ Mutate \/ CloseRollback
  \/ \E evidence, approved \in BOOLEAN : Decommission(evidence, approved)
  \/ \E k \in Drills, o \in {"PASS", "FAIL"} : RunDrill(k, o)
  \/ \E f \in Foundations : WithdrawFoundation(f)
  \/ \E fs \in SUBSET Foundations : BuildEnvelope(fs)
  \/ Admit \/ Tick

Spec == Init /\ [][Next]_vars

-----------------------------------------------------------------------------
(* The route moves to the canonical store only for a source the scope then *)
(* in force enables, on a decision that observed this very manifest long   *)
(* enough under this scope; after the first canonical mutation it never    *)
(* moves back, and the old source is decommissioned only when it stayed    *)
(* read-only for the whole retention (the gates of                         *)
(* second_brain_cutover.py, whatever decisions and scopes came before).    *)
(* A release is admitted only on drills that all passed.                   *)
CutoverStep ==
  /\ (route = "external" /\ route' = "canonical") =>
        /\ cohort.source \in enabled[scope]
        /\ \E d \in decisions :
             /\ d.manifest = cohort /\ d.scope = scope
             /\ d.pass /\ d.days >= MinDays
  /\ cohort.state \in Mutated => route' = route /\ cohort'.state \in Mutated
  /\ (cohort'.state = "DECOMMISSIONED" /\ cohort.state # "DECOMMISSIONED")
        => day >= closedOn + MinDays /\ route = "canonical"
  /\ released' => \A k \in Drills : drills'[k] = "PASS"

(* The route is the cohort's, and neither a decision nor an admitted       *)
(* release outlives what it was given for: this is what makes the gates,   *)
(* each of which sees one moment, enough for CutoverStep.                  *)
ReleaseAssumption == MinDays \in Nat /\ MaxScope \in Nat \ {0}

TypeOK ==
  /\ scope \in 1..MaxScope /\ enabled \in [1..MaxScope -> SUBSET Sources]
  /\ cohort \in [source : Sources, state : DOMAIN Transitions, scope : 1..MaxScope]
  /\ drills \in [Drills -> {"NONE", "PASS", "FAIL"}]
  /\ route \in {"external", "canonical"} /\ day \in Nat /\ closedOn \in Nat

RouteFollowsCohort ==
  route = "canonical" <=> cohort.state \in {"ROUTE_SWITCHED_NO_MUTATION"} \cup Mutated

ReleaseInvariant ==
  /\ TypeOK
  /\ RouteFollowsCohort
  /\ \A d \in decisions : d.pass => d.days >= MinDays
  /\ released => \A k \in Drills : drills[k] = "PASS"

(* Every step of the gates and of the operator is a CutoverStep.           *)
CutoverIsEarned == [][CutoverStep]_vars
=============================================================================
