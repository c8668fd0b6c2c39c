------------------------------- MODULE MCCore -------------------------------
(***************************************************************************)
(* The control plane's lease and the memory_core components that share no  *)
(* state with it or with one another: projections, recovery, backpressure, *)
(* gateways and registries. A behaviour is one of a single component, the  *)
(* active one, so the states of a run are those of its components side by  *)
(* side. The configuration gives the parameters; CoreProofs keeps them     *)
(* arbitrary.                                                              *)
(***************************************************************************)
EXTENDS PublisherLease, TLC

CONSTANTS
  None,
  Runs, Generations, RecordSets, Optional,               \* Projections
  Coordinators, Items, Required, SignedItems, MaxOverlays, \* RecoveryCoordinator
  WorkItems, Workers, MaxItems, MaxCost, PerWorkspace, MaxOperations, MaxAttempts,
  MaxTotal, Threshold, ResetAfter, MaxPressureClock,     \* Backpressure
  Callers, CommandKeys, Payloads, Objects, Jobs, MaxLevel, MaxGen, MaxAudit, Quota,
  Egress,                                                \* CoreGateways
  Kinds, KeyIds, MaxVersion, MaxKeyTime                  \* Registries

VARIABLES
  active,   \* the component of the behaviour
  source, staged, pointers, run, published,
  anchor, issued, vetoes, freeze, restores, evidence, leaked, co,
  queue, wsCounts, cost, budget, circuit, pressureClock, hand, probes,
  life, level, token, stored, answered, disclosed, calls, audit, jobs, call,
  schemas, writeVer, migrations, kinds, keys, activeKey, keyClock, signatures, retired

Proj == INSTANCE Projections WITH Records <- RecordSets, Nothing <- None

Recovery == INSTANCE RecoveryCoordinator

Pressure == INSTANCE Backpressure
    WITH Items <- WorkItems, MaxClock <- MaxPressureClock, clock <- pressureClock

Gateways == INSTANCE CoreGateways WITH Keys <- CommandKeys

Regs == INSTANCE Registries
    WITH MaxTime <- MaxKeyTime, clock <- keyClock, active <- activeKey

\* Work items: two of one operation, the second dear and short-lived, and one of
\* another operation and workspace.
Item(id, op, ws, price, deadline) ==
  [id |-> id, op |-> op, ws |-> ws, cost |-> price, deadline |-> deadline]
MCItems == {Item(1, "o", "w", 1, 3), Item(2, "o", "w", 2, 2), Item(3, "p", "v", 1, 3)}

\* The threads of every component are the same model values.
Symmetry == Permutations(Generations) \cup Permutations(Callers)

projVars == <<source, staged, pointers, run, published>>
recoveryVars == <<anchor, issued, vetoes, freeze, restores, evidence, leaked, co>>
pressureVars == <<queue, wsCounts, cost, budget, circuit, pressureClock, hand, probes>>
gatewaysVars == <<life, level, token, stored, answered, disclosed, calls, audit, jobs,
                  call>>
regsVars == <<schemas, writeVer, migrations, kinds, keys, activeKey, keyClock,
              signatures, retired>>

\* The variables of a component that is not active are off; those of
\* PublisherLease keep their initial values.
Off == "off"
ProjOff ==
  /\ source = Off /\ staged = Off /\ pointers = Off /\ run = Off /\ published = Off
RecoveryOff ==
  /\ anchor = Off /\ issued = Off /\ vetoes = Off /\ freeze = Off /\ restores = Off
  /\ evidence = Off /\ leaked = Off /\ co = Off
PressureOff ==
  /\ queue = Off /\ wsCounts = Off /\ cost = Off /\ budget = Off /\ circuit = Off
  /\ pressureClock = Off /\ hand = Off /\ probes = Off
GatewaysOff ==
  /\ life = Off /\ level = Off /\ token = Off /\ stored = Off /\ answered = Off
  /\ disclosed = Off /\ calls = Off /\ audit = Off /\ jobs = Off /\ call = Off
RegsOff ==
  /\ schemas = Off /\ writeVer = Off /\ migrations = Off /\ kinds = Off /\ keys = Off
  /\ activeKey = Off /\ keyClock = Off /\ signatures = Off /\ retired = Off

Components == {"lease", "projections", "recovery", "backpressure", "gateways",
               "registries"}

MCInit ==
  /\ active \in Components
  /\ Init
  /\ IF active = "projections" THEN Proj!Init ELSE ProjOff
  /\ IF active = "recovery" THEN Recovery!Init ELSE RecoveryOff
  /\ IF active = "backpressure" THEN Pressure!Init ELSE PressureOff
  /\ IF active = "gateways" THEN Gateways!Init ELSE GatewaysOff
  /\ IF active = "registries" THEN Regs!Init ELSE RegsOff

\* Only the active component takes steps.
MCNext ==
  \/ /\ active = "lease" /\ Next
     /\ UNCHANGED <<active, projVars, recoveryVars, pressureVars, gatewaysVars, regsVars>>
  \/ /\ active = "projections" /\ Proj!Next
     /\ UNCHANGED <<active, vars, recoveryVars, pressureVars, gatewaysVars, regsVars>>
  \/ /\ active = "recovery" /\ Recovery!Next
     /\ UNCHANGED <<active, vars, projVars, pressureVars, gatewaysVars, regsVars>>
  \/ /\ active = "backpressure" /\ Pressure!Next
     /\ UNCHANGED <<active, vars, projVars, recoveryVars, gatewaysVars, regsVars>>
  \/ /\ active = "gateways" /\ Gateways!Next
     /\ UNCHANGED <<active, vars, projVars, recoveryVars, pressureVars, regsVars>>
  \/ /\ active = "registries" /\ Regs!Next
     /\ UNCHANGED <<active, vars, projVars, recoveryVars, pressureVars, gatewaysVars>>

all == <<active, vars, projVars, recoveryVars, pressureVars, gatewaysVars, regsVars>>

MCSpec == MCInit /\ [][MCNext]_all

-----------------------------------------------------------------------------

ASSUME
  /\ Proj!ProjectionsAssumption /\ Recovery!RecoveryAssumption
  /\ Gateways!GatewayAssumption /\ Regs!RegistryAssumption
  /\ Pressure!PressureAssumption

\* No reader of the projections sees a half-published minimum profile or a
\* pointer to a manifest that was not staged, does not bind it or lost the race
\* for the minimum profile; and a rebuild is refused for a conflict only when
\* another one won it (ProjectionCoordinator.rebuild).
PointersAreServable == active = "projections" => Proj!PointersAreServable

\* A restore holds what its verified manifest and the issued overlays leave and
\* nothing else, and a coordinator that returned holds no freeze, whichever of
\* its steps failed (RecoveryCoordinator.restore).
RestoreIsSafe == active = "recovery" => Recovery!RestoreIsSafe

\* The counters of the bounded queue and of the retry budget say what was
\* admitted, in whatever order items are submitted, cancelled, expired and
\* reported (operability.py).
QueueAccounting == active = "backpressure" => Pressure!QueueAccounting

\* A command key answers one payload, a query lets out what is active at its
\* generation and within the capability, a plugin what its egress class allows,
\* and no export job stays queued without the audit record of its acceptance
\* (CommandGateway, QueryGateway, PluginGateway, ExportRequestGateway).
GatewaysAreSafe == active = "gateways" => Gateways!GatewaysAreSafe

\* What was signed or written stays verifiable and readable after any sequence
\* of registrations, migrations and rotations (ADR-0007, schema, kind and key
\* registries).
HistoryStaysReadable == active = "registries" => Regs!HistoryStaysReadable

\* Round 15 of the adversarial validation: a half-open circuit has one probe.
SingleProbe == active = "backpressure" => Pressure!SingleProbe
=============================================================================
