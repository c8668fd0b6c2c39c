----------------------------- MODULE MCProgress -----------------------------
(***************************************************************************)
(* Progress: small instances of the release mirror, of the orchestrator    *)
(* and of the deletion of encrypted memory, with the fairness of their     *)
(* processes. The three share no state. A behaviour is one of a single     *)
(* component, the active one; the others keep their initial states.        *)
(***************************************************************************)
EXTENDS ReleaseMirror

CONSTANTS w1, w2

VARIABLES
  active,   \* the component of the behaviour
  clock, owner, rec, results, worker, executions, crashes,
  stored, phase, tombs, platform, recovery, caller, lifeCrashes

Runtime == INSTANCE RuntimeOrchestrator
    WITH Workers <- {w1, w2}, Operations <- {"o1", "o2"}, Contents <- {"x1", "x2"},
         Stages <- 1, MaxAttempts <- 1, Lease <- 1, Deadline <- 1, MaxTime <- 1,
         MaxCrashes <- 1

Life == INSTANCE EncryptedLifecycle
    WITH Callers <- {w1, w2}, Artifacts <- {"a"}, Reasons <- {"r"}, Source <- "source",
         None <- "none", MaxCrashes <- 1, crashes <- lifeCrashes

runtimeVars == <<clock, owner, rec, results, worker, executions, crashes>>
lifeVars == <<stored, phase, tombs, platform, recovery, caller, lifeCrashes>>

Components == {"mirror", "runtime", "lifecycle"}

MCInit ==
  /\ active \in Components
  /\ Init
  /\ Runtime!Init
  /\ Life!Init

\* Only the active component takes steps.
MCNext ==
  \/ /\ active = "mirror" /\ Next
     /\ UNCHANGED <<active, runtimeVars, lifeVars>>
  \/ /\ active = "runtime" /\ Runtime!Next
     /\ UNCHANGED <<active, vars, lifeVars>>
  \/ /\ active = "lifecycle" /\ Life!Next
     /\ UNCHANGED <<active, vars, runtimeVars>>

all == <<active, vars, runtimeVars, lifeVars>>

MCSpec == MCInit /\ [][MCNext]_all

\* A call that was started goes on in every component; mirror runs are started
\* again and again, interrupted deletions are resumed again and again, time
\* passes and clients poll the status of an operation.
Fairness ==
  /\ WF_runtimeVars(active = "runtime" /\ Runtime!Tick)
  /\ WF_runtimeVars(active = "runtime" /\ Runtime!Status)
  /\ \A w \in {w1, w2} :
       /\ WF_vars(active = "mirror" /\ Step(w))
       /\ WF_runtimeVars(active = "runtime" /\ Runtime!Step(w))
       /\ WF_lifeVars(active = "lifecycle" /\ Life!Step(w))
       /\ \A d \in {"r", "source"} :
            SF_lifeVars(active = "lifecycle" /\ Life!Resume(w, "a", d))

MCFairSpec == MCSpec /\ Fairness

-----------------------------------------------------------------------------

\* An operation does not stay open for ever: a worker that died with the claim
\* blocks it until the deadline at most (RuntimeOrchestrator.run, status).
OperationEnds == Runtime!OperationEnds

\* A deletion of an artifact whose keys were registered completes when it is
\* resumed, whichever steps were lost in a crash (forget, resume).
RegisteredForgetCompletes == Life!RegisteredForgetCompletes
=============================================================================
