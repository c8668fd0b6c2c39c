------------------------------ MODULE MCBrain -------------------------------
(***************************************************************************)
(* Brain for model checking. Governance is checked in two ways: two        *)
(* resolvers over files that trusted keys sign, and one resolver at a time *)
(* over the files of one decision, which a key that is not trusted also    *)
(* signs.                                                                  *)
(***************************************************************************)
EXTENDS Brain, TLC

Symmetry == Permutations(Threads) \cup Permutations(Devices)

ledgerVars == <<migration, seq, candidate, versions, closures, edges, cursors, reader>>
accessVars == <<gate, accessClock, authority, device, accessEpoch, delegated,
                accessCaps, receipts, secret, accessCalls, handed, egress, current, sending, sent, consent,
                retention, sandbox, items, served>>
governanceVars == <<body, sigs, records, scope, payload, aggSig, evSig, aggEnv, evEnv,
                    wall, receipt, resolver>>
evaluationVars == <<serving, proposals, supports, projections, report, taken>>

\* The variables of a component that is not active are off; those of
\* IdentityAuthorization keep their initial values.
Off == "off"
LedgerOff ==
  /\ migration = Off /\ seq = Off /\ candidate = Off /\ versions = Off
  /\ closures = Off /\ edges = Off /\ cursors = Off /\ reader = Off
AccessOff ==
  /\ gate = Off /\ accessClock = Off /\ authority = Off /\ device = Off
  /\ accessEpoch = Off /\ delegated = Off /\ accessCaps = Off /\ receipts = Off
  /\ secret = Off /\ accessCalls = Off
  /\ handed = Off /\ egress = Off /\ current = Off /\ sending = Off /\ sent = Off
  /\ consent = Off /\ retention = Off /\ sandbox = Off /\ items = Off /\ served = Off
GovernanceOff ==
  /\ body = Off /\ sigs = Off /\ records = Off /\ scope = Off /\ payload = Off
  /\ aggSig = Off /\ evSig = Off /\ aggEnv = Off /\ evEnv = Off /\ wall = Off
  /\ receipt = Off /\ resolver = Off
EvaluationOff ==
  /\ serving = Off /\ proposals = Off /\ supports = Off /\ projections = Off
  /\ report = Off /\ taken = Off

Components == {"ledger", "access", "governance", "untrusted", "evaluation", "identity"}

MCInit ==
  /\ active \in Components
  /\ Init
  /\ IF active = "ledger" THEN Ledger!Init ELSE LedgerOff
  /\ IF active = "access" THEN Access!Init ELSE AccessOff
  /\ IF active \in {"governance", "untrusted"} THEN Governance!Init ELSE GovernanceOff
  /\ IF active = "evaluation" THEN Evaluation!Init ELSE EvaluationOff

\* The two ways in which governance is checked.
TrustedOnly == \A s \in sigs' : s.key = "trusted"
OneDecision ==
  /\ \A d \in Scoped : body'[d] = body[d]
  /\ \A s \in sigs' \ sigs : s.d \in Globals
  /\ \E p \in Threads : \A q \in Threads \ {p} : resolver'[q] = Governance!Idle
  /\ \A p \in Threads : resolver'[p] # resolver[p] /\ resolver[p] = Governance!Idle =>
                        resolver'[p].now = 0

\* Only the active component takes steps.
MCNext ==
  \/ /\ active = "ledger" /\ Ledger!Next
     /\ UNCHANGED <<active, accessVars, governanceVars, evaluationVars, vars>>
  \/ /\ active = "access" /\ Access!Next
     /\ UNCHANGED <<active, ledgerVars, governanceVars, evaluationVars, vars>>
  \/ /\ active = "governance" /\ Governance!Next /\ TrustedOnly
     /\ UNCHANGED <<active, ledgerVars, accessVars, evaluationVars, vars>>
  \/ /\ active = "untrusted" /\ Governance!Next /\ OneDecision
     /\ UNCHANGED <<active, ledgerVars, accessVars, evaluationVars, vars>>
  \/ /\ active = "evaluation" /\ Evaluation!Next
     /\ UNCHANGED <<active, ledgerVars, accessVars, governanceVars, vars>>
  \/ /\ active = "identity" /\ Next
     /\ UNCHANGED <<active, ledgerVars, accessVars, governanceVars, evaluationVars>>

all == <<active, ledgerVars, accessVars, governanceVars, evaluationVars, vars>>

MCSpec == MCInit /\ [][MCNext]_all

-----------------------------------------------------------------------------

ASSUME
  /\ IdentityAssumption /\ Access!AccessAssumption /\ Governance!GovernanceAssumption
  /\ Ledger!LedgerAssumption /\ Evaluation!EvaluationAssumption
=============================================================================
