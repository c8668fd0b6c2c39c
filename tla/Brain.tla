------------------------------- MODULE Brain --------------------------------
(***************************************************************************)
(* The Second Brain's authorities: the ledger with its recall, the         *)
(* credential, egress and source gates, the decision governance, the       *)
(* evaluation boundary, and the identity and device policy. They share no  *)
(* state. A behaviour is one of a single component, the active one, and    *)
(* what follows says of each what it promises.                             *)
(***************************************************************************)
EXTENDS IdentityAuthorization

CONSTANTS
  N, Preapproved, PageSize, MaxCommands, MaxCursors, MaxLookback,   \* SecondBrainLedger
  Gates, Entries, MaxAccessTime, MaxRevoke, MaxReceipts, MaxEpoch,  \* SecondBrainAccess
  Globals, Scoped, WallGap, Edited, Untrusted, MaxReading, MaxBodies,
  MaxNow,                                                           \* DecisionGovernance
  Supporters, Digests, Benchmark, Holdout, Routes, EnabledRoutes,
  MaxEdges, MaxProposals, MaxProjections                            \* EvaluationService

VARIABLES
  active,   \* the component of the behaviour
  migration, seq, candidate, versions, closures, edges, cursors, reader,
  gate, accessClock, authority, device, accessEpoch, delegated, accessCaps, receipts,
  secret, accessCalls, handed, egress, current, sending, sent, consent, retention,
  sandbox, items, served,
  body, sigs, records, scope, payload, aggSig, evSig, aggEnv, evEnv, wall, receipt,
  resolver,
  serving, proposals, supports, projections, report, taken

Ledger == INSTANCE SecondBrainLedger

Access == INSTANCE SecondBrainAccess
    WITH Callers <- Threads, MaxTime <- MaxAccessTime, clock <- accessClock,
         epoch <- accessEpoch, caps <- accessCaps, calls <- accessCalls

Governance == INSTANCE DecisionGovernance
    WITH Resolvers <- Threads, MaxTime <- MaxNow

Evaluation == INSTANCE EvaluationService
    WITH Candidates <- Supporters, Items <- Digests, edges <- supports,
         withdrawn <- taken

-----------------------------------------------------------------------------

\* A reader that pages to the end of a recall has received exactly the
\* candidates approved at its cut, whatever was appended, corrected or revoked
\* between its pages (recall, SecondBrainLedger.page).
RecallIsTheCut == active = "ledger" => Ledger!RecallIsTheCut

\* Revoking or forgetting a candidate reaches everything that rested on it
\* (invalidate_dependents).
RevocationReaches == active = "ledger" => Ledger!RevocationReaches

\* Nothing is given out on a stale authorization: a capability is worth one
\* secret, data leaves under the revisions of its own receipt, and what is
\* served was read whole under the epochs then current (the three gates).
AccessIsEarned == active = "access" => Access!AccessIsEarned

\* A receipt that says RESOLVED speaks of one set of decisions that both roles
\* signed, although every file may be rewritten while the resolver reads
\* (resolve_decisions).
ReceiptIsEarned == active \in {"governance", "untrusted"} => Governance!ReceiptIsEarned

\* Once a candidate is withdrawn no proposal is left that rests on it along some
\* path of support edges, and nothing names a route that the scope does not
\* enable (withdraw_support).
WithdrawalReaches == active = "evaluation" => Evaluation!WithdrawalReaches
=============================================================================
