------------------------- MODULE DecisionGovernance -------------------------
(***************************************************************************)
(* The Stage-0 decision files of the Second Brain and the tools that turn  *)
(* them into a usable contract: scripts/second_brain_decision.py and the   *)
(* role signers, applications/resolver_input_material.py with              *)
(* scripts/build_canonical_resolver_inputs.py, the authority wall, and     *)
(* scripts/second_brain_contract_resolver.py around Core's                 *)
(* resolve_second_brain_contract.                                          *)
(*                                                                         *)
(* Every variable but resolver is a file, or a directory of files.  The    *)
(* tools are separate processes without a common lock, so a tool that      *)
(* reads several files reads them at different moments.  A digest is the   *)
(* value it commits to and a signature is the pair of its key and the      *)
(* value signed.                                                           *)
(***************************************************************************)
EXTENDS Integers, FiniteSets, FiniteSetsExt

CONSTANTS Globals,     \* FATAL_DECISIONS: decisions of the whole product
          Scoped,      \* decisions for one named profile, source, route or destination
          WallGap,     \* the one decision the authority wall expects to be missing
          Edited,      \* the decisions of which a new body is written
          Untrusted,   \* roles of which a second, untrusted key also signs
          Resolvers,   \* resolver invocations that share one --out path
          MaxReading,  \* bound on the resolvers that read at the same time
          MaxBodies,   \* bound on the bodies written
          MaxTime      \* bound on the instants given to --now

VARIABLES body, sigs, records, scope, payload, aggSig, evSig, aggEnv, evEnv,
          wall, receipt, resolver

files == <<body, sigs, records, scope, payload, aggSig, evSig, aggEnv, evEnv, wall>>
vars == <<files, receipt, resolver>>

Decisions == Globals \cup Scoped
Roles == {"approver", "owner"}
Nothing == [rev |-> 0]

(***************************************************************************)
(* A body carries an outcome, the evidence it rests on and an expiry; rev  *)
(* stands for both the evidence digest and the instant it expires.         *)
(***************************************************************************)
Bodies == [outcome : {"GO", "NO_GO", "UNRESOLVED"}, rev : 1..MaxBodies]

NoRecords == [d \in Decisions |-> Nothing]

Idle == [phase |-> "idle"]

\* The decisions of a release that were signed and assembled before, all GO at rev 1.
Init ==
    /\ \E signed \in {Scoped, Decisions} :
           /\ body = [d \in Decisions |-> IF d \in signed THEN [outcome |-> "GO", rev |-> 1]
                                         ELSE Nothing]
           /\ sigs = {[role |-> r, d |-> d, body |-> [outcome |-> "GO", rev |-> 1],
                       key |-> "trusted"] : r \in Roles, d \in signed}
           /\ records = [d \in Decisions |->
                           IF d \in signed THEN [outcome |-> "GO", rev |-> 1, trusted |-> TRUE]
                           ELSE Nothing]
    /\ scope = {}
    /\ payload = [aggregate |-> NoRecords, evidence |-> NoRecords]
    /\ aggSig = [r \in Roles |-> NoRecords]
    /\ evSig = [r \in Roles |-> NoRecords]
    /\ aggEnv = NoRecords
    /\ evEnv = NoRecords
    /\ wall = "absent"
    /\ receipt = [by |-> "nobody"]
    /\ resolver = [p \in Resolvers |-> Idle]

\* cmd_skeleton and the operator's editor: a new body with new evidence.
WriteBody(d, outcome) ==
    LET rev == 1 + Max({body[e].rev : e \in Decisions})
    IN /\ rev <= MaxBodies
       /\ body' = [body EXCEPT ![d] = [outcome |-> outcome, rev |-> rev]]
       /\ UNCHANGED <<sigs, records, scope, payload, aggSig, evSig, aggEnv, evEnv,
                      wall, receipt, resolver>>

\* sign_second_brain_decision_role: the key need only match the binding given on argv.
SignBody(d, role, key) ==
    LET s == [role |-> role, d |-> d, body |-> body[d], key |-> key]
    IN /\ body[d] # Nothing
       /\ s \notin sigs
       /\ sigs' = sigs \cup {s}
       /\ UNCHANGED <<body, records, scope, payload, aggSig, evSig, aggEnv, evEnv,
                      wall, receipt, resolver>>

\* cmd_assemble: both signatures verify over the body as it is now, by the keys they carry.
Assemble(d) ==
    /\ body[d] # Nothing
    /\ body[d].outcome # "UNRESOLVED"
    /\ \E key \in [Roles -> {"trusted", "other"}] :
           /\ \A r \in Roles :
                  [role |-> r, d |-> d, body |-> body[d], key |-> key[r]] \in sigs
           /\ records' = [records EXCEPT ![d] =
                [outcome |-> body[d].outcome, rev |-> body[d].rev,
                 trusted |-> \A r \in Roles : key[r] = "trusted"]]
    /\ UNCHANGED <<body, sigs, scope, payload, aggSig, evSig, aggEnv, evEnv, wall,
                   receipt, resolver>>

(***************************************************************************)
(* What the canonical resolver inputs derive from the records.             *)
(***************************************************************************)
Present(rs) == {d \in Decisions : rs[d] # Nothing}

Go(rs) == {d \in Present(rs) : rs[d].outcome = "GO"}

\* ResolvedScopeV1 built by _scope: feature flags and enabled names are the GO decisions.
ScopeOf(rs) == Go(rs)

\* The contract digest binds the decision digests, so the records themselves.
ContractOf(rs) == rs

EvidenceOf(rs) == [d \in Decisions |-> [rev |-> rs[d].rev]]

\* prepare: three files written one after the other; a crash leaves a prefix (n of them).
Prepare(n) ==
    /\ Present(records) # {}
    /\ scope' = ScopeOf(records)
    /\ payload' = [aggregate |-> IF n > 1 THEN ContractOf(records) ELSE payload.aggregate,
                   evidence |-> IF n > 2 THEN EvidenceOf(records) ELSE payload.evidence]
    /\ UNCHANGED <<body, sigs, records, aggSig, evSig, aggEnv, evEnv, wall, receipt,
                   resolver>>

\* sign_second_brain_resolver_role: an envelope of other content is stale and refused;
\* its operator removes it and signs again.
SignResolverInputs(role) ==
    /\ Present(payload.aggregate) # {}
    /\ aggSig' = [aggSig EXCEPT ![role] = payload.aggregate]
    /\ evSig' = [evSig EXCEPT ![role] = payload.evidence]
    /\ UNCHANGED <<body, sigs, records, scope, payload, aggEnv, evEnv, wall, receipt,
                   resolver>>

\* assemble: prepares again, then needs both signatures over exactly those payloads.
\* Its last two writes are separate; a crash leaves the first alone.
AssembleInputs(both) ==
    LET agg == ContractOf(records) ev == EvidenceOf(records)
    IN /\ Present(records) # {}
       /\ \A r \in Roles : aggSig[r] = agg /\ evSig[r] = ev
       /\ scope' = ScopeOf(records)
       /\ payload' = [aggregate |-> agg, evidence |-> ev]
       /\ aggEnv' = agg
       /\ evEnv' = IF both THEN ev ELSE evEnv
       /\ UNCHANGED <<body, sigs, records, aggSig, evSig, wall, receipt, resolver>>

(***************************************************************************)
(* build_second_brain_authority_wall: proves that the one known decision   *)
(* is missing, or that its UNRESOLVED body is signed by both trusted keys. *)
(***************************************************************************)
BuildWall ==
    /\ Decisions \ Present(records) = {WallGap}
    /\ (body[WallGap] # Nothing /\ body[WallGap].outcome = "UNRESOLVED") =>
           \A r \in Roles :
               [role |-> r, d |-> WallGap, body |-> body[WallGap], key |-> "trusted"] \in sigs
    /\ wall' = "FAIL_CLOSED"
    /\ UNCHANGED <<body, sigs, records, scope, payload, aggSig, evSig, aggEnv, evEnv,
                   receipt, resolver>>

(***************************************************************************)
(* The resolver.  cmd_resolve loads the records directory, then the scope  *)
(* and the aggregate, then the evidence manifest, and only then decides.   *)
(***************************************************************************)
LoadRecords(p, now) ==
    /\ resolver[p] = Idle
    /\ Cardinality({q \in Resolvers : resolver[q].phase \in {"records", "aggregate"}}) < MaxReading
    /\ Present(records) # {}
    /\ resolver' = [resolver EXCEPT ![p] =
                      [phase |-> "records", now |-> now, records |-> records]]
    /\ UNCHANGED <<files, receipt>>

LoadScopeAndAggregate(p) ==
    /\ resolver[p].phase = "records"
    /\ resolver' = [resolver EXCEPT ![p] =
                      [phase |-> "aggregate", now |-> @.now, records |-> @.records,
                       scope |-> scope, aggregate |-> aggEnv]]
    /\ UNCHANGED <<files, receipt>>

\* _load_evidence_manifest: signed, current, and exactly the evidence of the records.
EvidenceMatches(ev, rs) == ev = EvidenceOf(rs)

(***************************************************************************)
(* resolve_second_brain_contract: every expected decision, none expired,   *)
(* every signature trusted; a global NO_GO blocks; otherwise scope and     *)
(* aggregate must be exactly what the records derive.                      *)
(***************************************************************************)
RecordsAdmitted(rs, now) ==
    /\ Present(rs) = Decisions
    /\ \A d \in Decisions : rs[d].rev > now /\ rs[d].trusted

Blocked(rs) == {d \in Globals : rs[d].outcome = "NO_GO"}

Mut_ContractAgrees(rs, sc, agg) == sc = ScopeOf(rs)

ContractAgrees(rs, sc, agg) == sc = ScopeOf(rs) /\ agg = ContractOf(rs)

Resolution(r, ev) ==
    IF ~ (EvidenceMatches(ev, r.records) /\ RecordsAdmitted(r.records, r.now)) THEN "REFUSED"
    ELSE IF Blocked(r.records) # {} THEN "BLOCKED"
    ELSE IF ContractAgrees(r.records, r.scope, r.aggregate) THEN "RESOLVED"
    ELSE "REFUSED"

DecideResolution(p) ==
    LET outcome == Resolution(resolver[p], evEnv)
    IN /\ resolver[p].phase = "aggregate"
       /\ resolver' = [resolver EXCEPT ![p] =
             IF outcome = "REFUSED" THEN [phase |-> "failed"]
             ELSE [phase |-> "publish", outcome |-> outcome, records |-> @.records,
                   aggregate |-> @.aggregate, now |-> @.now]]
       /\ UNCHANGED <<files, receipt>>

(***************************************************************************)
(* _write_new_receipt: the destination is linked, never replaced; when the *)
(* directory cannot be synchronised the invocation removes the receipt it  *)
(* published itself, and says so if that fails too.                        *)
(***************************************************************************)
LinkReceipt(p) ==
    /\ resolver[p].phase = "publish"
    /\ IF receipt.by = "nobody"
       THEN /\ receipt' = [by |-> p, outcome |-> resolver[p].outcome,
                           records |-> resolver[p].records,
                           aggregate |-> resolver[p].aggregate, now |-> resolver[p].now]
            /\ resolver' = [resolver EXCEPT ![p] = [phase |-> "linked"]]
       ELSE /\ resolver' = [resolver EXCEPT ![p] = [phase |-> "failed"]]
            /\ UNCHANGED receipt
    /\ UNCHANGED files

SyncReceipt(p) ==
    /\ resolver[p].phase = "linked"
    /\ resolver' = [resolver EXCEPT ![p] = [phase |-> "ok"]]
    /\ UNCHANGED <<files, receipt>>

SyncFails(p) ==
    /\ resolver[p].phase = "linked"
    /\ \E clean \in BOOLEAN :
           /\ resolver' = [resolver EXCEPT ![p] =
                             [phase |-> IF clean THEN "failed" ELSE "uncleaned"]]
           /\ receipt' = IF clean /\ receipt.by = p THEN [by |-> "nobody"] ELSE receipt
    /\ UNCHANGED files

\* The operator deletes a receipt whose invocation reported it could not clean up.
RemoveReceipt ==
    /\ receipt.by # "nobody"
    /\ resolver[receipt.by].phase = "uncleaned"
    /\ receipt' = [by |-> "nobody"]
    /\ UNCHANGED <<files, resolver>>

Next ==
    \/ \E d \in Edited :
           \/ \E outcome \in {"GO", "NO_GO", "UNRESOLVED"} : WriteBody(d, outcome)
           \/ \E role \in Roles : SignBody(d, role, "trusted")
           \/ \E role \in Untrusted : SignBody(d, role, "other")
           \/ Assemble(d)
    \/ \E n \in 1..3 : Prepare(n)
    \/ \E role \in Roles : SignResolverInputs(role)
    \/ \E both \in BOOLEAN : AssembleInputs(both)
    \/ BuildWall
    \/ \E p \in Resolvers :
           \/ \E now \in 0..MaxTime : LoadRecords(p, now)
           \/ LoadScopeAndAggregate(p)
           \/ DecideResolution(p)
           \/ LinkReceipt(p)
           \/ SyncReceipt(p)
           \/ SyncFails(p)
    \/ RemoveReceipt

Spec == Init /\ [][Next]_vars

(***************************************************************************)
(* Properties.                                                             *)
(***************************************************************************)

\* A receipt that says RESOLVED speaks of one set of decisions: each was signed
\* over its own body by both trusted roles, both signed the aggregate over exactly
\* that set, and no global decision in it is NO_GO or expired - although the
\* resolver reads the files at different moments and every one of them may be
\* rewritten in between.  The receipt at the path is the one of the invocation
\* that reported success, and an invocation that reported a clean failure left none.
ReceiptIsEarned ==
    /\ receipt.by # "nobody" /\ receipt.outcome = "RESOLVED" =>
          /\ receipt.aggregate = receipt.records
          /\ \A d \in Decisions, r \in Roles :
                 [role |-> r, d |-> d, key |-> "trusted",
                  body |-> [outcome |-> receipt.records[d].outcome,
                            rev |-> receipt.records[d].rev]] \in sigs
          /\ \A d \in Globals : receipt.records[d].outcome = "GO"
          /\ \A d \in Decisions : receipt.records[d].rev > receipt.now
    /\ \A p \in Resolvers :
          /\ resolver[p].phase = "ok" => receipt.by = p
          /\ resolver[p].phase = "failed" => receipt.by # p

(***************************************************************************)
(* The inductive invariant.  A record that claims trusted signatures has   *)
(* them, in the directory and in every copy that a resolver has read;      *)
(* signatures are never withdrawn.                                         *)
(***************************************************************************)
GovernanceAssumption == "nobody" \notin Resolvers /\ Edited \subseteq Decisions

BodiesAreWhole ==
    \A d \in Decisions : body[d] # Nothing =>
        /\ body[d] = [outcome |-> body[d].outcome, rev |-> body[d].rev]
        /\ body[d].outcome \in {"GO", "NO_GO", "UNRESOLVED"}

\* Both trusted roles signed what a trusted record says, which is a decision.
Signed(rs) ==
    \A d \in Decisions : rs[d] # Nothing /\ rs[d].trusted =>
        /\ rs[d].outcome \in {"GO", "NO_GO"}
        /\ \A r \in Roles :
               [role |-> r, d |-> d, key |-> "trusted",
                body |-> [outcome |-> rs[d].outcome, rev |-> rs[d].rev]] \in sigs

\* What a resolution may be published about.
Earned(o) ==
    o.outcome = "RESOLVED" =>
        /\ o.aggregate = o.records
        /\ RecordsAdmitted(o.records, o.now)
        /\ Blocked(o.records) = {}

Phases == {"idle", "records", "aggregate", "publish", "linked", "ok", "failed", "uncleaned"}

\* What an invocation holds, and whose the receipt is.
ResolverHolds(p) ==
    /\ resolver[p].phase \in Phases
    /\ resolver[p].phase \in {"records", "aggregate", "publish"} => Signed(resolver[p].records)
    /\ resolver[p].phase = "publish" => Earned(resolver[p])
    /\ resolver[p].phase \in {"linked", "ok"} => receipt.by = p
    /\ resolver[p].phase \notin {"linked", "ok", "uncleaned"} => receipt.by # p

GovernanceInvariant ==
    /\ DOMAIN body = Decisions /\ DOMAIN records = Decisions /\ DOMAIN resolver = Resolvers
    /\ BodiesAreWhole
    /\ Signed(records)
    /\ \A p \in Resolvers : ResolverHolds(p)
    /\ receipt.by # "nobody" => Signed(receipt.records) /\ Earned(receipt)
=============================================================================
