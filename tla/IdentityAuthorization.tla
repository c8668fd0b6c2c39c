----------------------- MODULE IdentityAuthorization -----------------------
(***************************************************************************)
(* Identity authorization V2 of one workspace (memory_core/                *)
(* identity_auth_v2_*.py over infrastructure/identity_auth_v2_store.py):   *)
(* the owner enrolls and revokes devices and delegates review actions to a *)
(* reviewer; an enrolled device obtains one-time capabilities and spends   *)
(* them on an operation.                                                   *)
(*                                                                         *)
(* Every call of the store is one lock-protected step and every policy     *)
(* method makes several, so a call has a first step that reads and a last  *)
(* one that commits; threads interleave between them.  A commit writes its *)
(* audit record in the same step or not at all.  Who stands behind a       *)
(* device context is authenticated outside this code.                      *)
(***************************************************************************)
EXTENDS Integers, FiniteSets

CONSTANTS Devices,   \* device keys
          Grants,    \* delegation references
          Caps,      \* capability references
          Threads,   \* threads that call the policy
          MaxTime,   \* bound on the clock
          Expiries,  \* expiry times in use
          Actions,   \* review actions
          MaxAudits  \* max_audit_records of the store

VARIABLES clock, root, enrolled, revoked, epoch, grants, withdrawn, caps, consumed, audits,
          calls, done

authorityVars == <<root, enrolled, revoked, epoch, grants, withdrawn, audits>>
vars == <<clock, authorityVars, caps, consumed, calls, done>>

None == [kind |-> "none"]
Idle == [phase |-> "idle"]
Owner == "owner"
Keys == {Owner, "reviewer"}

\* An authenticated device context; the workspace and profile are the one of the model.
Contexts == [actor : Keys, device : Devices]

Enrollment(key, device, until) ==
    [kind |-> "enrollment", subject |-> key, device |-> device, expires |-> until]

DelegatedGrant(actions, until) == [kind |-> "grant", actions |-> actions, expires |-> until]

Init ==
    /\ clock = 0
    /\ root = FALSE
    /\ enrolled = [d \in Devices |-> None]
    /\ revoked = {}
    /\ epoch = 0
    /\ grants = [g \in Grants |-> None]
    /\ withdrawn = {}
    /\ caps = [c \in Caps |-> None]
    /\ consumed = {}
    /\ audits = 0
    /\ calls = [t \in Threads |-> Idle]
    /\ done = {}

Tick ==
    /\ clock < MaxTime
    /\ clock' = clock + 1
    /\ UNCHANGED <<authorityVars, caps, consumed, calls, done>>

\* _active_context
Mut_ActiveContext(x) ==
    /\ root
    /\ enrolled[x.device] # None
    /\ enrolled[x.device].subject = x.actor
    /\ clock < enrolled[x.device].expires

ActiveContext(x) ==
    /\ root
    /\ enrolled[x.device] # None
    /\ enrolled[x.device].subject = x.actor
    /\ x.device \notin revoked
    /\ clock < enrolled[x.device].expires

ActiveOwner(x) == ActiveContext(x) /\ x.actor = Owner

(***************************************************************************)
(* The four calls of the owner: authority is read first, the store's own   *)
(* conditions are tested under the lock of the commit.                     *)
(***************************************************************************)
Pending(t, request) == calls' = [calls EXCEPT ![t] = [phase |-> "commit", request |-> request]]

Called(t) == calls[t] = Idle

\* The first device must be the owner's own; later ones are enrolled by an active owner.
EnrollCheck(t, x, e) ==
    /\ Called(t)
    /\ x.actor = Owner
    /\ clock < e.expires
    /\ IF root THEN ActiveOwner(x) ELSE e.subject = Owner /\ e.device = x.device
    /\ Pending(t, [op |-> "enroll", what |-> e])
    /\ UNCHANGED <<clock, authorityVars, caps, consumed, done>>

\* A device revocation names the epoch it makes.
RevokeCheck(t, x, d) ==
    /\ Called(t)
    /\ ActiveOwner(x)
    /\ Pending(t, [op |-> "revoke", what |-> d, next |-> epoch + 1])
    /\ UNCHANGED <<clock, authorityVars, caps, consumed, done>>

DelegateCheck(t, x, g, grant) ==
    /\ Called(t)
    /\ ActiveOwner(x)
    /\ clock < grant.expires
    /\ Pending(t, [op |-> "delegate", what |-> g, grant |-> grant])
    /\ UNCHANGED <<clock, authorityVars, caps, consumed, done>>

WithdrawCheck(t, x, g) ==
    /\ Called(t)
    /\ ActiveOwner(x)
    /\ grants[g] # None
    /\ Pending(t, [op |-> "withdraw", what |-> g])
    /\ UNCHANGED <<clock, authorityVars, caps, consumed, done>>

\* _require_audit_capacity, before anything is written.
AuditCapacity == audits < MaxAudits

CommitEnrollment(r) ==
    /\ r.op = "enroll"
    /\ enrolled[r.what.device] = None
    /\ root' = TRUE
    /\ enrolled' = [enrolled EXCEPT ![r.what.device] = r.what]
    /\ UNCHANGED <<revoked, epoch, grants, withdrawn>>

CommitDeviceRevocation(r) ==
    /\ r.op = "revoke"
    /\ enrolled[r.what] # None
    /\ r.what \notin revoked
    /\ r.next = epoch + 1
    /\ revoked' = revoked \cup {r.what}
    /\ epoch' = r.next
    /\ UNCHANGED <<root, enrolled, grants, withdrawn>>

CommitDelegation(r) ==
    /\ r.op = "delegate"
    /\ grants[r.what] = None
    /\ grants' = [grants EXCEPT ![r.what] = r.grant]
    /\ UNCHANGED <<root, enrolled, revoked, epoch, withdrawn>>

CommitDelegationRevocation(r) ==
    /\ r.op = "withdraw"
    /\ r.what \notin withdrawn
    /\ withdrawn' = withdrawn \cup {r.what}
    /\ UNCHANGED <<root, enrolled, revoked, epoch, grants>>

Commit(t) ==
    LET r == calls[t].request
    IN /\ calls[t].phase = "commit"
       /\ AuditCapacity
       /\ \/ CommitEnrollment(r)
          \/ CommitDeviceRevocation(r)
          \/ CommitDelegation(r)
          \/ CommitDelegationRevocation(r)
       /\ audits' = audits + 1
       /\ calls' = [calls EXCEPT ![t] = Idle]
       /\ UNCHANGED <<clock, caps, consumed, done>>

\* Refused by the store, or stopped: nothing was written.
GiveUp(t) ==
    /\ calls[t] # Idle
    /\ calls' = [calls EXCEPT ![t] = Idle]
    /\ UNCHANGED <<clock, authorityVars, caps, consumed, done>>

(***************************************************************************)
(* issue: the owner acts in his own right, a reviewer under the one        *)
(* delegation that covers the request; two that do are refused.            *)
(***************************************************************************)
CandidateGrants(actions) ==
    {g \in Grants : grants[g] # None /\ g \notin withdrawn /\ clock < grants[g].expires
                    /\ actions \subseteq grants[g].actions}

Capability(x, actions, until, g) ==
    [kind |-> "capability", subject |-> x.actor, device |-> x.device, actions |-> actions,
     expires |-> until, grant |-> g, epoch |-> 0]

IssueCheck(t, x, c, actions, until) ==
    /\ Called(t)
    /\ ActiveContext(x)
    /\ clock < until /\ until <= enrolled[x.device].expires
    /\ \E g \in IF x.actor = Owner THEN {{}} ELSE {CandidateGrants(actions)} :
          /\ x.actor # Owner => Cardinality(g) = 1 /\ \A h \in g : until <= grants[h].expires
          /\ calls' = [calls EXCEPT ![t] =
                         [phase |-> "issue", cap |-> c, grant |-> Capability(x, actions, until, g)]]
    /\ UNCHANGED <<clock, authorityVars, caps, consumed, done>>

\* The epoch is read only now; save_capability refuses a reference that exists.
SaveCapability(t) ==
    LET c == calls[t].cap
    IN /\ calls[t].phase = "issue"
       /\ caps[c] = None
       /\ caps' = [caps EXCEPT ![c] = [calls[t].grant EXCEPT !.epoch = epoch]]
       /\ calls' = [calls EXCEPT ![t] = Idle]
       /\ UNCHANGED <<clock, authorityVars, consumed, done>>

(***************************************************************************)
(* consume: context, then capability and delegation, then the one-time     *)
(* mark, then the operation.                                               *)
(***************************************************************************)
ConsumeContext(t, x, c, action) ==
    /\ Called(t)
    /\ ActiveContext(x)
    /\ calls' = [calls EXCEPT ![t] =
                   [phase |-> "context", x |-> x, cap |-> c, action |-> action,
                    revoked |-> revoked, withdrawn |-> withdrawn]]
    /\ UNCHANGED <<clock, authorityVars, caps, consumed, done>>

DelegationHolds(g, action) ==
    g \notin withdrawn /\ clock < grants[g].expires /\ action \in grants[g].actions

ConsumeCheck(t) ==
    LET call == calls[t]
        cap == caps[call.cap]
    IN /\ call.phase = "context"
       /\ cap # None
       /\ cap.subject = call.x.actor /\ cap.device = call.x.device
       /\ call.action \in cap.actions
       /\ clock < cap.expires
       /\ cap.epoch = epoch
       /\ \A g \in cap.grant : DelegationHolds(g, call.action)
       /\ calls' = [calls EXCEPT ![t].phase = "checked"]
       /\ UNCHANGED <<clock, authorityVars, caps, consumed, done>>

ConsumeCapability(t) ==
    LET call == calls[t]
    IN /\ call.phase = "checked"
       /\ call.cap \notin consumed
       /\ consumed' = consumed \cup {call.cap}
       /\ done' = done \cup {[cap |-> call.cap, by |-> t, x |-> call.x, action |-> call.action,
                              revoked |-> call.revoked, withdrawn |-> call.withdrawn]}
       /\ calls' = [calls EXCEPT ![t] = Idle]
       /\ UNCHANGED <<clock, authorityVars, caps>>

Next ==
    \/ Tick
    \/ \E t \in Threads :
          \/ \E x \in Contexts :
                \/ \E key \in Keys, d \in Devices, until \in Expiries :
                      EnrollCheck(t, x, Enrollment(key, d, until))
                \/ \E d \in Devices : RevokeCheck(t, x, d)
                \/ \E g \in Grants, actions \in SUBSET Actions \ {{}}, until \in Expiries :
                      DelegateCheck(t, x, g, DelegatedGrant(actions, until))
                \/ \E g \in Grants : WithdrawCheck(t, x, g)
                \/ \E c \in Caps, actions \in SUBSET Actions \ {{}}, until \in Expiries :
                      IssueCheck(t, x, c, actions, until)
                \/ \E c \in Caps, action \in Actions : ConsumeContext(t, x, c, action)
          \/ Commit(t) \/ GiveUp(t)
          \/ SaveCapability(t)
          \/ ConsumeCheck(t) \/ ConsumeCapability(t)

Spec == Init /\ [][Next]_vars

(***************************************************************************)
(* Properties.                                                             *)
(***************************************************************************)

\* The registries of the store are finite and its audit trail is bounded.
IdentityAssumption ==
    IsFiniteSet(Devices) /\ IsFiniteSet(Grants) /\ MaxAudits \in Nat

Enrollments == [kind : {"enrollment"}, subject : Keys, device : Devices, expires : Expiries]

Delegations == [kind : {"grant"}, actions : SUBSET Actions, expires : Expiries]

Capabilities ==
    [kind : {"capability"}, subject : Keys, device : Devices, actions : SUBSET Actions,
     expires : Expiries, grant : SUBSET Grants, epoch : Nat]

Requests ==
    [op : {"enroll"}, what : Enrollments]
      \cup [op : {"revoke"}, what : Devices, next : Nat]
      \cup [op : {"delegate"}, what : Grants, grant : Delegations]
      \cup [op : {"withdraw"}, what : Grants]

Calls ==
    {Idle} \cup [phase : {"commit"}, request : Requests]
      \cup [phase : {"issue"}, cap : Caps, grant : Capabilities]
      \cup [phase : {"context", "checked"}, x : Contexts, cap : Caps, action : Actions,
            revoked : SUBSET Devices, withdrawn : SUBSET Grants]

TypeOK ==
    /\ root \in BOOLEAN /\ epoch \in Nat /\ audits \in Nat
    /\ enrolled \in [Devices -> Enrollments \cup {None}]
    /\ grants \in [Grants -> Delegations \cup {None}]
    /\ caps \in [Caps -> Capabilities \cup {None}]
    /\ revoked \subseteq Devices /\ withdrawn \subseteq Grants
    /\ calls \in [Threads -> Calls]

\* A capability pays for one operation, although the checks and the mark are
\* separate steps of competing threads.
SpentOnce == \A d, e \in done : d.cap = e.cap => d = e

\* A device whose revocation was committed before the call carries out no
\* operation, although a capability issued in a race with the revocation carries
\* the newest epoch; a reviewer acts only under a delegation that had not been
\* withdrawn and covers the action.
OperationIsBacked ==
    \A d \in done :
        /\ d.x.device \notin d.revoked
        /\ caps[d.cap].device = d.x.device
        /\ d.x.actor = Owner \/
              \E g \in Grants : caps[d.cap].grant = {g} /\ g \notin d.withdrawn
                                /\ d.action \in grants[g].actions

EnrolledDevices == {d \in Devices : enrolled[d] # None}
GivenGrants == {g \in Grants : grants[g] # None}

\* The audit trail has one record for each change of authority, within its
\* capacity.
ChangesAreAudited ==
    /\ audits <= MaxAudits
    /\ audits = Cardinality(EnrolledDevices) + Cardinality(revoked)
                + Cardinality(GivenGrants) + Cardinality(withdrawn)
    /\ epoch = Cardinality(revoked)

\* Every operation was authorized when its call began, and every change of
\* authority is audited (IdentityPolicyV2).
OperationIsAuthorized == TypeOK /\ SpentOnce /\ OperationIsBacked /\ ChangesAreAudited

(***************************************************************************)
(* The inductive invariant behind OperationIsAuthorized.                   *)
(***************************************************************************)

\* A capability that is not the owner's rests on one delegation that was given.
IsDelegated(cap) ==
    cap.subject = Owner \/ \E g \in Grants : cap.grant = {g} /\ grants[g] # None

\* What a call has checked of its capability, and an operation was paid with.
IsBacked(o) ==
    /\ caps[o.cap] # None /\ caps[o.cap].device = o.x.device
    /\ o.x.actor = Owner \/
          \E g \in Grants : caps[o.cap].grant = {g} /\ g \notin o.withdrawn
                            /\ grants[g] # None /\ o.action \in grants[g].actions

\* The locals of a call: the device was not revoked when it began, what was
\* withdrawn then still is, and a check that passed still holds.
CallHolds(t) ==
    /\ calls[t].phase = "issue" => IsDelegated(calls[t].grant)
    /\ calls[t].phase \in {"context", "checked"} =>
          calls[t].x.device \notin calls[t].revoked /\ calls[t].withdrawn \subseteq withdrawn
    /\ calls[t].phase = "checked" => IsBacked(calls[t])

\* An operation consumed its capability.
DoneIsPaid ==
    \A d \in done : d.cap \in Caps /\ d.cap \in consumed /\ d.x.device \notin d.revoked
                    /\ IsBacked(d)

IdentityInvariant ==
    /\ TypeOK /\ SpentOnce /\ ChangesAreAudited
    /\ \A c \in Caps : caps[c] # None => IsDelegated(caps[c])
    /\ \A t \in Threads : CallHolds(t)
    /\ DoneIsPaid
=============================================================================
