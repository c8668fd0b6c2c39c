---------------------------- MODULE BrainProofs -----------------------------
(***************************************************************************)
(* Proofs about the Second Brain's authorities, for any parameters: the    *)
(* identity and device policy, the three gates, the decision governance,   *)
(* the ledger with its recall, and the evaluation boundary.                *)
(***************************************************************************)
EXTENDS Brain, Sequences, FiniteSetTheorems, SequenceTheorems, NaturalsInduction,
        WellFoundedInduction, TLAPS
-----------------------------------------------------------------------------
(* Calls.                                                                  *)

\* What a call carries depends on its phase.
LEMMA CallFields ==
  ASSUME NEW q \in Calls
  PROVE  /\ q.phase = "commit" => q.request \in Requests
         /\ q.phase = "issue" => q.cap \in Caps /\ q.grant \in Capabilities
         /\ q.phase \in {"context", "checked"} =>
              /\ q.x \in Contexts /\ q.cap \in Caps /\ q.action \in Actions
              /\ q.revoked \in SUBSET Devices /\ q.withdrawn \in SUBSET Grants
              /\ q = [phase |-> q.phase, x |-> q.x, cap |-> q.cap, action |-> q.action,
                      revoked |-> q.revoked, withdrawn |-> q.withdrawn]
BY DEF Calls, Idle

\* An idle call carries nothing.
LEMMA IdleCall == Idle \in Calls /\ Idle.phase = "idle"
BY DEF Idle, Calls

\* Capabilities and delegations are only added, and delegations withdrawn.
AuthorityGrows ==
  /\ \A c \in Caps : caps[c] # None => caps'[c] = caps[c]
  /\ \A g \in Grants : grants[g] # None => grants'[g] = grants[g]
  /\ withdrawn \subseteq withdrawn'

\* A capability keeps its delegation,
LEMMA DelegatedStays ==
  ASSUME AuthorityGrows, NEW cap, IsDelegated(cap)
  PROVE  IsDelegated(cap)'
BY DEF AuthorityGrows, IsDelegated

\* and a check that passed keeps its grounds.
LEMMA BackedStays ==
  ASSUME AuthorityGrows, NEW o, o.cap \in Caps, IsBacked(o)
  PROVE  IsBacked(o)'
BY DEF AuthorityGrows, IsBacked

\* A call that does not move keeps what it holds.
LEMMA CallStays ==
  ASSUME IdentityInvariant, AuthorityGrows, NEW u \in Threads, calls'[u] = calls[u]
  PROVE  CallHolds(u)'
<1>1. PICK q \in Calls : q = calls[u]
  BY DEF IdentityInvariant, TypeOK
<1>2. /\ q.phase = "issue" => IsDelegated(q.grant)
      /\ q.phase \in {"context", "checked"} =>
           q.x.device \notin q.revoked /\ q.withdrawn \subseteq withdrawn
      /\ q.phase = "checked" => IsBacked(q)
  BY <1>1 DEF IdentityInvariant, CallHolds
<1>3. /\ q.phase = "issue" => IsDelegated(q.grant)'
      /\ q.phase = "checked" => IsBacked(q)'
  BY <1>2, CallFields, DelegatedStays, BackedStays
<1>4. q.phase \in {"context", "checked"} => q.withdrawn \subseteq withdrawn'
  BY <1>2 DEF AuthorityGrows
<1>5. q = calls'[u]
  BY <1>1
<1> HIDE <1>1
<1> QED BY <1>2, <1>3, <1>4, <1>5 DEF CallHolds, IsDelegated, IsBacked

\* One call moves, and holds what it then needs.
LEMMA CallMoves ==
  ASSUME IdentityInvariant, AuthorityGrows, NEW t \in Threads, NEW q \in Calls,
         calls' = [calls EXCEPT ![t] = q],
         q.phase = "issue" => IsDelegated(q.grant)',
         q.phase \in {"context", "checked"} =>
           q.x.device \notin q.revoked /\ q.withdrawn \subseteq withdrawn',
         q.phase = "checked" => IsBacked(q)'
  PROVE  calls' \in [Threads -> Calls] /\ \A u \in Threads : CallHolds(u)'
<1>1. /\ calls' \in [Threads -> Calls] /\ calls'[t] = q
      /\ \A u \in Threads \ {t} : calls'[u] = calls[u]
  BY DEF IdentityInvariant, TypeOK
<1>2. CallHolds(t)'
  BY <1>1 DEF CallHolds, IsDelegated, IsBacked
<1> QED BY <1>1, <1>2, CallStays

\* What was done stays paid.
LEMMA DoneStays ==
  ASSUME IdentityInvariant, AuthorityGrows, consumed \subseteq consumed', UNCHANGED done
  PROVE  DoneIsPaid' /\ SpentOnce'
<1>1. ASSUME NEW d \in done
      PROVE  /\ d.cap \in Caps /\ d.cap \in consumed' /\ d.x.device \notin d.revoked
             /\ IsBacked(d)'
  BY BackedStays DEF IdentityInvariant, DoneIsPaid
<1> QED BY <1>1 DEF IdentityInvariant, DoneIsPaid, SpentOnce

\* Capabilities keep their delegation when none is added.
LEMMA CapsStay ==
  ASSUME IdentityInvariant, AuthorityGrows, UNCHANGED caps
  PROVE  \A c \in Caps : caps'[c] # None => IsDelegated(caps[c])'
<1> SUFFICES ASSUME NEW c \in Caps, caps[c] # None PROVE IsDelegated(caps[c])'
  OBVIOUS
<1>1. PICK cap : cap = caps[c]
  OBVIOUS
<1>2. IsDelegated(cap)
  BY <1>1 DEF IdentityInvariant
<1>3. IsDelegated(cap)' /\ cap = caps'[c]
  BY <1>1, <1>2, DelegatedStays
<1> HIDE <1>1
<1> QED BY <1>3 DEF IsDelegated

\* A step that moves one call only.
LEMMA OnlyCall ==
  ASSUME IdentityInvariant, NEW t \in Threads, NEW q \in Calls,
         calls' = [calls EXCEPT ![t] = q],
         q.phase = "issue" => IsDelegated(q.grant),
         q.phase \in {"context", "checked"} =>
           q.x.device \notin q.revoked /\ q.withdrawn \subseteq withdrawn,
         q.phase = "checked" => IsBacked(q),
         UNCHANGED <<authorityVars, caps, consumed, done>>
  PROVE  IdentityInvariant'
<1>0. UNCHANGED <<root, enrolled, revoked, epoch, grants, withdrawn, audits>>
  BY DEF authorityVars
<1>1. AuthorityGrows
  BY <1>0 DEF AuthorityGrows
<1>2. /\ q.phase = "issue" => IsDelegated(q.grant)'
      /\ q.phase = "checked" => IsBacked(q)'
  BY <1>1, CallFields, DelegatedStays, BackedStays
<1>3. calls' \in [Threads -> Calls] /\ \A u \in Threads : CallHolds(u)'
  BY <1>0, <1>1, <1>2, CallMoves
<1>4. TypeOK' /\ ChangesAreAudited'
  BY <1>0, <1>3
     DEF IdentityInvariant, TypeOK, ChangesAreAudited, EnrolledDevices, GivenGrants
<1> QED BY <1>1, <1>3, <1>4, CapsStay, DoneStays DEF IdentityInvariant

-----------------------------------------------------------------------------
(* First steps: a call reads what it needs.                                *)

\* The four calls of the owner, and a call that is given up.
LEMMA OwnerCalls ==
  ASSUME IdentityInvariant, NEW t \in Threads, NEW x \in Contexts,
         \/ \E key \in Keys, d \in Devices, until \in Expiries :
              EnrollCheck(t, x, Enrollment(key, d, until))
         \/ \E d \in Devices : RevokeCheck(t, x, d)
         \/ \E g \in Grants, actions \in SUBSET Actions \ {{}}, until \in Expiries :
              DelegateCheck(t, x, g, DelegatedGrant(actions, until))
         \/ \E g \in Grants : WithdrawCheck(t, x, g)
  PROVE  IdentityInvariant'
<1>1. ASSUME NEW r \in Requests, Pending(t, r), UNCHANGED <<authorityVars, caps, consumed, done>>
      PROVE  IdentityInvariant'
  <2> DEFINE q == [phase |-> "commit", request |-> r]
  <2>1. q \in Calls /\ q.phase = "commit"
    BY DEF Calls
  <2>2. calls' = [calls EXCEPT ![t] = q]
    BY <1>1 DEF Pending
  <2> HIDE DEF q
  <2> QED BY <1>1, <2>1, <2>2, OnlyCall
<1>2. ASSUME NEW key \in Keys, NEW d \in Devices, NEW until \in Expiries,
             EnrollCheck(t, x, Enrollment(key, d, until))
      PROVE  IdentityInvariant'
  <2>1. [op |-> "enroll", what |-> Enrollment(key, d, until)] \in Requests
    BY DEF Enrollment, Enrollments, Requests
  <2> QED BY <1>1, <1>2, <2>1 DEF EnrollCheck
<1>3. ASSUME NEW d \in Devices, RevokeCheck(t, x, d)
      PROVE  IdentityInvariant'
  <2>1. [op |-> "revoke", what |-> d, next |-> epoch + 1] \in Requests
    BY DEF Requests, IdentityInvariant, TypeOK
  <2> QED BY <1>1, <1>3, <2>1 DEF RevokeCheck
<1>4. ASSUME NEW g \in Grants, NEW actions \in SUBSET Actions \ {{}}, NEW until \in Expiries,
             DelegateCheck(t, x, g, DelegatedGrant(actions, until))
      PROVE  IdentityInvariant'
  <2>1. [op |-> "delegate", what |-> g, grant |-> DelegatedGrant(actions, until)] \in Requests
    BY DEF DelegatedGrant, Delegations, Requests
  <2> QED BY <1>1, <1>4, <2>1 DEF DelegateCheck
<1>5. ASSUME NEW g \in Grants, WithdrawCheck(t, x, g)
      PROVE  IdentityInvariant'
  <2>1. [op |-> "withdraw", what |-> g] \in Requests
    BY DEF Requests
  <2> QED BY <1>1, <1>5, <2>1 DEF WithdrawCheck
<1> QED BY <1>2, <1>3, <1>4, <1>5

\* issue finds the one delegation of a reviewer.
LEMMA Issue ==
  ASSUME IdentityAssumption, IdentityInvariant, NEW t \in Threads, NEW x \in Contexts,
         NEW c \in Caps, NEW actions \in SUBSET Actions \ {{}}, NEW until \in Expiries,
         IssueCheck(t, x, c, actions, until)
  PROVE  IdentityInvariant'
<1>1. PICK s \in IF x.actor = Owner THEN {{}} ELSE {CandidateGrants(actions)} :
        /\ x.actor # Owner => Cardinality(s) = 1
        /\ calls' = [calls EXCEPT ![t] = [phase |-> "issue", cap |-> c,
                                          grant |-> Capability(x, actions, until, s)]]
  BY DEF IssueCheck
<1>2. x.actor \in Keys /\ x.device \in Devices
  BY DEF Contexts
<1>3. s \in SUBSET Grants /\ (x.actor # Owner => \E g \in Grants : s = {g} /\ grants[g] # None)
  <2>1. CASE x.actor = Owner
    BY <1>1, <2>1
  <2>2. CASE x.actor # Owner
    <3>1. s = CandidateGrants(actions) /\ s \in SUBSET Grants
      BY <1>1, <2>2 DEF CandidateGrants
    <3>2. IsFiniteSet(s)
      BY <3>1, FS_Subset DEF IdentityAssumption
    <3>3. PICK g : s = {g}
      BY <1>1, <2>2, <3>2, FS_Singleton
    <3>4. g \in Grants /\ grants[g] # None
      BY <3>1, <3>3 DEF CandidateGrants
    <3> QED BY <3>1, <3>3, <3>4
  <2> QED BY <2>1, <2>2
<1> DEFINE cap == Capability(x, actions, until, s)
           q == [phase |-> "issue", cap |-> c, grant |-> cap]
<1>4. cap \in Capabilities /\ cap.subject = x.actor /\ cap.grant = s
  BY <1>2, <1>3 DEF Capability, Capabilities
<1>5. IsDelegated(cap)
  BY <1>3, <1>4 DEF IsDelegated
<1> HIDE DEF cap
<1>6. q \in Calls /\ q.phase = "issue" /\ q.grant = cap
  BY <1>4 DEF Calls
<1>7. calls' = [calls EXCEPT ![t] = q]
  BY <1>1 DEF cap
<1> HIDE DEF q
<1> QED BY <1>5, <1>6, <1>7, OnlyCall DEF IssueCheck

\* consume: the device is active when the call begins, and the check finds the
\* capability the device's own, with its delegation.
LEMMA ConsumeReads ==
  ASSUME IdentityInvariant, NEW t \in Threads,
         \/ \E x \in Contexts, c \in Caps, action \in Actions : ConsumeContext(t, x, c, action)
         \/ ConsumeCheck(t)
         \/ GiveUp(t)
  PROVE  IdentityInvariant'
<1>0. calls \in [Threads -> Calls] /\ calls[t] \in Calls /\ CallHolds(t)
  BY DEF IdentityInvariant, TypeOK
<1>1. ASSUME NEW x \in Contexts, NEW c \in Caps, NEW action \in Actions,
             ConsumeContext(t, x, c, action)
      PROVE  IdentityInvariant'
  <2> DEFINE q == [phase |-> "context", x |-> x, cap |-> c, action |-> action,
                   revoked |-> revoked, withdrawn |-> withdrawn]
  <2>1. q \in Calls
    BY DEF Calls, IdentityInvariant, TypeOK
  <2>2. /\ q.phase = "context" /\ q.x = x /\ q.revoked = revoked /\ q.withdrawn = withdrawn
        /\ x.device \notin revoked
    BY <1>1 DEF ConsumeContext, ActiveContext
  <2>3. calls' = [calls EXCEPT ![t] = q] /\ UNCHANGED <<authorityVars, caps, consumed, done>>
    BY <1>1 DEF ConsumeContext
  <2> HIDE DEF q
  <2> QED BY <2>1, <2>2, <2>3, OnlyCall
<1>2. CASE ConsumeCheck(t)
  <2> DEFINE o == calls[t]
             q == [o EXCEPT !.phase = "checked"]
             cap == caps[o.cap]
  <2>1. /\ o.phase = "context" /\ cap # None
        /\ cap.subject = o.x.actor /\ cap.device = o.x.device
        /\ \A g \in cap.grant : DelegationHolds(g, o.action)
        /\ calls' = [calls EXCEPT ![t] = q] /\ UNCHANGED <<authorityVars, caps, consumed, done>>
    BY <1>0, <1>2 DEF ConsumeCheck
  <2>2. /\ o.x \in Contexts /\ o.cap \in Caps /\ o.action \in Actions
        /\ o.revoked \in SUBSET Devices /\ o.withdrawn \in SUBSET Grants
        /\ o = [phase |-> o.phase, x |-> o.x, cap |-> o.cap, action |-> o.action,
                revoked |-> o.revoked, withdrawn |-> o.withdrawn]
    BY <1>0, <2>1, CallFields
  <2>3. /\ q \in Calls /\ q.phase = "checked" /\ q.x = o.x /\ q.cap = o.cap
        /\ q.action = o.action /\ q.revoked = o.revoked /\ q.withdrawn = o.withdrawn
    BY <2>2 DEF Calls
  <2>4. o.x.device \notin o.revoked /\ o.withdrawn \subseteq withdrawn
    BY <1>0, <2>1 DEF CallHolds
  <2>5. IsDelegated(cap)
    BY <2>1, <2>2 DEF IdentityInvariant
  <2> HIDE DEF q
  <2>6. IsBacked(q)
    <3>1. CASE o.x.actor = Owner
      BY <2>1, <2>3, <3>1 DEF IsBacked
    <3>2. CASE o.x.actor # Owner
      <4>1. PICK g \in Grants : cap.grant = {g} /\ grants[g] # None
        BY <2>1, <2>5, <3>2 DEF IsDelegated
      <4>2. g \notin withdrawn /\ o.action \in grants[g].actions
        BY <2>1, <4>1 DEF DelegationHolds
      <4> QED BY <2>1, <2>3, <2>4, <4>1, <4>2 DEF IsBacked
    <3> QED BY <3>1, <3>2
  <2> QED BY <2>1, <2>3, <2>4, <2>6, OnlyCall
<1>3. CASE GiveUp(t)
  BY <1>3, IdleCall, OnlyCall DEF GiveUp
<1> QED BY <1>1, <1>2, <1>3

-----------------------------------------------------------------------------
(* Last steps: a call commits.                                             *)

\* The four counts of the audit trail are numbers.
LEMMA Counts ==
  ASSUME IdentityAssumption, TypeOK
  PROVE  /\ IsFiniteSet(EnrolledDevices) /\ Cardinality(EnrolledDevices) \in Nat
         /\ IsFiniteSet(revoked) /\ Cardinality(revoked) \in Nat
         /\ IsFiniteSet(GivenGrants) /\ Cardinality(GivenGrants) \in Nat
         /\ IsFiniteSet(withdrawn) /\ Cardinality(withdrawn) \in Nat
<1>1. /\ EnrolledDevices \in SUBSET Devices /\ revoked \in SUBSET Devices
      /\ GivenGrants \in SUBSET Grants /\ withdrawn \in SUBSET Grants
  BY DEF TypeOK, EnrolledDevices, GivenGrants
<1>2. /\ IsFiniteSet(EnrolledDevices) /\ IsFiniteSet(revoked)
      /\ IsFiniteSet(GivenGrants) /\ IsFiniteSet(withdrawn)
  BY <1>1, FS_Subset DEF IdentityAssumption
<1> QED BY <1>2, FS_CardinalityType

\* A commit changes one of the four registries, by one entry that it did not
\* have, and writes one audit record with it.
LEMMA Commits ==
  ASSUME IdentityAssumption, IdentityInvariant, NEW t \in Threads, Commit(t)
  PROVE  IdentityInvariant'
<1> DEFINE r == calls[t].request
<1>0. /\ TypeOK /\ ChangesAreAudited /\ calls[t] \in Calls
      /\ enrolled \in [Devices -> Enrollments \cup {None}]
      /\ grants \in [Grants -> Delegations \cup {None}]
      /\ revoked \subseteq Devices /\ withdrawn \subseteq Grants
      /\ epoch \in Nat /\ audits \in Nat /\ MaxAudits \in Nat
  BY DEF IdentityInvariant, TypeOK, IdentityAssumption
<1>1. /\ calls[t].phase = "commit" /\ audits < MaxAudits /\ audits' = audits + 1
      /\ calls' = [calls EXCEPT ![t] = Idle] /\ UNCHANGED <<caps, consumed, done>>
      /\ \/ CommitEnrollment(r) \/ CommitDeviceRevocation(r)
         \/ CommitDelegation(r) \/ CommitDelegationRevocation(r)
  BY DEF Commit, AuditCapacity
<1>2. r \in Requests
  BY <1>0, <1>1, CallFields
<1> HIDE DEF r
<1>3. ASSUME AuthorityGrows, root' \in BOOLEAN, epoch' \in Nat,
             enrolled' \in [Devices -> Enrollments \cup {None}],
             grants' \in [Grants -> Delegations \cup {None}],
             revoked' \subseteq Devices, withdrawn' \subseteq Grants,
             epoch' = Cardinality(revoked'),
             Cardinality(EnrolledDevices') + Cardinality(revoked')
               + Cardinality(GivenGrants') + Cardinality(withdrawn')
             = Cardinality(EnrolledDevices) + Cardinality(revoked)
               + Cardinality(GivenGrants) + Cardinality(withdrawn) + 1
      PROVE  IdentityInvariant'
  <2>1. calls' \in [Threads -> Calls] /\ \A u \in Threads : CallHolds(u)'
    BY <1>1, <1>3, IdleCall, CallMoves
  <2>2. TypeOK'
    BY <1>0, <1>1, <1>3, <2>1 DEF TypeOK
  <2>3. ChangesAreAudited'
    BY <1>0, <1>1, <1>3 DEF ChangesAreAudited
  <2> QED BY <1>1, <1>3, <2>1, <2>2, <2>3, CapsStay, DoneStays DEF IdentityInvariant
<1>4. /\ IsFiniteSet(EnrolledDevices) /\ Cardinality(EnrolledDevices) \in Nat
      /\ IsFiniteSet(revoked) /\ Cardinality(revoked) \in Nat
      /\ IsFiniteSet(GivenGrants) /\ Cardinality(GivenGrants) \in Nat
      /\ IsFiniteSet(withdrawn) /\ Cardinality(withdrawn) \in Nat
      /\ epoch = Cardinality(revoked)
  BY <1>0, Counts DEF ChangesAreAudited
<1>5. CASE CommitEnrollment(r)
  <2>1. r.what \in Enrollments /\ r.op = "enroll"
    BY <1>2, <1>5 DEF CommitEnrollment, Requests
  <2> DEFINE e == r.what
             d == r.what.device
  <2>2. d \in Devices /\ e # None
    BY <2>1 DEF Enrollments, None
  <2>3. /\ enrolled[d] = None /\ root' = TRUE /\ enrolled' = [enrolled EXCEPT ![d] = e]
        /\ UNCHANGED <<revoked, epoch, grants, withdrawn>>
    BY <1>5 DEF CommitEnrollment
  <2> HIDE DEF e, d
  <2>4. enrolled' \in [Devices -> Enrollments \cup {None}] /\ e \in Enrollments
    BY <1>0, <2>1, <2>3 DEF e
  <2>5. EnrolledDevices' = EnrolledDevices \cup {d} /\ d \notin EnrolledDevices
    BY <1>0, <2>2, <2>3 DEF EnrolledDevices
  <2>6. Cardinality(EnrolledDevices') = Cardinality(EnrolledDevices) + 1
    BY <1>4, <2>5, FS_AddElement
  <2>7. GivenGrants' = GivenGrants /\ AuthorityGrows
    BY <1>1, <2>3 DEF GivenGrants, AuthorityGrows
  <2> QED BY <1>0, <1>3, <1>4, <2>3, <2>4, <2>6, <2>7
<1>6. CASE CommitDeviceRevocation(r)
  <2> DEFINE d == r.what
  <2>1. d \in Devices
    BY <1>2, <1>6 DEF CommitDeviceRevocation, Requests
  <2>2. /\ d \notin revoked /\ revoked' = revoked \cup {d} /\ epoch' = epoch + 1
        /\ UNCHANGED <<root, enrolled, grants, withdrawn>>
    BY <1>6 DEF CommitDeviceRevocation
  <2> HIDE DEF d
  <2>3. Cardinality(revoked') = Cardinality(revoked) + 1
    BY <1>4, <2>2, FS_AddElement
  <2>4. EnrolledDevices' = EnrolledDevices /\ GivenGrants' = GivenGrants /\ AuthorityGrows
    BY <1>1, <2>2 DEF EnrolledDevices, GivenGrants, AuthorityGrows
  <2>5. root' \in BOOLEAN /\ epoch' \in Nat /\ revoked' \subseteq Devices
    BY <1>0, <2>1, <2>2 DEF TypeOK
  <2> QED BY <1>0, <1>3, <1>4, <2>2, <2>3, <2>4, <2>5
<1>7. CASE CommitDelegation(r)
  <2> DEFINE g == r.what
             e == r.grant
  <2>1. g \in Grants /\ e \in Delegations
    BY <1>2, <1>7 DEF CommitDelegation, Requests
  <2>2. /\ grants[g] = None /\ grants' = [grants EXCEPT ![g] = e]
        /\ UNCHANGED <<root, enrolled, revoked, epoch, withdrawn>>
    BY <1>7 DEF CommitDelegation
  <2> HIDE DEF g, e
  <2>3. e # None
    BY <2>1 DEF Delegations, None
  <2>4. grants' \in [Grants -> Delegations \cup {None}]
    BY <1>0, <2>1, <2>2
  <2>5. GivenGrants' = GivenGrants \cup {g} /\ g \notin GivenGrants
    BY <1>0, <2>1, <2>2, <2>3 DEF GivenGrants
  <2>6. Cardinality(GivenGrants') = Cardinality(GivenGrants) + 1
    BY <1>4, <2>5, FS_AddElement
  <2>7. EnrolledDevices' = EnrolledDevices
    BY <2>2 DEF EnrolledDevices
  <2>8. AuthorityGrows /\ root' \in BOOLEAN
    BY <1>0, <1>1, <2>1, <2>2 DEF AuthorityGrows, TypeOK
  <2> QED BY <1>0, <1>3, <1>4, <2>2, <2>4, <2>6, <2>7, <2>8
<1>8. CASE CommitDelegationRevocation(r)
  <2> DEFINE g == r.what
  <2>1. g \in Grants
    BY <1>2, <1>8 DEF CommitDelegationRevocation, Requests
  <2>2. /\ g \notin withdrawn /\ withdrawn' = withdrawn \cup {g}
        /\ UNCHANGED <<root, enrolled, revoked, epoch, grants>>
    BY <1>8 DEF CommitDelegationRevocation
  <2> HIDE DEF g
  <2>3. Cardinality(withdrawn') = Cardinality(withdrawn) + 1
    BY <1>4, <2>2, FS_AddElement
  <2>4. EnrolledDevices' = EnrolledDevices /\ GivenGrants' = GivenGrants /\ AuthorityGrows
    BY <1>1, <2>2 DEF EnrolledDevices, GivenGrants, AuthorityGrows
  <2>5. root' \in BOOLEAN /\ withdrawn' \subseteq Grants
    BY <1>0, <2>1, <2>2 DEF TypeOK
  <2> QED BY <1>0, <1>3, <1>4, <2>2, <2>3, <2>4, <2>5
<1> QED BY <1>1, <1>5, <1>6, <1>7, <1>8

\* save_capability: a new reference, with the delegation it was issued under.
LEMMA Saves ==
  ASSUME IdentityInvariant, NEW t \in Threads, SaveCapability(t)
  PROVE  IdentityInvariant'
<1>0. /\ TypeOK /\ ChangesAreAudited /\ calls[t] \in Calls /\ CallHolds(t) /\ epoch \in Nat
      /\ caps \in [Caps -> Capabilities \cup {None}]
  BY DEF IdentityInvariant, TypeOK
<1> DEFINE c == calls[t].cap
           issued == calls[t].grant
           cap == [issued EXCEPT !.epoch = epoch]
<1>1. /\ calls[t].phase = "issue" /\ caps[c] = None /\ caps' = [caps EXCEPT ![c] = cap]
      /\ calls' = [calls EXCEPT ![t] = Idle] /\ UNCHANGED <<authorityVars, consumed, done>>
  BY DEF SaveCapability
<1>2. c \in Caps /\ issued \in Capabilities /\ IsDelegated(issued)
  BY <1>0, <1>1, CallFields DEF CallHolds
<1>3. UNCHANGED <<root, enrolled, revoked, epoch, grants, withdrawn, audits>>
  BY <1>1 DEF authorityVars
<1> HIDE DEF issued
<1>4. /\ cap \in Capabilities /\ cap.subject = issued.subject /\ cap.grant = issued.grant
  BY <1>0, <1>2 DEF Capabilities
<1>5. IsDelegated(cap)
  BY <1>2, <1>4 DEF IsDelegated
<1> HIDE DEF cap, c
<1>6. AuthorityGrows /\ caps' \in [Caps -> Capabilities \cup {None}] /\ caps'[c] = cap
      /\ \A b \in Caps \ {c} : caps'[b] = caps[b]
  BY <1>0, <1>1, <1>2, <1>3, <1>4 DEF AuthorityGrows
<1>7. calls' \in [Threads -> Calls] /\ \A u \in Threads : CallHolds(u)'
  BY <1>1, <1>6, IdleCall, CallMoves
<1>8. \A b \in Caps : caps'[b] # None => IsDelegated(caps[b])'
  <2> SUFFICES ASSUME NEW b \in Caps, caps'[b] # None PROVE IsDelegated(caps[b])'
    OBVIOUS
  <2>1. IsDelegated(caps'[b])
    BY <1>5, <1>6 DEF IdentityInvariant
  <2> QED BY <1>3, <2>1 DEF IsDelegated
<1>9. TypeOK' /\ ChangesAreAudited'
  BY <1>0, <1>3, <1>6, <1>7 DEF TypeOK, ChangesAreAudited, EnrolledDevices, GivenGrants
<1> QED BY <1>1, <1>6, <1>7, <1>8, <1>9, DoneStays DEF IdentityInvariant

\* consume_capability: the mark is tested and set in one step, and the call has
\* checked everything else.
LEMMA Consumes ==
  ASSUME IdentityInvariant, NEW t \in Threads, ConsumeCapability(t)
  PROVE  IdentityInvariant'
<1> DEFINE o == calls[t]
           e == [cap |-> o.cap, by |-> t, x |-> o.x, action |-> o.action,
                 revoked |-> o.revoked, withdrawn |-> o.withdrawn]
<1>0. /\ TypeOK /\ SpentOnce /\ ChangesAreAudited /\ DoneIsPaid /\ CallHolds(t)
      /\ calls[t] \in Calls
  BY DEF IdentityInvariant, TypeOK
<1>1. /\ o.phase = "checked" /\ o.cap \notin consumed /\ consumed' = consumed \cup {o.cap}
      /\ done' = done \cup {e} /\ calls' = [calls EXCEPT ![t] = Idle]
      /\ UNCHANGED <<authorityVars, caps>>
  BY DEF ConsumeCapability
<1>2. UNCHANGED <<root, enrolled, revoked, epoch, grants, withdrawn, audits>>
  BY <1>1 DEF authorityVars
<1>3. AuthorityGrows
  BY <1>1, <1>2 DEF AuthorityGrows
<1>4. /\ o.cap \in Caps /\ o.x.device \notin o.revoked /\ IsBacked(o)
  BY <1>0, <1>1, CallFields DEF CallHolds
<1>5. /\ e.cap = o.cap /\ e.x = o.x /\ e.action = o.action /\ e.revoked = o.revoked
      /\ e.withdrawn = o.withdrawn
  OBVIOUS
<1> HIDE DEF e, o
<1>6. IsBacked(e)
  BY <1>4, <1>5 DEF IsBacked
<1>7. DoneIsPaid'
  <2> SUFFICES ASSUME NEW d \in done'
               PROVE  /\ d.cap \in Caps /\ d.cap \in consumed' /\ d.x.device \notin d.revoked
                      /\ IsBacked(d)'
    BY DEF DoneIsPaid
  <2>1. /\ d.cap \in Caps /\ d.cap \in consumed' /\ d.x.device \notin d.revoked
        /\ IsBacked(d)
    BY <1>0, <1>1, <1>4, <1>5, <1>6 DEF DoneIsPaid
  <2> QED BY <1>3, <2>1, BackedStays
<1>8. SpentOnce'
  BY <1>0, <1>1, <1>5 DEF SpentOnce, DoneIsPaid
<1>9. calls' \in [Threads -> Calls] /\ \A u \in Threads : CallHolds(u)'
  BY <1>1, <1>3, IdleCall, CallMoves
<1>10. TypeOK' /\ ChangesAreAudited'
  BY <1>0, <1>1, <1>2, <1>9 DEF TypeOK, ChangesAreAudited, EnrolledDevices, GivenGrants
<1> QED BY <1>1, <1>3, <1>7, <1>8, <1>9, <1>10, CapsStay DEF IdentityInvariant

-----------------------------------------------------------------------------
(* The theorem.                                                            *)

\* Time passes, or nothing happens.
LEMMA TimeStep ==
  ASSUME IdentityInvariant, UNCHANGED <<authorityVars, caps, consumed, calls, done>>
  PROVE  IdentityInvariant'
<1>1. UNCHANGED <<root, enrolled, revoked, epoch, grants, withdrawn, audits>>
  BY DEF authorityVars
<1>2. AuthorityGrows
  BY <1>1 DEF AuthorityGrows
<1>3. TypeOK' /\ ChangesAreAudited'
  BY <1>1 DEF IdentityInvariant, TypeOK, ChangesAreAudited, EnrolledDevices, GivenGrants
<1> QED BY <1>2, <1>3, CallStays, CapsStay, DoneStays DEF IdentityInvariant

\* Every operation was authorized when its call began: paid with a capability of
\* its own, by a device whose revocation had not been committed, under a
\* delegation not withdrawn that covers the action; and the audit trail has one
\* record for each change of authority (IdentityPolicyV2 over its store).
THEOREM OperationsStayAuthorized ==
  ASSUME IdentityAssumption
  PROVE  Spec => []OperationIsAuthorized
<1>1. Init => IdentityInvariant
  <2> SUFFICES ASSUME Init PROVE IdentityInvariant
    OBVIOUS
  <2>1. TypeOK
    BY IdleCall DEF Init, TypeOK
  <2>2. EnrolledDevices = {} /\ GivenGrants = {}
    BY DEF Init, EnrolledDevices, GivenGrants
  <2>3. ChangesAreAudited
    BY <2>2, FS_EmptySet DEF Init, ChangesAreAudited, IdentityAssumption
  <2>4. SpentOnce /\ DoneIsPaid
    BY DEF Init, SpentOnce, DoneIsPaid
  <2>5. \A t \in Threads : CallHolds(t)
    BY IdleCall DEF Init, CallHolds
  <2>6. \A c \in Caps : caps[c] # None => IsDelegated(caps[c])
    BY DEF Init
  <2> QED BY <2>1, <2>3, <2>4, <2>5, <2>6 DEF IdentityInvariant
<1>2. IdentityInvariant /\ [Next]_vars => IdentityInvariant'
  <2> SUFFICES ASSUME IdentityInvariant, [Next]_vars PROVE IdentityInvariant'
    OBVIOUS
  <2>1. CASE Tick \/ UNCHANGED vars
    BY <2>1, TimeStep DEF Tick, vars
  <2>2. ASSUME NEW t \in Threads, NEW x \in Contexts,
               \/ \E key \in Keys, d \in Devices, until \in Expiries :
                    EnrollCheck(t, x, Enrollment(key, d, until))
               \/ \E d \in Devices : RevokeCheck(t, x, d)
               \/ \E g \in Grants, actions \in SUBSET Actions \ {{}}, until \in Expiries :
                    DelegateCheck(t, x, g, DelegatedGrant(actions, until))
               \/ \E g \in Grants : WithdrawCheck(t, x, g)
        PROVE  IdentityInvariant'
    BY <2>2, OwnerCalls
  <2>3. ASSUME NEW t \in Threads, NEW x \in Contexts, NEW c \in Caps,
               NEW actions \in SUBSET Actions \ {{}}, NEW until \in Expiries,
               IssueCheck(t, x, c, actions, until)
        PROVE  IdentityInvariant'
    BY <2>3, Issue
  <2>4. ASSUME NEW t \in Threads,
               \/ \E x \in Contexts, c \in Caps, action \in Actions :
                    ConsumeContext(t, x, c, action)
               \/ ConsumeCheck(t) \/ GiveUp(t)
        PROVE  IdentityInvariant'
    BY <2>4, ConsumeReads
  <2>5. ASSUME NEW t \in Threads, Commit(t) \/ SaveCapability(t) \/ ConsumeCapability(t)
        PROVE  IdentityInvariant'
    BY <2>5, Commits, Saves, Consumes
  <2> QED BY <2>1, <2>2, <2>3, <2>4, <2>5 DEF Next
<1>3. IdentityInvariant => OperationIsAuthorized
  BY DEF IdentityInvariant, OperationIsAuthorized, OperationIsBacked, DoneIsPaid, IsBacked
<1> QED BY <1>1, <1>2, <1>3, PTL DEF Spec

-----------------------------------------------------------------------------
(* SecondBrainAccess: the credential, egress and source gates.             *)

\* The invariant, gate by gate: no step disturbs more than one of them.
CredentialPart ==
  /\ accessEpoch \in Nat
  /\ accessCaps \in [Caps -> {Access!None} \cup Access!GrantRows]
  /\ receipts \in [Caps -> {"none", "minted", "redeemed"}]
  /\ accessCalls \in [Threads -> {Access!Idle} \cup Access!Calls]
  /\ handed \subseteq [cap : Caps, by : Threads, epoch : Nat, at : Nat]
  /\ Access!SecretsAreOnce
  /\ \A h \in handed : Access!SecretIsGranted(h)
  /\ \A t \in Threads : Access!CallIsEarned(t)
  /\ Access!ReceiptsAreHeldOnce
  /\ \A h \in handed : receipts[h.cap] = "redeemed"

EgressPart ==
  /\ egress \in Seq([policy : {1, 2}, ret : {1, 2}, until : Access!Times])
  /\ \A s \in sent : Access!SentUnderReceipt(s)
  /\ sending # Access!Idle =>
       sending.phase = "authorized" /\ Access!SentUnderReceipt(sending)

SourcePart ==
  /\ consent \in Access!OwnerChoices /\ retention \in Access!OwnerChoices
  /\ sandbox \in {Access!Idle} \cup Access!Reads
  /\ items \subseteq Access!Captured
  /\ \A v \in served : Access!ServedIsAllowed(v)
  /\ items # {} => {x.entry : x \in items} = Entries

\* The three parts are the invariant.
LEMMA InvariantByGate ==
  Access!AccessInvariant <=> accessClock \in Nat /\ CredentialPart /\ EgressPart /\ SourcePart
BY DEF Access!AccessInvariant, Access!TypeOK, Access!AccessIsEarned, CredentialPart,
       EgressPart, SourcePart

\* So they are in the next state.
LEMMA InvariantByGatePrimed ==
  Access!AccessInvariant' <=> accessClock' \in Nat /\ CredentialPart' /\ EgressPart'
  /\ SourcePart'
BY DEF Access!AccessInvariant, Access!TypeOK, Access!AccessIsEarned, CredentialPart,
       EgressPart, SourcePart

\* A gate whose rows stay keeps its part.
LEMMA EgressStays == ASSUME EgressPart, UNCHANGED Access!egressVars PROVE EgressPart'
BY DEF EgressPart, Access!egressVars, Access!SentUnderReceipt

\* The same for consent, retention and what was captured.
LEMMA SourceStays == ASSUME SourcePart, UNCHANGED Access!sourceVars PROVE SourcePart'
BY DEF SourcePart, Access!sourceVars, Access!ServedIsAllowed

\* The same for capabilities, whose accessEpoch may move by itself.
LEMMA CredentialStays ==
  ASSUME CredentialPart, accessEpoch' \in Nat, UNCHANGED <<accessCaps, receipts, accessCalls, handed>>
  PROVE  CredentialPart'
<1>1. Access!SecretsAreOnce' /\ Access!ReceiptsAreHeldOnce'
  BY DEF CredentialPart, Access!SecretsAreOnce, Access!ReceiptsAreHeldOnce
<1>2. \A h \in handed' : Access!SecretIsGranted(h)' /\ receipts'[h.cap] = "redeemed"
  BY DEF CredentialPart, Access!SecretIsGranted
<1>3. \A t \in Threads : Access!CallIsEarned(t)'
  BY DEF CredentialPart, Access!CallIsEarned
<1> QED BY <1>1, <1>2, <1>3 DEF CredentialPart

\* What a call carries depends on its phase.
LEMMA AccessCallFields ==
  ASSUME NEW o \in {Access!Idle} \cup Access!Calls
  PROVE  /\ o = Access!Idle <=> o.phase = "idle"
         /\ o.phase = "issue" => o.cap \in Caps /\ o.expires \in Access!Times
         /\ o.phase \in {"checked", "receipt"} => o.cap \in Caps /\ o.epoch \in Nat
         /\ o.phase \in {"idle", "issue", "checked", "receipt"}
BY DEF Access!Idle, Access!Calls

\* A call moves without holding a receipt afterwards, and no receipt, grant or
\* secret changes.
LEMMA AccessCallMoves ==
  ASSUME CredentialPart, NEW t \in Threads, NEW o \in {Access!Idle} \cup Access!Calls,
         accessCalls' = [accessCalls EXCEPT ![t] = o], o.phase # "receipt",
         UNCHANGED <<accessEpoch, accessCaps, receipts, handed>>,
         o.phase = "checked" => accessCaps[o.cap] # Access!None /\ o.epoch = accessCaps[o.cap].epoch
  PROVE  CredentialPart'
<1>1. /\ accessCalls' \in [Threads -> {Access!Idle} \cup Access!Calls]
      /\ \A u \in Threads : accessCalls'[u] = IF u = t THEN o ELSE accessCalls[u]
  BY DEF CredentialPart
<1>2. \A h \in handed' : Access!SecretIsGranted(h)' /\ receipts'[h.cap] = "redeemed"
  BY DEF CredentialPart, Access!SecretIsGranted
<1>3. \A u \in Threads : Access!CallIsEarned(u)'
  BY <1>1 DEF CredentialPart, Access!CallIsEarned
<1>4. Access!ReceiptsAreHeldOnce'
  BY <1>1 DEF CredentialPart, Access!ReceiptsAreHeldOnce
<1>5. Access!SecretsAreOnce'
  BY DEF CredentialPart, Access!SecretsAreOnce
<1> QED BY <1>1, <1>2, <1>3, <1>4, <1>5 DEF CredentialPart

\* Issuing and checking read the device's rows; neither touches a receipt.
LEMMA IssueAndCheck ==
  ASSUME CredentialPart, NEW t \in Threads, NEW c \in Caps,
         \/ \E actor \in {"owner", "reviewer"}, expires \in Access!Times :
              Access!IssueRead(t, c, actor, expires)
         \/ Access!ConsumeCheck(t, c)
  PROVE  CredentialPart'
<1>1. CASE \E actor \in {"owner", "reviewer"}, expires \in Access!Times :
             Access!IssueRead(t, c, actor, expires)
  <2>1. PICK expires \in Access!Times :
          /\ accessCalls' = [accessCalls EXCEPT ![t] = [phase |-> "issue", cap |-> c, expires |-> expires]]
          /\ UNCHANGED <<accessEpoch, accessCaps, receipts, handed>>
    BY <1>1 DEF Access!IssueRead
  <2>2. PICK o \in Access!Calls : o = [phase |-> "issue", cap |-> c, expires |-> expires]
    BY DEF Access!Calls
  <2>3. o.phase = "issue" /\ accessCalls' = [accessCalls EXCEPT ![t] = o]
    BY <2>1, <2>2
  <2> QED BY <2>1, <2>3, AccessCallMoves
<1>2. CASE Access!ConsumeCheck(t, c)
  <2>1. /\ accessCalls' = [accessCalls EXCEPT ![t] = [phase |-> "checked", cap |-> c, epoch |-> accessEpoch]]
        /\ UNCHANGED <<accessEpoch, accessCaps, receipts, handed>>
        /\ accessCaps[c] # Access!None /\ accessCaps[c].epoch = accessEpoch
    BY <1>2 DEF Access!ConsumeCheck, Access!NotRevoked
  <2>2. PICK o \in Access!Calls : o = [phase |-> "checked", cap |-> c, epoch |-> accessEpoch]
    BY DEF Access!Calls, CredentialPart
  <2>3. /\ o.phase = "checked" /\ o.cap = c /\ o.epoch = accessEpoch
        /\ accessCalls' = [accessCalls EXCEPT ![t] = o]
    BY <2>1, <2>2
  <2> QED BY <2>1, <2>3, AccessCallMoves
<1> QED BY <1>1, <1>2

\* Saving a capability touches no reference that exists.
LEMMA SaveKeeps ==
  ASSUME CredentialPart, NEW t \in Threads, Access!IssueSave(t)
  PROVE  CredentialPart'
<1>0. PICK o \in Access!Calls : o = accessCalls[t] /\ o.phase = "issue" /\ o.cap \in Caps
                         /\ o.expires \in Access!Times
  BY AccessCallFields DEF Access!IssueSave, CredentialPart, Access!Idle
<1>1. /\ accessCalls' = [accessCalls EXCEPT ![t] = Access!Idle] /\ UNCHANGED <<accessEpoch, receipts, handed>>
      /\ accessCaps' = IF accessCaps[o.cap] # Access!None THEN accessCaps
                 ELSE [accessCaps EXCEPT ![o.cap] =
                         [kind |-> "grant", epoch |-> accessEpoch, expires |-> o.expires]]
  BY <1>0 DEF Access!IssueSave
<1>2. /\ accessCaps' \in [Caps -> {Access!None} \cup Access!GrantRows]
      /\ \A c \in Caps : accessCaps[c] # Access!None => accessCaps'[c] = accessCaps[c]
  BY <1>0, <1>1 DEF CredentialPart, Access!GrantRows
<1>3. /\ accessCalls' \in [Threads -> {Access!Idle} \cup Access!Calls]
      /\ \A u \in Threads : accessCalls'[u] = IF u = t THEN Access!Idle ELSE accessCalls[u]
  BY <1>1 DEF CredentialPart
<1>4. \A h \in handed' : Access!SecretIsGranted(h)' /\ receipts'[h.cap] = "redeemed"
  BY <1>1, <1>2 DEF CredentialPart, Access!SecretIsGranted
<1>5. ASSUME NEW u \in Threads PROVE Access!CallIsEarned(u)'
  <2>1. CASE u = t
    BY <1>3, <2>1 DEF Access!CallIsEarned, Access!Idle
  <2>2. CASE u # t
    <3>1. accessCalls'[u] = accessCalls[u] /\ Access!CallIsEarned(u)
      BY <1>3, <2>2 DEF CredentialPart
    <3>2. accessCalls[u].phase \in {"checked", "receipt"} => accessCalls[u].cap \in Caps
      BY AccessCallFields DEF CredentialPart
    <3> QED BY <1>1, <1>2, <3>1, <3>2 DEF Access!CallIsEarned
  <2> QED BY <2>1, <2>2
<1>6. Access!ReceiptsAreHeldOnce' /\ Access!SecretsAreOnce'
  BY <1>1, <1>3
     DEF CredentialPart, Access!ReceiptsAreHeldOnce, Access!SecretsAreOnce, Access!Idle
<1> QED BY <1>1, <1>2, <1>3, <1>4, <1>5, <1>6 DEF CredentialPart

\* The compare-and-consume gives the receipt to one call.
LEMMA ConsumeKeeps ==
  ASSUME CredentialPart, NEW t \in Threads, Access!CompareConsume(t)
  PROVE  CredentialPart'
<1>0. PICK o \in Access!Calls : o = accessCalls[t] /\ o.phase = "checked" /\ o.cap \in Caps
                         /\ o.epoch \in Nat
  BY AccessCallFields DEF Access!CompareConsume, CredentialPart, Access!Idle
<1>1. CASE receipts[o.cap] # "none"
  <2>1. accessCalls' = [accessCalls EXCEPT ![t] = Access!Idle]
        /\ UNCHANGED <<accessEpoch, accessCaps, receipts, handed>>
    BY <1>0, <1>1 DEF Access!CompareConsume
  <2>2. Access!Idle.phase = "idle"
    BY DEF Access!Idle
  <2> QED BY <2>1, <2>2, AccessCallMoves
<1>2. CASE receipts[o.cap] = "none"
  <2>1. PICK n \in Access!Calls : n = [phase |-> "receipt", cap |-> o.cap, epoch |-> o.epoch]
    BY <1>0 DEF Access!Calls
  <2>2. /\ accessCalls' = [accessCalls EXCEPT ![t] = n] /\ UNCHANGED <<accessEpoch, accessCaps, handed>>
        /\ receipts' = [receipts EXCEPT ![o.cap] = "minted"]
    BY <1>0, <1>2, <2>1 DEF Access!CompareConsume
  <2>3. /\ accessCalls' \in [Threads -> {Access!Idle} \cup Access!Calls]
        /\ \A u \in Threads : accessCalls'[u] = IF u = t THEN n ELSE accessCalls[u]
    BY <2>2 DEF CredentialPart
  <2>4. /\ receipts' \in [Caps -> {"none", "minted", "redeemed"}]
        /\ \A c \in Caps : receipts'[c] = IF c = o.cap THEN "minted" ELSE receipts[c]
    BY <2>2 DEF CredentialPart
  <2>5. \A h \in handed' : Access!SecretIsGranted(h)' /\ receipts'[h.cap] = "redeemed"
    BY <1>0, <1>2, <2>2, <2>4 DEF CredentialPart, Access!SecretIsGranted
  <2>6. ASSUME NEW u \in Threads PROVE Access!CallIsEarned(u)'
    <3>1. CASE u = t
      BY <1>0, <2>1, <2>2, <2>3, <2>4, <3>1 DEF Access!CallIsEarned, CredentialPart
    <3>2. CASE u # t
      <4>1. accessCalls'[u] = accessCalls[u] /\ Access!CallIsEarned(u)
        BY <2>3, <3>2 DEF CredentialPart
      <4>2. accessCalls[u].phase = "receipt" => accessCalls[u].cap \in Caps
        BY AccessCallFields DEF CredentialPart
      <4> QED BY <2>2, <2>4, <4>1, <4>2 DEF Access!CallIsEarned
    <3> QED BY <3>1, <3>2
  <2>7. \A u \in Threads : accessCalls[u].phase = "receipt" => accessCalls[u].cap # o.cap
    BY <1>2 DEF CredentialPart, Access!CallIsEarned
  <2>8. Access!ReceiptsAreHeldOnce'
    BY <2>1, <2>3, <2>7 DEF CredentialPart, Access!ReceiptsAreHeldOnce
  <2>9. Access!SecretsAreOnce'
    BY <2>2 DEF CredentialPart, Access!SecretsAreOnce
  <2> QED BY <2>2, <2>3, <2>4, <2>5, <2>6, <2>8, <2>9 DEF CredentialPart
<1> QED BY <1>1, <1>2

\* The broker redeems a receipt that one call holds and no secret was given for.
LEMMA LeaseKeeps ==
  ASSUME accessClock \in Nat, CredentialPart, NEW t \in Threads, Access!Lease(t)
  PROVE  CredentialPart'
<1>0. PICK o \in Access!Calls : o = accessCalls[t] /\ o.phase = "receipt" /\ o.cap \in Caps
                         /\ o.epoch \in Nat
  BY AccessCallFields DEF Access!Lease, CredentialPart, Access!Idle
<1>1. /\ receipts[o.cap] = "minted" /\ accessCaps[o.cap] # Access!None
      /\ o.epoch = accessCaps[o.cap].epoch
      /\ \A u \in Threads \ {t} : accessCalls[u].phase = "receipt" => accessCalls[u].cap # o.cap
  BY <1>0 DEF CredentialPart, Access!CallIsEarned, Access!ReceiptsAreHeldOnce
<1>2. PICK g : g = [cap |-> o.cap, by |-> t, epoch |-> o.epoch, at |-> accessClock]
  OBVIOUS
<1>3. /\ receipts' = [receipts EXCEPT ![o.cap] = "redeemed"]
      /\ accessCalls' = [accessCalls EXCEPT ![t] = Access!Idle] /\ UNCHANGED <<accessEpoch, accessCaps>>
      /\ \/ handed' = handed
         \/ handed' = handed \cup {g} /\ accessClock < accessCaps[o.cap].expires
  BY <1>0, <1>2 DEF Access!Lease
<1>4. /\ receipts' \in [Caps -> {"none", "minted", "redeemed"}]
      /\ \A c \in Caps : receipts'[c] = IF c = o.cap THEN "redeemed" ELSE receipts[c]
  BY <1>3 DEF CredentialPart
<1>5. /\ accessCalls' \in [Threads -> {Access!Idle} \cup Access!Calls]
      /\ \A u \in Threads : accessCalls'[u] = IF u = t THEN Access!Idle ELSE accessCalls[u]
  BY <1>3 DEF CredentialPart
<1>6. /\ g \in [cap : Caps, by : Threads, epoch : Nat, at : Nat]
      /\ g.cap = o.cap /\ g.epoch = o.epoch /\ g.at = accessClock
  BY <1>0, <1>2
<1>7. /\ \A h \in handed : h.cap \in Caps /\ h.cap # o.cap
      /\ handed' \subseteq [cap : Caps, by : Threads, epoch : Nat, at : Nat]
  BY <1>0, <1>1, <1>3, <1>6 DEF CredentialPart
<1>8. Access!SecretsAreOnce'
  BY <1>3, <1>6, <1>7 DEF CredentialPart, Access!SecretsAreOnce
<1>9. \A h \in handed' : Access!SecretIsGranted(h)' /\ receipts'[h.cap] = "redeemed"
  <2> SUFFICES ASSUME NEW h \in handed'
               PROVE  Access!SecretIsGranted(h)' /\ receipts'[h.cap] = "redeemed"
    OBVIOUS
  <2>1. CASE h \in handed
    BY <2>1, <1>3, <1>4, <1>7 DEF CredentialPart, Access!SecretIsGranted
  <2>2. CASE h = g /\ accessClock < accessCaps[o.cap].expires
    BY <2>2, <1>0, <1>1, <1>3, <1>4, <1>6 DEF Access!SecretIsGranted
  <2> QED BY <2>1, <2>2, <1>3
<1>10. ASSUME NEW u \in Threads PROVE Access!CallIsEarned(u)'
  <2>1. CASE u = t
    BY <1>5, <2>1 DEF Access!CallIsEarned, Access!Idle
  <2>2. CASE u # t
    <3>1. accessCalls'[u] = accessCalls[u] /\ Access!CallIsEarned(u)
      BY <1>5, <2>2 DEF CredentialPart
    <3>2. accessCalls[u].phase = "receipt" => accessCalls[u].cap \in Caps /\ accessCalls[u].cap # o.cap
      BY <1>1, <2>2, AccessCallFields DEF CredentialPart
    <3> QED BY <1>3, <1>4, <3>1, <3>2 DEF Access!CallIsEarned
  <2> QED BY <2>1, <2>2
<1>11. Access!ReceiptsAreHeldOnce'
  BY <1>5 DEF CredentialPart, Access!ReceiptsAreHeldOnce, Access!Idle
<1> QED BY <1>3, <1>4, <1>5, <1>7, <1>8, <1>9, <1>10, <1>11 DEF CredentialPart

\* A receipt keeps its number and its revisions when another one is minted.
LEMMA MintKeeps ==
  ASSUME EgressPart, NEW policy \in 1..2, NEW ret \in 1..2, NEW until \in Access!Times,
         Access!MintReceipt(policy, ret, until)
  PROVE  EgressPart'
<1> DEFINE R == [policy : {1, 2}, ret : {1, 2}, until : Access!Times]
<1>0. policy \in {1, 2} /\ ret \in {1, 2}
  OBVIOUS
<1>1. PICK r \in R : r = [policy |-> policy, ret |-> ret, until |-> until]
  BY <1>0
<1>2. egress \in Seq(R) /\ egress' = Append(egress, r) /\ UNCHANGED <<sending, sent>>
  BY <1>1 DEF EgressPart, Access!MintReceipt
<1> HIDE DEF R
<1>3. /\ egress' \in Seq(R) /\ DOMAIN egress \subseteq DOMAIN egress'
      /\ \A i \in DOMAIN egress : egress'[i] = egress[i]
  BY <1>2, AppendProperties
<1> QED BY <1>2, <1>3 DEF EgressPart, Access!SentUnderReceipt, R

\* Data leaves under the revisions that were current when it was authorized.
LEMMA SendKeeps ==
  ASSUME EgressPart, Access!Operate \/ \E i \in DOMAIN egress : Access!Authorize(i)
  PROVE  EgressPart'
<1>1. CASE Access!Operate
  <2>1. PICK s : s = [id |-> sending.id, at |-> sending.at, revisions |-> sending.revisions]
    OBVIOUS
  <2>2. /\ sending # Access!Idle /\ UNCHANGED egress /\ sending' = Access!Idle
        /\ sent' = sent \cup {s}
    BY <1>1, <2>1 DEF Access!Operate, Access!Idle
  <2>3. Access!SentUnderReceipt(s)
    BY <2>1, <2>2 DEF EgressPart, Access!SentUnderReceipt
  <2> QED BY <2>2, <2>3 DEF EgressPart, Access!SentUnderReceipt
<1>2. CASE \E i \in DOMAIN egress : Access!Authorize(i)
  <2>1. PICK i \in DOMAIN egress : Access!Authorize(i)
    BY <1>2
  <2>2. PICK s : s = [phase |-> "authorized", id |-> i, at |-> accessClock, revisions |-> current]
    OBVIOUS
  <2>3. s.phase = "authorized" /\ s.id = i /\ s.at = accessClock /\ s.revisions = current
    BY <2>2
  <2>4. sending' = s /\ UNCHANGED <<egress, sent>> /\ Access!LoadCurrent(i)
        /\ accessClock < egress[i].until
    BY <2>1, <2>2 DEF Access!Authorize
  <2> QED BY <2>3, <2>4 DEF EgressPart, Access!SentUnderReceipt, Access!LoadCurrent
<1> QED BY <1>1, <1>2

\* The lower of two limits is one of them.
LEMMA MinIsOne ==
  ASSUME NEW a \in Int, NEW b \in Int
  PROVE  Access!Min({a, b}) \in {a, b}
<1>1. \E x \in {a, b} : \A y \in {a, b} : x <= y
  BY SMT
<1> QED BY <1>1 DEF Access!Min

\* Consent, retention and the sandbox.
LEMMA SourceKeeps ==
  ASSUME Access!AccessAssumption, SourcePart,
         \/ \E new \in Access!Replacements(consent) : Access!ReplaceConsent(new)
         \/ \E new \in Access!Replacements(retention) : Access!ReplaceRetention(new)
         \/ \E s \in {1, 2} : Access!SandboxStart(s)
         \/ \E e \in Entries, good \in BOOLEAN : Access!ReadEntry(e, good)
  PROVE  SourcePart'
<1>1. CASE \/ \E new \in Access!Replacements(consent) : Access!ReplaceConsent(new)
           \/ \E new \in Access!Replacements(retention) : Access!ReplaceRetention(new)
  <2>1. /\ consent' \in Access!OwnerChoices /\ retention' \in Access!OwnerChoices
        /\ UNCHANGED <<sandbox, items, served>>
    BY <1>1
       DEF Access!ReplaceConsent, Access!ReplaceRetention, Access!Replacements, SourcePart,
           Access!OwnerChoices,
                Access!Times, Access!AccessAssumption
  <2> QED BY <2>1 DEF SourcePart, Access!ServedIsAllowed
<1>2. CASE \E s \in {1, 2} : Access!SandboxStart(s)
  <2>1. sandbox' \in Access!Reads /\ UNCHANGED <<consent, retention, items, served>>
    BY <1>2 DEF Access!SandboxStart, SourcePart, Access!Reads, Access!OwnerChoices
  <2> QED BY <2>1 DEF SourcePart, Access!ServedIsAllowed
<1>3. CASE \E e \in Entries, good \in BOOLEAN : Access!ReadEntry(e, good)
  <2>1. /\ sandbox' \in {Access!Idle} \cup Access!Reads
        /\ UNCHANGED <<consent, retention, items, served>>
    BY <1>3 DEF Access!ReadEntry, SourcePart, Access!Reads, Access!Idle
  <2> QED BY <2>1 DEF SourcePart, Access!ServedIsAllowed
<1> QED BY <1>1, <1>2, <1>3

\* A capture replaces all entries or none, and what is served is within both
\* limits at that moment.
LEMMA ServeKeeps ==
  ASSUME SourcePart, Access!AcceptCapture \/ \E x \in items : Access!Serve(x)
  PROVE  SourcePart'
<1>1. CASE Access!AcceptCapture
  <2>1. sandbox \in Access!Reads /\ sandbox' = Access!Idle
        /\ UNCHANGED <<consent, retention, served>>
    BY <1>1 DEF Access!AcceptCapture, SourcePart, Access!Idle
  <2>2. PICK r \in Access!Reads : r = sandbox
    BY <2>1
  <2> DEFINE all == {[entry |-> e, rank |-> r.rank, consent |-> r.consent,
                      retention |-> r.retention] : e \in Entries}
  <2>3. items' = items \/ items' = all
    BY <1>1, <2>2 DEF Access!AcceptCapture
  <2>4. all \subseteq Access!Captured /\ {x.entry : x \in all} = Entries
    <3>1. \A e \in Entries :
            [entry |-> e, rank |-> r.rank, consent |-> r.consent,
             retention |-> r.retention] \in Access!Captured
      BY DEF Access!Captured, Access!Reads
    <3>2. ASSUME NEW e \in Entries PROVE \E x \in all : x.entry = e
      <4> DEFINE x == [entry |-> e, rank |-> r.rank, consent |-> r.consent,
                       retention |-> r.retention]
      <4>1. x \in all /\ x.entry = e
        OBVIOUS
      <4> QED BY <4>1
    <3>3. \A x \in all : x.entry \in Entries
      OBVIOUS
    <3> QED BY <3>1, <3>2, <3>3
  <2> HIDE DEF all
  <2> QED BY <2>1, <2>3, <2>4 DEF SourcePart, Access!ServedIsAllowed
<1>2. CASE \E x \in items : Access!Serve(x)
  <2>1. PICK x \in items : Access!Serve(x)
    BY <1>2
  <2>2. PICK v : v = [item |-> x, max |-> Access!Min({consent.max, retention.max}),
                      consent |-> consent.epoch, retention |-> retention.epoch]
    OBVIOUS
  <2>3. /\ v.item = x /\ v.max = Access!Min({consent.max, retention.max})
        /\ v.consent = consent.epoch /\ v.retention = retention.epoch
    BY <2>2
  <2>4. served' = {v} /\ UNCHANGED <<consent, retention, sandbox, items>>
    BY <2>1, <2>2 DEF Access!Serve
  <2>5. v.max \in {consent.max, retention.max}
    <3>1. consent.max \in Int /\ retention.max \in Int
      BY DEF SourcePart, Access!OwnerChoices
    <3> QED BY <2>3, <3>1, MinIsOne
  <2>6. Access!ServedIsAllowed(v)
    BY <2>1, <2>3, <2>5 DEF Access!Serve, Access!AuthorizeCurrent, Access!ServedIsAllowed
  <2> QED BY <2>4, <2>6 DEF SourcePart, Access!ServedIsAllowed
<1> QED BY <1>1, <1>2

\* For any number of callers, capabilities, receipts and entries nothing is given
\* out on a stale authorization (CapabilityService, LocalCredentialBroker,
\* LocalFirstEgressPolicy, FixtureSourceSandbox).
THEOREM AccessStaysEarned ==
  ASSUME Access!AccessAssumption PROVE Access!Spec => []AccessIsEarned
<1>1. Access!Init => Access!AccessInvariant
  <2> SUFFICES ASSUME Access!Init PROVE Access!AccessInvariant
    OBVIOUS
  <2>1. CredentialPart
    BY DEF Access!Init, CredentialPart, Access!SecretsAreOnce, Access!CallIsEarned,
           Access!ReceiptsAreHeldOnce, Access!Idle
  <2>2. EgressPart
    BY DEF Access!Init, EgressPart
  <2>3. SourcePart
    BY DEF Access!Init, SourcePart, Access!OwnerChoices, Access!AccessAssumption
  <2>4. accessClock \in Nat
    BY DEF Access!Init
  <2> QED BY <2>1, <2>2, <2>3, <2>4, InvariantByGate
<1>2. Access!AccessInvariant /\ [Access!Next]_Access!vars => Access!AccessInvariant'
  <2> SUFFICES ASSUME Access!AccessInvariant, [Access!Next]_Access!vars
               PROVE  Access!AccessInvariant'
    OBVIOUS
  <2>0. accessClock \in Nat /\ CredentialPart /\ EgressPart /\ SourcePart
    BY InvariantByGate
  <2>1. CASE \/ Access!Tick \/ UNCHANGED Access!vars \/ Access!RevokeDevice
             \/ Access!Provision
             \/ \E expires \in Access!Times :
                  Access!Enroll(expires) \/ Access!Delegate(expires)
    <3>1. /\ accessClock' \in Nat /\ accessEpoch' \in Nat /\ UNCHANGED <<accessCaps, receipts, accessCalls, handed>>
          /\ UNCHANGED Access!egressVars /\ UNCHANGED Access!sourceVars
      BY <2>0, <2>1
         DEF Access!Tick, Access!vars, Access!RevokeDevice, Access!Provision,
             Access!Enroll, Access!Delegate,
                        Access!credentialVars, Access!egressVars, Access!sourceVars,
                        CredentialPart
    <3> QED BY <2>0, <3>1, CredentialStays, EgressStays, SourceStays, InvariantByGatePrimed
  <2>2. ASSUME NEW t \in Threads,
               \/ \E c \in Caps, actor \in {"owner", "reviewer"}, expires \in Access!Times :
                    Access!IssueRead(t, c, actor, expires)
               \/ Access!IssueSave(t)
               \/ \E c \in Caps : Access!ConsumeCheck(t, c)
               \/ Access!CompareConsume(t)
               \/ Access!Lease(t)
        PROVE  Access!AccessInvariant'
    <3>1. UNCHANGED accessClock /\ UNCHANGED Access!egressVars /\ UNCHANGED Access!sourceVars
      BY <2>2
         DEF Access!IssueRead, Access!IssueSave, Access!ConsumeCheck,
             Access!CompareConsume, Access!Lease
    <3>2. CredentialPart'
      BY <2>0, <2>2, IssueAndCheck, SaveKeeps, ConsumeKeeps, LeaseKeeps
    <3> QED BY <2>0, <3>1, <3>2, EgressStays, SourceStays, InvariantByGatePrimed
  <2>3. CASE \/ \E policy, ret \in 1..2, until \in Access!Times :
                  Access!MintReceipt(policy, ret, until)
             \/ \E i \in DOMAIN egress : Access!Authorize(i)
             \/ Access!Operate
    <3>1. UNCHANGED accessClock /\ UNCHANGED Access!credentialVars /\ UNCHANGED Access!sourceVars
      BY <2>3 DEF Access!MintReceipt, Access!Authorize, Access!Operate
    <3>2. EgressPart'
      BY <2>0, <2>3, MintKeeps, SendKeeps
    <3>3. CredentialPart'
      BY <2>0, <3>1, CredentialStays DEF Access!credentialVars, CredentialPart
    <3> QED BY <2>0, <3>1, <3>2, <3>3, SourceStays, InvariantByGatePrimed
  <2>4. CASE \/ \E new \in Access!Replacements(consent) : Access!ReplaceConsent(new)
             \/ \E new \in Access!Replacements(retention) : Access!ReplaceRetention(new)
             \/ \E s \in {1, 2} : Access!SandboxStart(s)
             \/ \E e \in Entries, good \in BOOLEAN : Access!ReadEntry(e, good)
             \/ Access!AcceptCapture
             \/ \E x \in items : Access!Serve(x)
    <3>1. UNCHANGED accessClock /\ UNCHANGED Access!credentialVars /\ UNCHANGED Access!egressVars
      BY <2>4
         DEF Access!ReplaceConsent, Access!ReplaceRetention, Access!SandboxStart,
             Access!ReadEntry, Access!AcceptCapture,
                  Access!Serve
    <3>2. SourcePart'
      BY <2>0, <2>4, SourceKeeps, ServeKeeps
    <3>3. CredentialPart'
      BY <2>0, <3>1, CredentialStays DEF Access!credentialVars, CredentialPart
    <3> QED BY <2>0, <3>1, <3>2, <3>3, EgressStays, InvariantByGatePrimed
  <2> QED BY <2>1, <2>2, <2>3, <2>4 DEF Access!Next
<1>3. Access!AccessInvariant => AccessIsEarned
  BY DEF Access!AccessInvariant, AccessIsEarned
<1> QED BY <1>1, <1>2, <1>3, PTL DEF Access!Spec

-----------------------------------------------------------------------------
(* DecisionGovernance: the resolver and its receipt.                       *)

\* What is signed stays signed, and so does a copy of it.
LEMMA SignedStays ==
  ASSUME sigs \subseteq sigs', NEW rs, Governance!Signed(rs)
  PROVE  \A d \in Governance!Decisions : rs[d] # Governance!Nothing /\ rs[d].trusted =>
           /\ rs[d].outcome \in {"GO", "NO_GO"}
           /\ \A r \in Governance!Roles :
                [role |-> r, d |-> d, key |-> "trusted",
                 body |-> [outcome |-> rs[d].outcome, rev |-> rs[d].rev]] \in sigs'
BY DEF Governance!Signed

\* Tools that write other files leave what resolvers hold and the receipt alone.
LEMMA FilesStep ==
  ASSUME Governance!GovernanceInvariant, sigs \subseteq sigs',
         UNCHANGED <<receipt, resolver>>
  PROVE  /\ \A p \in Threads : Governance!ResolverHolds(p)'
         /\ receipt.by # "nobody" =>
              Governance!Signed(receipt.records)' /\ Governance!Earned(receipt)'
<1>1. ASSUME NEW p \in Threads PROVE Governance!ResolverHolds(p)'
  <2>1. Governance!ResolverHolds(p)
    BY DEF Governance!GovernanceInvariant
  <2>2. resolver[p].phase \in {"records", "aggregate", "publish"} =>
          Governance!Signed(resolver[p].records)'
    BY <2>1, SignedStays DEF Governance!ResolverHolds, Governance!Signed
  <2>3. resolver[p].phase = "publish" => Governance!Earned(resolver[p])'
    BY <2>1
       DEF Governance!ResolverHolds, Governance!Earned, Governance!RecordsAdmitted,
           Governance!Blocked, Governance!Present
  <2> QED BY <2>1, <2>2, <2>3 DEF Governance!ResolverHolds
<1>2. receipt.by # "nobody" => Governance!Signed(receipt.records)'
  BY SignedStays DEF Governance!GovernanceInvariant, Governance!Signed
<1>3. receipt.by # "nobody" => Governance!Earned(receipt)'
  BY DEF Governance!GovernanceInvariant, Governance!Earned, Governance!RecordsAdmitted,
         Governance!Blocked, Governance!Present
<1> QED BY <1>1, <1>2, <1>3

\* A new body is whole.
LEMMA WriteBodyStep ==
  ASSUME Governance!GovernanceInvariant, NEW d \in Governance!Decisions,
         NEW outcome \in {"GO", "NO_GO", "UNRESOLVED"}, Governance!WriteBody(d, outcome)
  PROVE  Governance!GovernanceInvariant'
<1>1. PICK rev : body' = [body EXCEPT ![d] = [outcome |-> outcome, rev |-> rev]]
  BY DEF Governance!WriteBody
<1>2. UNCHANGED <<sigs, records, receipt, resolver>>
  BY DEF Governance!WriteBody
<1>3. DOMAIN body' = Governance!Decisions
  BY <1>1 DEF Governance!GovernanceInvariant
<1>4. Governance!BodiesAreWhole'
  <2> SUFFICES ASSUME NEW e \in Governance!Decisions, body'[e] # Governance!Nothing
               PROVE  /\ body'[e] = [outcome |-> body'[e].outcome, rev |-> body'[e].rev]
                      /\ body'[e].outcome \in {"GO", "NO_GO", "UNRESOLVED"}
    BY DEF Governance!BodiesAreWhole, Governance!Nothing
  <2>1. CASE e = d
    <3>1. body'[e] = [outcome |-> outcome, rev |-> rev]
      BY <1>1, <2>1 DEF Governance!GovernanceInvariant
    <3> QED BY <3>1
  <2>2. CASE e # d
    <3>1. body'[e] = body[e]
      BY <1>1, <2>2 DEF Governance!GovernanceInvariant
    <3> QED BY <3>1 DEF Governance!GovernanceInvariant, Governance!BodiesAreWhole
  <2> QED BY <2>1, <2>2
<1>5. Governance!Signed(records)'
  BY <1>2 DEF Governance!GovernanceInvariant, Governance!Signed
<1> QED BY <1>2, <1>3, <1>4, <1>5, FilesStep DEF Governance!GovernanceInvariant

\* A signature is added.
LEMMA SignBodyStep ==
  ASSUME Governance!GovernanceInvariant, NEW d, NEW role, NEW key,
         Governance!SignBody(d, role, key)
  PROVE  Governance!GovernanceInvariant'
<1>1. sigs \subseteq sigs' /\ UNCHANGED <<body, records, receipt, resolver>>
  BY DEF Governance!SignBody
<1>2. Governance!Signed(records)'
  BY <1>1, SignedStays DEF Governance!GovernanceInvariant, Governance!Signed
<1> QED BY <1>1, <1>2, FilesStep
           DEF Governance!GovernanceInvariant, Governance!BodiesAreWhole

\* A record is assembled over the body and the signatures that are there.
LEMMA AssembleStep ==
  ASSUME Governance!GovernanceInvariant, NEW d \in Governance!Decisions,
         Governance!Assemble(d)
  PROVE  Governance!GovernanceInvariant'
<1>0. UNCHANGED <<body, sigs, receipt, resolver>>
  BY DEF Governance!Assemble
<1>1. PICK key \in [Governance!Roles -> {"trusted", "other"}] :
        /\ \A r \in Governance!Roles :
             [role |-> r, d |-> d, body |-> body[d], key |-> key[r]] \in sigs
        /\ records' = [records EXCEPT ![d] =
             [outcome |-> body[d].outcome, rev |-> body[d].rev,
              trusted |-> \A r \in Governance!Roles : key[r] = "trusted"]]
  BY DEF Governance!Assemble
<1>2. /\ body[d] = [outcome |-> body[d].outcome, rev |-> body[d].rev]
      /\ body[d].outcome \in {"GO", "NO_GO"}
  BY DEF Governance!Assemble, Governance!GovernanceInvariant, Governance!BodiesAreWhole
<1> DEFINE all == \A r \in Governance!Roles : key[r] = "trusted"
<1>3. Governance!Signed(records)'
  <2> SUFFICES ASSUME NEW e \in Governance!Decisions, records'[e] # Governance!Nothing,
                      records'[e].trusted
               PROVE  /\ records'[e].outcome \in {"GO", "NO_GO"}
                      /\ \A r \in Governance!Roles :
                           [role |-> r, d |-> e, key |-> "trusted",
                            body |-> [outcome |-> records'[e].outcome,
                                      rev |-> records'[e].rev]] \in sigs'
    BY DEF Governance!Signed, Governance!Nothing
  <2>1. CASE e = d
    <3>1. records'[e] = [outcome |-> body[d].outcome, rev |-> body[d].rev, trusted |-> all]
      BY <1>1, <2>1 DEF Governance!GovernanceInvariant
    <3>2. /\ records'[e].outcome = body[d].outcome /\ records'[e].rev = body[d].rev
          /\ records'[e].trusted = all
      BY <3>1
    <3>3. all
      BY <3>2
    <3>4. ASSUME NEW r \in Governance!Roles
          PROVE  [role |-> r, d |-> e, key |-> "trusted", body |-> body[d]] \in sigs
      BY <1>1, <2>1, <3>3
    <3> QED BY <1>0, <1>2, <3>2, <3>4
  <2>2. CASE e # d
    <3>1. records'[e] = records[e]
      BY <1>1, <2>2 DEF Governance!GovernanceInvariant
    <3> QED BY <1>0, <3>1 DEF Governance!GovernanceInvariant, Governance!Signed
  <2> QED BY <2>1, <2>2
<1>4. DOMAIN records' = Governance!Decisions
  BY <1>1 DEF Governance!GovernanceInvariant
<1> QED BY <1>0, <1>3, <1>4, FilesStep
           DEF Governance!GovernanceInvariant, Governance!BodiesAreWhole

\* The tools that derive files from the records.
LEMMA DerivedStep ==
  ASSUME Governance!GovernanceInvariant,
         \/ \E n \in 1..3 : Governance!Prepare(n)
         \/ \E role \in Governance!Roles : Governance!SignResolverInputs(role)
         \/ \E both \in BOOLEAN : Governance!AssembleInputs(both)
         \/ Governance!BuildWall
  PROVE  Governance!GovernanceInvariant'
<1>1. UNCHANGED <<body, sigs, records, receipt, resolver>>
  BY DEF Governance!Prepare, Governance!SignResolverInputs, Governance!AssembleInputs,
         Governance!BuildWall
<1> QED BY <1>1, FilesStep
           DEF Governance!GovernanceInvariant, Governance!BodiesAreWhole, Governance!Signed

\* A step of one resolver that leaves the receipt alone.
LEMMA ResolverStep ==
  ASSUME Governance!GovernanceInvariant, NEW p \in Threads, NEW o,
         UNCHANGED <<Governance!files, receipt>>,
         resolver' = [resolver EXCEPT ![p] = o],
         resolver'[p] = o => Governance!ResolverHolds(p)'
  PROVE  Governance!GovernanceInvariant'
<1>1. UNCHANGED <<body, sigs, records>>
  BY DEF Governance!files
<1>2. DOMAIN resolver' = Threads /\ resolver'[p] = o
  BY DEF Governance!GovernanceInvariant
<1>3. ASSUME NEW q \in Threads PROVE Governance!ResolverHolds(q)'
  <2>1. CASE q = p
    BY <1>2, <2>1
  <2>2. CASE q # p
    <3>1. resolver'[q] = resolver[q] /\ Governance!ResolverHolds(q)
      BY <2>2 DEF Governance!GovernanceInvariant
    <3> QED BY <1>1, <3>1
               DEF Governance!ResolverHolds, Governance!Signed, Governance!Earned,
                   Governance!RecordsAdmitted, Governance!Blocked, Governance!Present
  <2> QED BY <2>1, <2>2
<1> QED BY <1>1, <1>2, <1>3
        DEF Governance!GovernanceInvariant, Governance!BodiesAreWhole, Governance!Signed,
            Governance!Earned, Governance!RecordsAdmitted, Governance!Blocked,
            Governance!Present

\* A resolver reads the records, then the scope and the aggregate.
LEMMA LoadStep ==
  ASSUME Governance!GovernanceInvariant, NEW p \in Threads,
         \/ \E now \in 0..MaxNow : Governance!LoadRecords(p, now)
         \/ Governance!LoadScopeAndAggregate(p)
  PROVE  Governance!GovernanceInvariant'
<1>0. UNCHANGED <<Governance!files, receipt>> /\ UNCHANGED sigs
      /\ Governance!ResolverHolds(p)
  BY DEF Governance!LoadRecords, Governance!LoadScopeAndAggregate, Governance!files,
         Governance!GovernanceInvariant
<1>1. CASE \E now \in 0..MaxNow : Governance!LoadRecords(p, now)
  <2>1. PICK now : Governance!LoadRecords(p, now)
    BY <1>1
  <2> DEFINE o == [phase |-> "records", now |-> now, records |-> records]
  <2>2. resolver' = [resolver EXCEPT ![p] = o] /\ resolver[p].phase = "idle"
    BY <2>1 DEF Governance!LoadRecords, Governance!Idle
  <2>3. o.phase = "records" /\ o.records = records
    OBVIOUS
  <2> HIDE DEF o
  <2>4. resolver'[p] = o => Governance!ResolverHolds(p)'
    BY <1>0, <2>2, <2>3
       DEF Governance!ResolverHolds, Governance!GovernanceInvariant, Governance!Signed,
           Governance!Phases
  <2> QED BY <1>0, <2>2, <2>4, ResolverStep
<1>2. CASE Governance!LoadScopeAndAggregate(p)
  <2>1. PICK now, sc, agg :
          resolver' = [resolver EXCEPT ![p] =
            [phase |-> "aggregate", now |-> now, records |-> resolver[p].records,
             scope |-> sc, aggregate |-> agg]]
    BY <1>2 DEF Governance!LoadScopeAndAggregate, Governance!GovernanceInvariant
  <2> DEFINE o == [phase |-> "aggregate", now |-> now, records |-> resolver[p].records,
                   scope |-> sc, aggregate |-> agg]
  <2>2. /\ o.phase = "aggregate" /\ o.records = resolver[p].records
        /\ resolver[p].phase = "records"
    BY <1>2 DEF Governance!LoadScopeAndAggregate
  <2>3. resolver' = [resolver EXCEPT ![p] = o]
    BY <2>1
  <2> HIDE DEF o
  <2>4. resolver'[p] = o => Governance!ResolverHolds(p)'
    BY <1>0, <2>2 DEF Governance!ResolverHolds, Governance!Signed, Governance!Phases
  <2> QED BY <1>0, <2>3, <2>4, ResolverStep
<1> QED BY <1>1, <1>2

\* A resolution is published about what the resolver read.
LEMMA DecideStep ==
  ASSUME Governance!GovernanceInvariant, NEW p \in Threads, Governance!DecideResolution(p)
  PROVE  Governance!GovernanceInvariant'
<1> DEFINE outcome == Governance!Resolution(resolver[p], evEnv)
<1>0. /\ UNCHANGED <<Governance!files, receipt>> /\ UNCHANGED sigs
      /\ Governance!ResolverHolds(p)
      /\ resolver[p].phase = "aggregate"
  BY DEF Governance!DecideResolution, Governance!files, Governance!GovernanceInvariant
<1>1. CASE outcome = "REFUSED"
  <2> DEFINE o == [phase |-> "failed"]
  <2>1. resolver' = [resolver EXCEPT ![p] = o]
    BY <1>1 DEF Governance!DecideResolution
  <2>2. resolver'[p] = o => Governance!ResolverHolds(p)'
    BY <1>0 DEF Governance!ResolverHolds, Governance!Phases
  <2> QED BY <1>0, <2>1, <2>2, ResolverStep
<1>2. CASE outcome # "REFUSED"
  <2> DEFINE o == [phase |-> "publish", outcome |-> outcome, records |-> resolver[p].records,
                   aggregate |-> resolver[p].aggregate, now |-> resolver[p].now]
  <2>1. resolver' = [resolver EXCEPT ![p] = o]
    BY <1>2 DEF Governance!DecideResolution, Governance!GovernanceInvariant
  <2>2. /\ o.phase = "publish" /\ o.records = resolver[p].records /\ o.outcome = outcome
        /\ o.aggregate = resolver[p].aggregate /\ o.now = resolver[p].now
    OBVIOUS
  <2>3. Governance!Earned(o)
    <3> HIDE DEF o
    <3>1. SUFFICES ASSUME outcome = "RESOLVED" PROVE Governance!Earned(o)
      BY <2>2 DEF Governance!Earned
    <3>2. /\ Governance!RecordsAdmitted(resolver[p].records, resolver[p].now)
          /\ Governance!Blocked(resolver[p].records) = {}
          /\ Governance!ContractAgrees(resolver[p].records, resolver[p].scope, resolver[p].aggregate)
      BY <3>1 DEF Governance!Resolution
    <3> QED BY <2>2, <3>2
               DEF Governance!Earned, Governance!ContractAgrees, Governance!ContractOf
  <2> HIDE DEF o
  <2>4. resolver'[p] = o => Governance!ResolverHolds(p)'
    BY <1>0, <2>2, <2>3
       DEF Governance!ResolverHolds, Governance!Signed, Governance!Phases,
           Governance!Earned, Governance!RecordsAdmitted, Governance!Blocked,
           Governance!Present
  <2> QED BY <1>0, <2>1, <2>4, ResolverStep
<1> QED BY <1>1, <1>2

\* The receipt is linked for one invocation, the others are told that they failed.
LEMMA LinkStep ==
  ASSUME Governance!GovernanceInvariant, Governance!GovernanceAssumption, NEW p \in Threads,
         Governance!LinkReceipt(p)
  PROVE  Governance!GovernanceInvariant'
<1>0. /\ UNCHANGED Governance!files /\ UNCHANGED <<body, records, sigs>>
      /\ Governance!ResolverHolds(p)
      /\ resolver[p].phase = "publish" /\ p # "nobody"
  BY DEF Governance!LinkReceipt, Governance!files, Governance!GovernanceInvariant,
         Governance!GovernanceAssumption
<1>1. CASE receipt.by # "nobody"
  <2> DEFINE o == [phase |-> "failed"]
  <2>1. resolver' = [resolver EXCEPT ![p] = o] /\ UNCHANGED receipt
    BY <1>1 DEF Governance!LinkReceipt
  <2>2. resolver'[p] = o => Governance!ResolverHolds(p)'
    BY <1>0, <2>1 DEF Governance!ResolverHolds, Governance!Phases
  <2> QED BY <1>0, <2>1, <2>2, ResolverStep
<1>2. CASE receipt.by = "nobody"
  <2>1. /\ receipt' = [by |-> p, outcome |-> resolver[p].outcome,
                       records |-> resolver[p].records,
                       aggregate |-> resolver[p].aggregate, now |-> resolver[p].now]
        /\ resolver' = [resolver EXCEPT ![p] = [phase |-> "linked"]]
    BY <1>2 DEF Governance!LinkReceipt
  <2>2. /\ receipt'.by = p /\ receipt'.outcome = resolver[p].outcome
        /\ receipt'.records = resolver[p].records
        /\ receipt'.aggregate = resolver[p].aggregate /\ receipt'.now = resolver[p].now
    BY <2>1
  <2>3. Governance!Signed(receipt.records)' /\ Governance!Earned(receipt)'
    BY <1>0, <2>2
       DEF Governance!ResolverHolds, Governance!Signed, Governance!Earned,
           Governance!RecordsAdmitted, Governance!Blocked, Governance!Present
  <2>4. DOMAIN resolver' = Threads /\ resolver'[p].phase = "linked"
    BY <2>1 DEF Governance!GovernanceInvariant
  <2>5. ASSUME NEW q \in Threads PROVE Governance!ResolverHolds(q)'
    <3>1. CASE q = p
      BY <2>2, <2>4, <3>1 DEF Governance!ResolverHolds, Governance!Phases
    <3>2. CASE q # p
      <4>1. resolver'[q] = resolver[q] /\ Governance!ResolverHolds(q) /\ receipt.by # q
        BY <1>2, <2>1, <3>2
           DEF Governance!GovernanceInvariant, Governance!GovernanceAssumption
      <4>2. resolver[q].phase \notin {"linked", "ok"}
        BY <4>1 DEF Governance!ResolverHolds
      <4> QED BY <1>0, <2>2, <3>2, <4>1, <4>2
              DEF Governance!ResolverHolds, Governance!Signed, Governance!Earned,
                  Governance!RecordsAdmitted, Governance!Blocked, Governance!Present
    <3> QED BY <3>1, <3>2
  <2> QED BY <1>0, <2>3, <2>4, <2>5
             DEF Governance!GovernanceInvariant, Governance!BodiesAreWhole,
                 Governance!Signed
<1> QED BY <1>1, <1>2

\* A receipt goes: it is nobody's then, and no invocation rests on it.
LEMMA ReceiptGone ==
  ASSUME Governance!GovernanceInvariant, Governance!GovernanceAssumption,
         UNCHANGED Governance!files,
         receipt' = [by |-> "nobody"], DOMAIN resolver' = Threads,
         \A q \in Threads : \/ resolver'[q] = resolver[q] /\ receipt.by # q
                            \/ resolver'[q].phase \in {"failed", "uncleaned"}
  PROVE  Governance!GovernanceInvariant'
<1>1. UNCHANGED <<body, records, sigs>> /\ receipt'.by = "nobody"
  BY DEF Governance!files
<1>2. ASSUME NEW q \in Threads PROVE Governance!ResolverHolds(q)'
  <2>1. receipt'.by # q /\ Governance!ResolverHolds(q)
    BY <1>1 DEF Governance!GovernanceAssumption, Governance!GovernanceInvariant
  <2>2. CASE resolver'[q].phase \in {"failed", "uncleaned"}
    BY <2>1, <2>2 DEF Governance!ResolverHolds, Governance!Phases
  <2>3. CASE resolver'[q] = resolver[q] /\ receipt.by # q
    BY <1>1, <2>1, <2>3
       DEF Governance!ResolverHolds, Governance!Signed, Governance!Earned,
           Governance!RecordsAdmitted, Governance!Blocked, Governance!Present
  <2> QED BY <2>2, <2>3
<1> QED BY <1>1, <1>2
           DEF Governance!GovernanceInvariant, Governance!BodiesAreWhole, Governance!Signed

\* The directory is synchronised, or the invocation cleans up, or cannot.
LEMMA SyncStep ==
  ASSUME Governance!GovernanceInvariant, Governance!GovernanceAssumption, NEW p \in Threads,
         Governance!SyncReceipt(p) \/ Governance!SyncFails(p)
  PROVE  Governance!GovernanceInvariant'
<1>0. UNCHANGED Governance!files /\ Governance!ResolverHolds(p)
      /\ resolver[p].phase = "linked" /\ receipt.by = p
  BY DEF Governance!SyncReceipt, Governance!SyncFails, Governance!GovernanceInvariant,
         Governance!ResolverHolds
<1>1. CASE Governance!SyncReceipt(p)
  <2>1. resolver' = [resolver EXCEPT ![p] = [phase |-> "ok"]] /\ UNCHANGED receipt
    BY <1>1 DEF Governance!SyncReceipt
  <2>2. resolver'[p] = [phase |-> "ok"] => Governance!ResolverHolds(p)'
    BY <1>0, <2>1 DEF Governance!ResolverHolds, Governance!Phases
  <2> QED BY <1>0, <2>1, <2>2, ResolverStep
<1>2. CASE resolver' = [resolver EXCEPT ![p] = [phase |-> "failed"]]
           /\ receipt' = [by |-> "nobody"]
  <2>1. /\ DOMAIN resolver' = Threads /\ resolver'[p].phase = "failed"
        /\ \A q \in Threads \ {p} : resolver'[q] = resolver[q]
    BY <1>2 DEF Governance!GovernanceInvariant
  <2> QED BY <1>0, <1>2, <2>1, ReceiptGone
<1>3. CASE resolver' = [resolver EXCEPT ![p] = [phase |-> "uncleaned"]]
           /\ UNCHANGED receipt
  <2>1. resolver'[p] = [phase |-> "uncleaned"] => Governance!ResolverHolds(p)'
    BY <1>0 DEF Governance!ResolverHolds, Governance!Phases
  <2> QED BY <1>0, <1>3, <2>1, ResolverStep
<1>4. ASSUME Governance!SyncFails(p)
      PROVE  \/ /\ resolver' = [resolver EXCEPT ![p] = [phase |-> "failed"]]
                /\ receipt' = [by |-> "nobody"]
             \/ /\ resolver' = [resolver EXCEPT ![p] = [phase |-> "uncleaned"]]
                /\ UNCHANGED receipt
  BY <1>0, <1>4 DEF Governance!SyncFails
<1> QED BY <1>1, <1>2, <1>3, <1>4

\* The operator removes a receipt that its invocation could not clean up.
LEMMA RemoveStep ==
  ASSUME Governance!GovernanceInvariant, Governance!GovernanceAssumption,
         Governance!RemoveReceipt
  PROVE  Governance!GovernanceInvariant'
<1>1. /\ UNCHANGED Governance!files /\ receipt' = [by |-> "nobody"] /\ UNCHANGED resolver
      /\ resolver[receipt.by].phase = "uncleaned"
  BY DEF Governance!RemoveReceipt
<1>2. \A q \in Threads : \/ resolver'[q] = resolver[q] /\ receipt.by # q
                         \/ resolver'[q].phase \in {"failed", "uncleaned"}
  BY <1>1
<1> QED BY <1>1, <1>2, ReceiptGone DEF Governance!GovernanceInvariant

\* A receipt that says RESOLVED speaks of one set of decisions that both
\* trusted roles signed, none of them blocking or expired, and it is the
\* receipt of the invocation that reported success; for any resolvers that
\* race, any decisions and any edits between two reads (cmd_resolve).
THEOREM ReceiptStaysEarned ==
  ASSUME Governance!GovernanceAssumption
  PROVE  Governance!Spec => []ReceiptIsEarned
<1>1. Governance!Init => Governance!GovernanceInvariant
  <2> SUFFICES ASSUME Governance!Init PROVE Governance!GovernanceInvariant
    OBVIOUS
  <2>1. PICK signed \in {Scoped, Governance!Decisions} :
          /\ body = [d \in Governance!Decisions |->
                        IF d \in signed THEN [outcome |-> "GO", rev |-> 1]
                        ELSE Governance!Nothing]
          /\ sigs = {[role |-> r, d |-> d, body |-> [outcome |-> "GO", rev |-> 1],
                      key |-> "trusted"] : r \in Governance!Roles, d \in signed}
          /\ records = [d \in Governance!Decisions |->
                          IF d \in signed THEN [outcome |-> "GO", rev |-> 1, trusted |-> TRUE]
                          ELSE Governance!Nothing]
    BY DEF Governance!Init
  <2>2. Governance!BodiesAreWhole
    <3> SUFFICES ASSUME NEW d \in Governance!Decisions, body[d] # Governance!Nothing
                 PROVE  /\ body[d] = [outcome |-> body[d].outcome, rev |-> body[d].rev]
                        /\ body[d].outcome \in {"GO", "NO_GO", "UNRESOLVED"}
      BY DEF Governance!BodiesAreWhole
    <3>1. body[d] = [outcome |-> "GO", rev |-> 1]
      BY <2>1
    <3> QED BY <3>1
  <2>3. Governance!Signed(records)
    <3> SUFFICES ASSUME NEW d \in Governance!Decisions, records[d] # Governance!Nothing
                 PROVE  /\ records[d].outcome \in {"GO", "NO_GO"}
                        /\ \A r \in Governance!Roles :
                             [role |-> r, d |-> d, key |-> "trusted",
                              body |-> [outcome |-> records[d].outcome,
                                        rev |-> records[d].rev]] \in sigs
      BY DEF Governance!Signed
    <3>1. d \in signed /\ records[d] = [outcome |-> "GO", rev |-> 1, trusted |-> TRUE]
      BY <2>1
    <3>2. records[d].outcome = "GO" /\ records[d].rev = 1
      BY <3>1
    <3>3. ASSUME NEW r \in Governance!Roles
          PROVE  [role |-> r, d |-> d, key |-> "trusted",
                  body |-> [outcome |-> "GO", rev |-> 1]] \in sigs
      BY <2>1, <3>1
    <3> QED BY <3>2, <3>3
  <2>4. /\ receipt.by = "nobody" /\ DOMAIN resolver = Threads
        /\ \A p \in Threads : resolver[p].phase = "idle"
    BY DEF Governance!Init, Governance!Idle
  <2>5. \A p \in Threads : Governance!ResolverHolds(p)
    BY <2>4 DEF Governance!ResolverHolds, Governance!Phases, Governance!GovernanceAssumption
  <2> QED BY <2>1, <2>2, <2>3, <2>4, <2>5 DEF Governance!GovernanceInvariant
<1>2. Governance!GovernanceInvariant
      /\ [Governance!Next]_Governance!vars => Governance!GovernanceInvariant'
  <2> SUFFICES ASSUME Governance!GovernanceInvariant, [Governance!Next]_Governance!vars
               PROVE  Governance!GovernanceInvariant'
    OBVIOUS
  <2>1. ASSUME NEW d \in Edited,
               \/ \E outcome \in {"GO", "NO_GO", "UNRESOLVED"} :
                    Governance!WriteBody(d, outcome)
               \/ \E role \in Governance!Roles : Governance!SignBody(d, role, "trusted")
               \/ \E role \in Untrusted : Governance!SignBody(d, role, "other")
               \/ Governance!Assemble(d)
        PROVE  Governance!GovernanceInvariant'
    BY <2>1, WriteBodyStep, SignBodyStep, AssembleStep DEF Governance!GovernanceAssumption
  <2>2. CASE \/ \E n \in 1..3 : Governance!Prepare(n)
             \/ \E role \in Governance!Roles : Governance!SignResolverInputs(role)
             \/ \E both \in BOOLEAN : Governance!AssembleInputs(both)
             \/ Governance!BuildWall
    BY <2>2, DerivedStep
  <2>3. ASSUME NEW p \in Threads,
               \/ \E now \in 0..MaxNow : Governance!LoadRecords(p, now)
               \/ Governance!LoadScopeAndAggregate(p) \/ Governance!DecideResolution(p)
               \/ Governance!LinkReceipt(p)
               \/ Governance!SyncReceipt(p) \/ Governance!SyncFails(p)
        PROVE  Governance!GovernanceInvariant'
    BY <2>3, LoadStep, DecideStep, LinkStep, SyncStep
  <2>4. CASE Governance!RemoveReceipt
    BY <2>4, RemoveStep
  <2>5. CASE UNCHANGED Governance!vars
    <3>1. UNCHANGED <<body, sigs, records, receipt, resolver>>
      BY <2>5 DEF Governance!vars, Governance!files
    <3> QED BY <3>1, FilesStep
               DEF Governance!GovernanceInvariant, Governance!BodiesAreWhole,
                   Governance!Signed
  <2> QED BY <2>1, <2>2, <2>3, <2>4, <2>5 DEF Governance!Next
<1>3. Governance!GovernanceInvariant => Governance!ReceiptIsEarned
  <2> SUFFICES ASSUME Governance!GovernanceInvariant PROVE Governance!ReceiptIsEarned
    OBVIOUS
  <2>1. ASSUME receipt.by # "nobody", receipt.outcome = "RESOLVED"
        PROVE  /\ receipt.aggregate = receipt.records
               /\ \A d \in Governance!Decisions, r \in Governance!Roles :
                    [role |-> r, d |-> d, key |-> "trusted",
                     body |-> [outcome |-> receipt.records[d].outcome,
                               rev |-> receipt.records[d].rev]] \in sigs
               /\ \A d \in Globals : receipt.records[d].outcome = "GO"
               /\ \A d \in Governance!Decisions : receipt.records[d].rev > receipt.now
    <3>1. /\ receipt.aggregate = receipt.records /\ Governance!Signed(receipt.records)
          /\ Governance!RecordsAdmitted(receipt.records, receipt.now)
          /\ Governance!Blocked(receipt.records) = {}
      BY <2>1 DEF Governance!GovernanceInvariant, Governance!Earned
    <3>2. \A d \in Governance!Decisions : /\ receipt.records[d] # Governance!Nothing
                               /\ receipt.records[d].trusted
                               /\ receipt.records[d].rev > receipt.now
      BY <3>1 DEF Governance!RecordsAdmitted, Governance!Present
    <3>3. \A d \in Globals :
            d \in Governance!Decisions /\ receipt.records[d].outcome # "NO_GO"
      BY <3>1 DEF Governance!Blocked, Governance!Decisions
    <3> QED BY <3>1, <3>2, <3>3 DEF Governance!Signed
  <2>2. \A p \in Threads : /\ resolver[p].phase = "ok" => receipt.by = p
                           /\ resolver[p].phase = "failed" => receipt.by # p
    BY DEF Governance!GovernanceInvariant, Governance!ResolverHolds
  <2> QED BY <2>1, <2>2 DEF Governance!ReceiptIsEarned
<1>4. Governance!ReceiptIsEarned => ReceiptIsEarned
  BY DEF ReceiptIsEarned
<1> QED BY <1>1, <1>2, <1>3, <1>4, PTL DEF Governance!Spec

-----------------------------------------------------------------------------
(* SecondBrainLedger: revocations.                                         *)

(* The instance counts as the library does. *)
LEMMA LedgerCounts ==
  /\ \A S : Ledger!Cardinality(S) = Cardinality(S)
  /\ \A S : Ledger!IsFiniteSet(S) = IsFiniteSet(S)
<1>1. ASSUME NEW S PROVE Ledger!Cardinality(S) = Cardinality(S)
  BY DEF Ledger!Cardinality, Cardinality
<1>2. ASSUME NEW S PROVE Ledger!IsFiniteSet(S) = IsFiniteSet(S)
  BY DEF Ledger!IsFiniteSet, IsFiniteSet
<1> QED BY <1>1, <1>2

(* A nonempty set of numbers has a least one. *)
LEMMA LeastNumber ==
  ASSUME NEW T, T \subseteq Nat, T # {}
  PROVE  \E x \in T : \A y \in T : x <= y
<1> DEFINE Less == {ss \in Nat \X Nat : ss[1] < ss[2]}
<1>1. IsWellFoundedOn(Less, Nat)
  <2>1. OpToRel(<, Nat) = Less
    BY Zenon DEF OpToRel
  <2> QED BY <2>1, NatLessThanWellFounded, Zenon
<1>2. PICK x \in T : \A y \in T : ~(<<y, x>> \in Less)
  <2> HIDE DEF Less
  <2> QED BY <1>1, WFMin
<1>3. ASSUME NEW y \in T PROVE x <= y
  <2>1. ~(y < x) BY <1>2 DEF Less
  <2> QED BY <2>1
<1> QED BY <1>3

(* One round of the search: what is reached, and what one pair leads to. *)
Wider(R, near) == near \cup {r[2] : r \in {p \in R : p[1] \in near}}

Search(f, R, S, k) == f = [n \in 0..k |-> IF n = 0 THEN S ELSE Wider(R, f[n-1])]

(* A search can be made of any length. *)
LEMMA SearchExists ==
  ASSUME NEW R, NEW S, NEW k \in Nat PROVE \E f : Search(f, R, S, k)
<1> DEFINE T == {m \in Nat : ~(\E f : Search(f, R, S, m))}
<1>1. SUFFICES ASSUME T # {} PROVE FALSE
  OBVIOUS
<1>2. PICK m \in T : \A y \in T : m <= y
  <2>1. T \subseteq Nat OBVIOUS
  <2> HIDE DEF T
  <2> QED BY <1>1, <2>1, LeastNumber
<1>3. m \in Nat /\ ~(\E f : Search(f, R, S, m)) OBVIOUS
<1>4. CASE m = 0
  <2> DEFINE g == [n \in 0..0 |-> S]
  <2>1. Search(g, R, S, 0) BY DEF Search
  <2> QED BY <2>1, <1>3, <1>4
<1>5. CASE m # 0
  <2>1. m - 1 \in Nat /\ ~(m <= m - 1) BY <1>3, <1>5
  <2>2. PICK f : Search(f, R, S, m - 1) BY <2>1, <1>2
  <2> DEFINE g == [n \in 0..m |-> IF n = m THEN Wider(R, f[m-1]) ELSE f[n]]
  <2>3. ASSUME NEW n \in 0..m PROVE g[n] = IF n = 0 THEN S ELSE Wider(R, g[n-1])
    <3>0. n \in Nat /\ (n # 0 => n - 1 \in 0..m-1 /\ n - 1 \in 0..m /\ n - 1 # m)
      BY <1>3
    <3>1. n # 0 => g[n-1] = f[n-1] BY <3>0
    <3>2. g[n] = IF n = m THEN Wider(R, f[m-1]) ELSE f[n] OBVIOUS
    <3> HIDE DEF g
    <3>3. CASE n = m BY <3>3, <3>1, <3>2, <1>5
    <3>4. CASE n # m
      <4>1. n \in 0..m-1 BY <3>4, <1>3
      <4>2. f[n] = IF n = 0 THEN S ELSE Wider(R, f[n-1]) BY <4>1, <2>2 DEF Search
      <4> QED BY <4>2, <3>1, <3>2, <3>4
    <3> QED BY <3>3, <3>4
  <2>4. g = [n \in 0..m |-> g[n]] OBVIOUS
  <2> HIDE DEF g
  <2>5. g = [n \in 0..m |-> IF n = 0 THEN S ELSE Wider(R, g[n-1])] BY <2>3, <2>4
  <2>6. Search(g, R, S, m) BY <2>5 DEF Search
  <2> QED BY <2>6, <1>3
<1> QED BY <1>4, <1>5

(* Closure is the last round of a search. *)
LEMMA ClosureBySearch ==
  ASSUME Ledger!LedgerAssumption, NEW R, NEW S
  PROVE  \E f : Search(f, R, S, N) /\ Ledger!Closure(R, S) = f[N]
<1> DEFINE D(g) == Search(g, R, S, N)
<1>1. Ledger!Closure(R, S) = (CHOOSE g : D(g))[N]
  BY Zenon DEF Ledger!Closure, Search, Wider
<1>2. \E g : D(g)
  BY SearchExists DEF Ledger!LedgerAssumption
<1> HIDE DEF D
<1>3. D(CHOOSE g : D(g))
  BY <1>2, Zenon
<1> QED BY <1>1, <1>3 DEF D

(* The rounds only widen. *)
LEMMA RoundsWiden ==
  ASSUME NEW k \in Nat, NEW R, NEW S, NEW f, Search(f, R, S, k), NEW n \in 0..k
  PROVE  S \subseteq f[n] /\ (n # k => f[n+1] = Wider(R, f[n]))
<1> DEFINE T == {m \in 0..k : ~(S \subseteq f[m])}
<1>0. ASSUME NEW m \in 0..k, m # 0 PROVE f[m] = Wider(R, f[m-1])
  BY <1>0 DEF Search
<1>1. T = {}
  <2> SUFFICES ASSUME T # {} PROVE FALSE OBVIOUS
  <2>1. T \subseteq Nat OBVIOUS
  <2>2. PICK m \in T : \A y \in T : m <= y
    <3> HIDE DEF T
    <3> QED BY <2>1, LeastNumber
  <2>3. m \in 0..k /\ ~(S \subseteq f[m]) OBVIOUS
  <2>4. m # 0 BY <2>3 DEF Search
  <2>5. m - 1 \in 0..k /\ ~(m <= m - 1) BY <2>3, <2>4
  <2>6. S \subseteq f[m-1] BY <2>5, <2>2
  <2>7. f[m] = Wider(R, f[m-1]) BY <2>3, <2>4, <1>0
  <2>8. S \subseteq f[m] BY <2>6, <2>7 DEF Wider
  <2> QED BY <2>3, <2>8
<1>2. S \subseteq f[n] BY <1>1
<1>3. n # k => f[n+1] = Wider(R, f[n])
  <2> SUFFICES ASSUME n # k PROVE f[n+1] = Wider(R, f[n]) OBVIOUS
  <2>1. n + 1 \in 0..k /\ n + 1 # 0 /\ (n + 1) - 1 = n OBVIOUS
  <2> QED BY <2>1, <1>0
<1> QED BY <1>2, <1>3

(* A round that adds nothing is the last that could. *)
LEMMA SearchGrows ==
  ASSUME NEW U, IsFiniteSet(U), NEW R, \A r \in R : r[2] \in U, NEW S, S \subseteq U,
         S # {},
         NEW k \in Nat, NEW f, Search(f, R, S, k),
         Wider(R, f[k]) # f[k], NEW n \in 0..k
  PROVE  f[n] \subseteq U /\ Cardinality(f[n]) >= n + 1
<1>0. /\ f[0] = S
      /\ \A m \in 0..k : m # k => f[m+1] = Wider(R, f[m])
  BY RoundsWiden DEF Search
<1> DEFINE P(m) == f[m] \subseteq U /\ Cardinality(f[m]) >= m + 1
           T == {m \in 0..k : ~P(m)}
<1>1. SUFFICES ASSUME T # {} PROVE FALSE OBVIOUS
<1>2. PICK m \in T : \A y \in T : m <= y
  <2>1. T \subseteq Nat OBVIOUS
  <2> HIDE DEF T
  <2> QED BY <1>1, <2>1, LeastNumber
<1>3. m \in 0..k /\ ~P(m) OBVIOUS
<1>4. P(0)
  <2>1. IsFiniteSet(S) /\ Cardinality(S) \in Nat BY FS_Subset, FS_CardinalityType
  <2>2. Cardinality(S) # 0 BY <2>1, FS_EmptySet
  <2> QED BY <2>1, <2>2, <1>0
<1>5. m # 0 BY <1>3, <1>4
<1>6. m - 1 \in 0..k /\ m - 1 # k /\ ~(m <= m - 1) /\ (m - 1) + 1 = m BY <1>3, <1>5
<1>7. P(m - 1) BY <1>6, <1>2
<1>8. f[m] = Wider(R, f[m-1]) BY <1>6, <1>0
<1>9. f[m] # f[m-1]
  (* otherwise every later round is the same *)
  <2> SUFFICES ASSUME f[m] = f[m-1] PROVE FALSE OBVIOUS
  <2> DEFINE Q == {j \in m..k : f[j] # f[m]}
  <2>1. Wider(R, f[m]) = f[m] BY <1>8
  <2>2. Q = {}
    <3> SUFFICES ASSUME Q # {} PROVE FALSE OBVIOUS
    <3>1. Q \subseteq Nat BY <1>3
    <3>2. PICK j \in Q : \A y \in Q : j <= y
      <4> HIDE DEF Q
      <4> QED BY <3>1, LeastNumber
    <3>3. j \in m..k /\ f[j] # f[m] OBVIOUS
    <3>4. j - 1 \in m..k /\ ~(j <= j - 1) /\ j - 1 \in 0..k /\ j - 1 # k /\ (j - 1) + 1 = j
      BY <3>3, <1>3
    <3>5. f[j-1] = f[m] BY <3>4, <3>2
    <3>6. f[j] = Wider(R, f[j-1]) BY <3>4, <1>0
    <3> QED BY <3>3, <3>5, <3>6, <2>1
  <2>3. k \in m..k BY <1>3
  <2>4. f[k] = f[m] BY <2>2, <2>3
  <2> QED BY <2>1, <2>4
<1>10. f[m-1] \subseteq f[m] /\ f[m] \subseteq U BY <1>7, <1>8 DEF Wider
<1>11. IsFiniteSet(f[m]) /\ Cardinality(f[m-1]) \in Nat /\ Cardinality(f[m]) \in Nat
  BY <1>7, <1>10, FS_Subset, FS_CardinalityType
<1>12. Cardinality(f[m-1]) < Cardinality(f[m])
  <2>1. Cardinality(f[m-1]) <= Cardinality(f[m])
        /\ (Cardinality(f[m-1]) = Cardinality(f[m]) => f[m-1] = f[m])
    BY <1>10, <1>11, FS_Subset
  <2> QED BY <2>1, <1>9, <1>11
<1>13. P(m) BY <1>7, <1>10, <1>11, <1>12, <1>6
<1> QED BY <1>3, <1>13

(* Closure holds its roots and whatever a pair leads to. *)
LEMMA ClosureIsClosed ==
  ASSUME Ledger!LedgerAssumption, NEW R, \A r \in R : r[2] \in Ledger!Candidates,
         NEW S, S \subseteq Ledger!Candidates, S # {}
  PROVE  /\ S \subseteq Ledger!Closure(R, S)
         /\ \A r \in R : r[1] \in Ledger!Closure(R, S) => r[2] \in Ledger!Closure(R, S)
<1>1. PICK f : Search(f, R, S, N) /\ Ledger!Closure(R, S) = f[N] BY ClosureBySearch
<1>2. N \in Nat /\ N \in 0..N BY DEF Ledger!LedgerAssumption
<1>3. S \subseteq f[N] BY <1>1, <1>2, RoundsWiden
<1>4. IsFiniteSet(Ledger!Candidates) /\ Cardinality(Ledger!Candidates) = N
  <2>1. IsFiniteSet(1..N) /\ Cardinality(1..N) = IF 1 > N THEN 0 ELSE N - 1 + 1
    BY <1>2, FS_Interval
  <2> QED BY <2>1, <1>2 DEF Ledger!Candidates
<1>5. Wider(R, f[N]) = f[N]
  <2> SUFFICES ASSUME Wider(R, f[N]) # f[N] PROVE FALSE OBVIOUS
  <2>1. f[N] \subseteq Ledger!Candidates /\ Cardinality(f[N]) >= N + 1
    BY <1>1, <1>2, <1>4, SearchGrows
  <2>2. Cardinality(f[N]) <= N /\ Cardinality(f[N]) \in Nat
    BY <2>1, <1>4, FS_Subset, FS_CardinalityType
  <2> QED BY <2>1, <2>2, <1>2
<1> QED BY <1>1, <1>3, <1>5 DEF Wider

(* The edge a command adds is of this transaction, and an ACTIVE support leads *)
(* to the candidate that a CORRECT leaves APPROVED.                            *)
LEMMA NewEdges ==
  ASSUME NEW kind \in Ledger!Kinds, NEW c \in Ledger!Candidates,
         NEW o \in Ledger!Related(kind, c), NEW n,
         NEW e \in Ledger!EdgesOf(kind, c, o, n)
  PROVE  /\ e.from \in Ledger!Candidates /\ e.to \in Ledger!Candidates /\ e.start = n
         /\ e.kind = "SUPPORT" /\ e.state = "ACTIVE" => kind = "CORRECT" /\ e.to = c
BY DEF Ledger!EdgesOf, Ledger!Related, Ledger!Kinds

(* Nothing leaves REVOKED, FORGOTTEN or REJECTED, and APPROVED is left for    *)
(* REVOKED and FORGOTTEN only.                                                *)
LEMMA StatesOfCommand ==
  ASSUME NEW kind \in Ledger!Kinds
  PROVE  /\ Ledger!Prior(kind) \in {"ABSENT", "PENDING", "APPROVED"}
         /\ Ledger!Resulting(kind) \in Ledger!States
         /\ Ledger!Prior(kind) = "APPROVED" =>
              Ledger!Resulting(kind) \in {"APPROVED", "REVOKED", "FORGOTTEN"}
         /\ Ledger!Resulting(kind) \in {"REVOKED", "FORGOTTEN"} =>
              kind \in {"REVOKE", "FORGET"}
         /\ kind = "CORRECT" =>
              Ledger!Prior(kind) = "APPROVED" /\ Ledger!Resulting(kind) = "APPROVED"
BY DEF Ledger!Prior, Ledger!Resulting, Ledger!Kinds, Ledger!States

(* A command that revokes or forgets takes every dependant with it. *)
LEMMA CommandStep ==
  ASSUME Ledger!LedgerAssumption, Ledger!RevocationInvariant, NEW kind \in Ledger!Kinds,
         NEW c \in Ledger!Candidates,
         NEW o \in Ledger!Related(kind, c), NEW cut,
         Ledger!AppendLedgerCommand(kind, c, o, cut)
  PROVE  Ledger!RevocationInvariant'
<1> DEFINE n == seq + 1
           es == Ledger!EdgesOf(kind, c, o, n)
           cascade == IF kind \in {"REVOKE", "FORGET"} THEN Ledger!Invalidated(c) ELSE {}
           written == {c} \cup cascade
           StateOf(d) == IF d = c THEN Ledger!Resulting(kind) ELSE "REVOKED"
           Supports(e) == e.kind = "SUPPORT" /\ e.state = "ACTIVE"
           Once == {"APPROVED", "REVOKED", "FORGOTTEN"}
<1>1. /\ candidate[c].state = Ledger!Prior(kind)
      /\ seq' = n
      /\ candidate' = [d \in Ledger!Candidates |->
                          IF d \in written THEN [state |-> StateOf(d), rev |-> n] ELSE candidate[d]]
      /\ edges' = edges \cup es
  BY DEF Ledger!AppendLedgerCommand
<1>2. n \in Nat /\ n > seq /\ seq \in Nat
  BY DEF Ledger!RevocationInvariant, Ledger!RowsAreOfThePast
<1>3. \A d \in cascade : d # c /\ candidate[d].state = "APPROVED"
  BY DEF Ledger!Invalidated
<1>4. candidate \in [Ledger!Candidates -> [state : Ledger!States, rev : 0..seq]]
  BY DEF Ledger!RevocationInvariant, Ledger!RowsAreOfThePast
<1>5. \A d \in Ledger!Candidates :
        /\ d \notin written => candidate'[d] = candidate[d]
        /\ d \in written => candidate'[d].state = StateOf(d) /\ candidate'[d].rev = n
  BY <1>1
<1>6. \A d \in written : StateOf(d) \in Ledger!States BY StatesOfCommand DEF Ledger!States
<1>7. candidate' \in [Ledger!Candidates -> [state : Ledger!States, rev : 0..seq']]
  <2>1. ASSUME NEW d \in Ledger!Candidates
        PROVE  candidate'[d] \in [state : Ledger!States, rev : 0..seq']
    <3>1. CASE d \in written
      <4>1. candidate'[d] = [state |-> StateOf(d), rev |-> n] BY <3>1, <1>1
      <4> HIDE DEF StateOf
      <4> QED BY <4>1, <3>1, <1>6, <1>1, <1>2
    <3>2. CASE d \notin written
      <4>1. candidate'[d] = candidate[d] BY <3>2, <1>5
      <4> QED BY <4>1, <1>1, <1>2, <1>4
    <3> QED BY <3>1, <3>2
  <2> QED BY <2>1, <1>1
(* what has been supported does not become PENDING again *)
<1>8. ASSUME NEW d \in Ledger!Candidates, candidate[d].state \in Once
      PROVE  candidate'[d].state \in Once
  <2>1. CASE d = c
    <3>1. Ledger!Prior(kind) = "APPROVED" BY <2>1, <1>8, <1>1, StatesOfCommand
    <3> QED BY <3>1, <2>1, <1>5, StatesOfCommand
  <2>2. CASE d \in cascade BY <2>2, <1>3, <1>5
  <2>3. CASE d \notin written BY <2>3, <1>5, <1>8
  <2> QED BY <2>1, <2>2, <2>3
<1>9. ASSUME NEW e \in edges'
      PROVE  /\ e.from \in Ledger!Candidates /\ e.to \in Ledger!Candidates
             /\ e.start \in 0..seq'
             /\ Supports(e) => candidate'[e.to].state \in Once
  <2>1. CASE e \in edges
    <3>1. /\ e.from \in Ledger!Candidates /\ e.to \in Ledger!Candidates
          /\ e.start \in 0..seq
          /\ Supports(e) => candidate[e.to].state \in Once
      BY <2>1 DEF Ledger!RevocationInvariant, Ledger!RowsAreOfThePast
    <3> QED BY <3>1, <1>8, <1>1, <1>2
  <2>2. CASE e \in es
    <3>1. /\ e.from \in Ledger!Candidates /\ e.to \in Ledger!Candidates /\ e.start = n
          /\ Supports(e) => kind = "CORRECT" /\ e.to = c
      BY <2>2, NewEdges
    <3>2. Supports(e) => candidate'[e.to].state \in Once BY <3>1, <1>5, StatesOfCommand
    <3> QED BY <3>1, <3>2, <1>1, <1>2
  <2> QED BY <2>1, <2>2, <1>1
<1>10. ASSUME NEW e \in edges', Supports(e),
              candidate'[e.from].state \in {"REVOKED", "FORGOTTEN"},
              candidate'[e.from].rev > e.start, candidate'[e.to].state = "APPROVED"
       PROVE  FALSE
  <2>1. e.from \in Ledger!Candidates /\ e.to \in Ledger!Candidates BY <1>9
  <2>2. e \in edges
    <3>1. e \in es => e.start = n BY NewEdges
    <3>2. candidate'[e.from].rev \in Nat /\ candidate'[e.from].rev <= n
      BY <2>1, <1>7, <1>1, <1>2
    <3>3. e.start # n BY <3>2, <1>2, <1>10
    <3> QED BY <3>1, <3>3, <1>1
  <2>3. candidate[e.to].state \in Once
    BY <2>2, <1>10 DEF Ledger!RevocationInvariant, Ledger!RowsAreOfThePast
  (* the end was APPROVED before: what is revoked stays so *)
  <2>4. candidate[e.to].state = "APPROVED"
    <3>1. CASE e.to = c BY <3>1, <2>3, <1>1, StatesOfCommand
    <3>2. CASE e.to \in cascade BY <3>2, <1>3
    <3>3. CASE e.to \notin written BY <3>3, <2>1, <1>5, <1>10
    <3> QED BY <3>1, <3>2, <3>3
  <2>5. CASE e.from \notin written
    <3>1. candidate'[e.from] = candidate[e.from] BY <2>5, <2>1, <1>5
    <3> QED BY <3>1, <2>2, <2>4, <1>10
               DEF Ledger!RevocationInvariant, Ledger!RevocationReaches
  <2>6. CASE e.from \in written
    <3> DEFINE R == Ledger!Pairs("SUPPORT")
    <3>1. kind \in {"REVOKE", "FORGET"}
      <4>1. CASE e.from = c BY <4>1, <1>5, <1>10, StatesOfCommand
      <4>2. CASE e.from \in cascade BY <4>2
      <4> QED BY <4>1, <4>2, <2>6
    <3>2. <<e.from, e.to>> \in R BY <2>2, <1>10 DEF Ledger!Pairs
    <3>3. \A r \in R : r[2] \in Ledger!Candidates
      BY DEF Ledger!Pairs, Ledger!RevocationInvariant, Ledger!RowsAreOfThePast
    <3> HIDE DEF R
    <3>4. /\ {c} \subseteq Ledger!Closure(R, {c})
          /\ \A r \in R : r[1] \in Ledger!Closure(R, {c}) => r[2] \in Ledger!Closure(R, {c})
      BY <3>3, ClosureIsClosed
    <3>5. e.from \in Ledger!Closure(R, {c}) BY <3>4, <2>6 DEF Ledger!Invalidated, R
    <3>6. e.to \in Ledger!Closure(R, {c}) BY <3>2, <3>4, <3>5
    <3>7. CASE e.to = c
      BY <3>7, <3>1, <1>5, <1>10, <2>1 DEF Ledger!Resulting
    <3>8. CASE e.to # c
      <4>1. e.to \in Ledger!Invalidated(c) BY <3>6, <3>8, <2>4 DEF Ledger!Invalidated, R
      <4>2. e.to \in cascade BY <4>1, <3>1
      <4> QED BY <4>2, <3>8, <1>5, <1>10, <2>1
    <3> QED BY <3>7, <3>8
  <2> QED BY <2>5, <2>6
<1>11. Ledger!RowsAreOfThePast' BY <1>1, <1>2, <1>7, <1>9 DEF Ledger!RowsAreOfThePast
<1>12. Ledger!RevocationReaches' BY <1>10 DEF Ledger!RevocationReaches
<1> QED BY <1>11, <1>12 DEF Ledger!RevocationInvariant

(* The transactions that set a workspace up count the preapproved in order. *)
LEMMA InitialRows ==
  ASSUME Ledger!LedgerAssumption, Ledger!Init PROVE Ledger!RevocationInvariant
<1>1. IsFiniteSet(Preapproved) /\ Cardinality(Preapproved) \in Nat
  <2>1. IsFiniteSet(1..N) BY FS_Interval DEF Ledger!LedgerAssumption
  <2> QED BY <2>1, FS_Subset, FS_CardinalityType
             DEF Ledger!LedgerAssumption, Ledger!Candidates
<1>2. Ledger!BaseSeq \in Nat /\ seq \in Nat
  BY <1>1, LedgerCounts DEF Ledger!BaseSeq, Ledger!Init
<1>3. ASSUME NEW c \in Preapproved PROVE Ledger!CreatedAt(c) + 1 \in 0..Ledger!BaseSeq
  <2> DEFINE B == {d \in Preapproved : d < c}
  <2>0. c \in Int BY DEF Ledger!LedgerAssumption, Ledger!Candidates
  <2>1. IsFiniteSet(B) /\ Cardinality(B) \in Nat BY <1>1, FS_Subset, FS_CardinalityType
  <2>2. Cardinality(B \cup {c}) = Cardinality(B) + 1
    <3>1. c \notin B BY <2>0
    <3> HIDE DEF B
    <3> QED BY <3>1, <2>1, FS_AddElement
  <2>3. Cardinality(B \cup {c}) <= Cardinality(Preapproved)
    <3>1. B \cup {c} \subseteq Preapproved OBVIOUS
    <3> HIDE DEF B
    <3> QED BY <3>1, <1>1, FS_Subset
  <2> QED BY <2>1, <2>2, <2>3, <1>1, LedgerCounts DEF Ledger!CreatedAt, Ledger!BaseSeq
<1>4. candidate \in [Ledger!Candidates -> [state : Ledger!States, rev : 0..seq]]
  <2>1. ASSUME NEW c \in Ledger!Candidates
        PROVE  candidate[c] \in [state : Ledger!States, rev : 0..seq]
    <3>1. CASE migration # "absent" /\ c \in Preapproved
      <4>1. candidate[c] = [state |-> "APPROVED", rev |-> Ledger!CreatedAt(c) + 1]
            /\ seq = Ledger!BaseSeq
        BY <3>1 DEF Ledger!Init
      <4> QED BY <4>1, <3>1, <1>3 DEF Ledger!States
    <3>2. CASE ~(migration # "absent" /\ c \in Preapproved)
      <4>1. candidate[c] = Ledger!NoRow BY <3>2 DEF Ledger!Init
      <4> QED BY <4>1, <1>2 DEF Ledger!NoRow, Ledger!States
    <3> QED BY <3>1, <3>2
  <2> QED BY <2>1 DEF Ledger!Init
<1>5. edges = {} BY DEF Ledger!Init
<1> QED BY <1>2, <1>4, <1>5
           DEF Ledger!RevocationInvariant, Ledger!RowsAreOfThePast, Ledger!RevocationReaches

(* The rows of the ledger are what its commands wrote. *)
LEMMA LedgerRows ==
  ASSUME Ledger!LedgerAssumption PROVE Ledger!Spec => []Ledger!RevocationInvariant
<1>1. Ledger!Init => Ledger!RevocationInvariant BY InitialRows
<1>2. Ledger!RevocationInvariant /\ [Ledger!Next]_Ledger!vars => Ledger!RevocationInvariant'
  <2> SUFFICES ASSUME Ledger!RevocationInvariant, [Ledger!Next]_Ledger!vars
               PROVE  Ledger!RevocationInvariant' OBVIOUS
  <2>1. CASE UNCHANGED <<seq, candidate, edges>>
    BY <2>1
       DEF Ledger!RevocationInvariant, Ledger!RowsAreOfThePast, Ledger!RevocationReaches
  <2>2. CASE Ledger!SetAuthority
    <3>1. seq = 0 /\ seq' = 1 /\ UNCHANGED <<candidate, edges>> BY <2>2 DEF Ledger!SetAuthority
    <3>2. Ledger!RowsAreOfThePast'
      BY <3>1 DEF Ledger!RevocationInvariant, Ledger!RowsAreOfThePast
    <3> QED BY <3>1, <3>2 DEF Ledger!RevocationInvariant, Ledger!RevocationReaches
  <2>3. ASSUME NEW kind \in Ledger!Kinds, NEW c \in Ledger!Candidates,
               NEW cut \in {seq - 1, seq},
               NEW o \in Ledger!Related(kind, c),
               Ledger!AppendLedgerCommand(kind, c, o, cut)
        PROVE  Ledger!RevocationInvariant'
    BY <2>3, CommandStep
  <2>4. CASE \/ Ledger!ClassifyLegacy \/ Ledger!PromoteLegacy
             \/ (\E k \in (seq - MaxLookback)..seq : k > 0 /\ Ledger!FirstPage(k))
             \/ Ledger!NextPage \/ Ledger!Abandon \/ Ledger!Expire
             \/ Ledger!PurgeExpiredRecallCursors
    BY <2>4, <2>1
       DEF Ledger!ClassifyLegacy, Ledger!PromoteLegacy, Ledger!FirstPage, Ledger!NextPage,
           Ledger!Acquire, Ledger!Abandon,
                      Ledger!Expire, Ledger!PurgeExpiredRecallCursors
  <2>5. CASE UNCHANGED Ledger!vars BY <2>5, <2>1 DEF Ledger!vars
  <2> QED BY <2>2, <2>3, <2>4, <2>5 DEF Ledger!Next
<1> QED BY <1>1, <1>2, PTL DEF Ledger!Spec

(***************************************************************************)
(* Revoking or forgetting a candidate reaches everything that rests on it, *)
(* however long the chain of support and whatever was appended between:    *)
(* append_ledger_command searches every dependant, for any number of       *)
(* candidates (_invalidate_supported_candidates).                          *)
(***************************************************************************)
THEOREM RevocationAlwaysReaches ==
  ASSUME Ledger!LedgerAssumption PROVE Ledger!Spec => []RevocationReaches
<1>1. Ledger!RevocationInvariant => Ledger!RevocationReaches BY DEF Ledger!RevocationInvariant
<1>2. Ledger!RevocationReaches => RevocationReaches BY DEF RevocationReaches
<1> QED BY <1>1, <1>2, LedgerRows, PTL

-----------------------------------------------------------------------------
(* SecondBrainLedger: recall.                                              *)
(* Closure reaches no more than it must. *)
LEMMA ClosureIsLeast ==
  ASSUME Ledger!LedgerAssumption, NEW R, NEW S, NEW T, S \subseteq T,
         \A r \in R : r[1] \in T => r[2] \in T
  PROVE  Ledger!Closure(R, S) \subseteq T
<1>1. PICK f : Search(f, R, S, N) /\ Ledger!Closure(R, S) = f[N] BY ClosureBySearch
<1>2. N \in Nat /\ N \in 0..N BY DEF Ledger!LedgerAssumption
<1>3. f[0] = S /\ \A m \in 0..N : m # N => f[m+1] = Wider(R, f[m])
  BY <1>1, <1>2, RoundsWiden DEF Search
<1> DEFINE Q == {m \in 0..N : ~(f[m] \subseteq T)}
<1>4. Q = {}
  <2> SUFFICES ASSUME Q # {} PROVE FALSE OBVIOUS
  <2>1. Q \subseteq Nat OBVIOUS
  <2>2. PICK m \in Q : \A y \in Q : m <= y
    <3> HIDE DEF Q
    <3> QED BY <2>1, LeastNumber
  <2>3. m \in 0..N /\ ~(f[m] \subseteq T) OBVIOUS
  <2>4. m # 0 BY <2>3, <1>3
  <2>5. m - 1 \in 0..N /\ m - 1 # N /\ ~(m <= m - 1) /\ (m - 1) + 1 = m BY <2>3, <2>4, <1>2
  <2>6. f[m-1] \subseteq T BY <2>5, <2>2
  <2>7. f[m] = Wider(R, f[m-1]) BY <2>5, <1>3
  <2>8. f[m] \subseteq T BY <2>6, <2>7 DEF Wider
  <2> QED BY <2>3, <2>8
<1> QED BY <1>1, <1>2, <1>4

(* Along pairs that lead both ways, what is reached from c is reached from each *)
(* of its members.                                                             *)
LEMMA ReachedIsShared ==
  ASSUME Ledger!LedgerAssumption, NEW V \in SUBSET Ledger!Candidates,
         NEW R \in SUBSET (V \X V),
         \A r \in R : <<r[2], r[1]>> \in R, NEW c \in V
  PROVE  /\ c \in Ledger!Closure(R, {c}) /\ Ledger!Closure(R, {c}) \subseteq V
         /\ \A r \in R : r[1] \in Ledger!Closure(R, {c}) <=> r[2] \in Ledger!Closure(R, {c})
         /\ \A d \in V : d \in Ledger!Closure(R, {c}) =>
              Ledger!Closure(R, {d}) = Ledger!Closure(R, {c})
<1>0. \A r \in R : r[1] \in V /\ r[2] \in V /\ r = <<r[1], r[2]>> OBVIOUS
<1>1. ASSUME NEW x \in V
      PROVE  /\ x \in Ledger!Closure(R, {x}) /\ Ledger!Closure(R, {x}) \subseteq V
             /\ \A r \in R : r[1] \in Ledger!Closure(R, {x}) =>
                  r[2] \in Ledger!Closure(R, {x})
  <2>1. \A r \in R : r[2] \in Ledger!Candidates BY <1>0
  <2>2. {x} \subseteq Ledger!Candidates /\ {x} # {} /\ {x} \subseteq V OBVIOUS
  <2>3. \A r \in R : r[1] \in V => r[2] \in V BY <1>0
  <2> QED BY <2>1, <2>2, <2>3, ClosureIsClosed, ClosureIsLeast
<1>2. ASSUME NEW x \in V, NEW r \in R, r[2] \in Ledger!Closure(R, {x})
      PROVE  r[1] \in Ledger!Closure(R, {x})
  <2>1. <<r[2], r[1]>> \in R BY Zenon
  <2>2. <<r[2], r[1]>>[1] = r[2] /\ <<r[2], r[1]>>[2] = r[1] OBVIOUS
  <2> QED BY <2>1, <2>2, <1>1, <1>2
<1>3. ASSUME NEW x \in V, NEW y \in V, y \in Ledger!Closure(R, {x})
      PROVE  Ledger!Closure(R, {y}) \subseteq Ledger!Closure(R, {x})
  <2>1. {y} \subseteq Ledger!Closure(R, {x}) BY <1>3
  <2> QED BY <2>1, <1>1, ClosureIsLeast
<1>4. ASSUME NEW d \in V, d \in Ledger!Closure(R, {c}), c \notin Ledger!Closure(R, {d})
      PROVE  FALSE
  <2> DEFINE T == V \ Ledger!Closure(R, {d})
  <2>1. {c} \subseteq T BY <1>4
  <2>2. \A r \in R : r[1] \in T => r[2] \in T BY <1>0, <1>2
  <2>3. Ledger!Closure(R, {c}) \subseteq T
    <3> HIDE DEF T
    <3> QED BY <2>1, <2>2, ClosureIsLeast, Zenon
  <2> QED BY <2>3, <1>1, <1>4
<1>5. \A d \in V : d \in Ledger!Closure(R, {c}) => Ledger!Closure(R, {d}) = Ledger!Closure(R, {c})
  BY <1>3, <1>4
<1> QED BY <1>1, <1>2, <1>5

(* The components part what is visible, and no edge leads out of one. *)
LEMMA ComponentsPart ==
  ASSUME Ledger!LedgerAssumption, \A v \in versions : v.c \in Ledger!Candidates, NEW k
  PROVE  /\ Ledger!VisibleCandidates(k) \subseteq Ledger!Candidates
         /\ UNION Ledger!Components(k) = Ledger!VisibleCandidates(k)
         /\ \A K \in Ledger!Components(k) : K # {} /\ K \subseteq Ledger!Candidates
         /\ \A K, J \in Ledger!Components(k) : K # J => K \cap J = {}
         /\ \A K \in Ledger!Components(k) :
               \A e \in Ledger!VisibleEdges("SUPPORT", k) \cup Ledger!VisibleEdges("CONTRADICTION", k) :
                  e[1] \in K <=> e[2] \in K
<1> DEFINE V == Ledger!VisibleCandidates(k)
           joined == Ledger!VisibleEdges("SUPPORT", k) \cup Ledger!VisibleEdges("CONTRADICTION", k)
           R == joined \cup {<<e[2], e[1]>> : e \in joined}
<1>1. V \subseteq Ledger!Candidates BY DEF Ledger!VisibleCandidates
<1>2. \A e \in joined : e \in V \X V BY DEF Ledger!VisibleEdges
<1>3. Ledger!Components(k) = {Ledger!Closure(R, {c}) : c \in V} BY DEF Ledger!Components
<1> HIDE DEF V, joined
<1>4. R \in SUBSET (V \X V) /\ joined \subseteq R BY <1>2
<1>5. ASSUME NEW r \in R PROVE <<r[2], r[1]>> \in R
  <2>1. CASE r \in joined BY <2>1
  <2>2. CASE r \in {<<e[2], e[1]>> : e \in joined}
    <3>1. PICK e \in joined : r = <<e[2], e[1]>> BY <2>2
    <3>2. e = <<e[1], e[2]>> BY <1>2
    <3>3. r[1] = e[2] /\ r[2] = e[1] BY <3>1
    <3> QED BY <3>2, <3>3
  <2> QED BY <2>1, <2>2
<1>5a. V \in SUBSET Ledger!Candidates /\ \A r \in R : <<r[2], r[1]>> \in R BY <1>1, <1>5
<1> HIDE DEF R
<1>5b. ASSUME NEW c \in V
       PROVE  /\ c \in Ledger!Closure(R, {c}) /\ Ledger!Closure(R, {c}) \subseteq V
              /\ \A r \in R :
                   r[1] \in Ledger!Closure(R, {c}) <=> r[2] \in Ledger!Closure(R, {c})
              /\ \A d \in V : d \in Ledger!Closure(R, {c}) =>
                   Ledger!Closure(R, {d}) = Ledger!Closure(R, {c})
  BY <1>1, <1>4, <1>5a, ReachedIsShared, Zenon
<1>6. ASSUME NEW c \in V
      PROVE  /\ c \in Ledger!Closure(R, {c}) /\ Ledger!Closure(R, {c}) \subseteq V
             /\ \A r \in R :
                  r[1] \in Ledger!Closure(R, {c}) <=> r[2] \in Ledger!Closure(R, {c})
  BY <1>5b, Zenon
<1>7. ASSUME NEW c \in V, NEW d \in V, d \in Ledger!Closure(R, {c})
      PROVE  Ledger!Closure(R, {d}) = Ledger!Closure(R, {c})
  BY <1>5b, <1>7, Zenon
<1>8. UNION Ledger!Components(k) = V BY <1>3, <1>6
<1>9. \A K \in Ledger!Components(k) : K # {} /\ K \subseteq Ledger!Candidates
  BY <1>1, <1>3, <1>6
<1>10. ASSUME NEW K \in Ledger!Components(k), NEW J \in Ledger!Components(k), K \cap J # {}
       PROVE  K = J
  <2>1. PICK c \in V, d \in V : K = Ledger!Closure(R, {c}) /\ J = Ledger!Closure(R, {d}) BY <1>3
  <2>2. PICK x : x \in K /\ x \in J BY <1>10
  <2>3. x \in V BY <2>1, <2>2, <1>6
  <2> QED BY <2>1, <2>2, <2>3, <1>7
<1>11. \A K \in Ledger!Components(k) : \A e \in joined : e[1] \in K <=> e[2] \in K
  BY <1>3, <1>4, <1>6
<1> QED BY <1>1, <1>8, <1>9, <1>10, <1>11 DEF V, joined

(* The least and the greatest of some candidates. *)
LEMMA Extremes ==
  ASSUME Ledger!LedgerAssumption, NEW K, K # {}, K \subseteq Ledger!Candidates
  PROVE  /\ Ledger!Min(K) \in K /\ \A y \in K : Ledger!Min(K) <= y
         /\ Ledger!Max(K) \in K /\ \A y \in K : y <= Ledger!Max(K)
<1>0. N \in Nat /\ K \subseteq Nat /\ \A y \in K : y <= N
  BY DEF Ledger!LedgerAssumption, Ledger!Candidates
<1>1. Ledger!Min(K) \in K /\ \A y \in K : Ledger!Min(K) <= y
  <2> DEFINE P(x) == \A y \in K : x <= y
  <2>1. \E x \in K : P(x) BY <1>0, LeastNumber
  <2>2. Ledger!Min(K) = CHOOSE x \in K : P(x) BY Zenon DEF Ledger!Min
  <2> HIDE DEF P
  <2>3. Ledger!Min(K) \in K /\ P(Ledger!Min(K)) BY <2>1, <2>2, Zenon
  <2> QED BY <2>3 DEF P
<1>2. Ledger!Max(K) \in K /\ \A y \in K : y <= Ledger!Max(K)
  <2> DEFINE P(x) == \A y \in K : x >= y
             M == {N - x : x \in K}
  <2>1. \E x \in K : P(x)
    <3>0. \A x \in K : N - x \in Nat BY <1>0
    <3>1. M \subseteq Nat /\ M # {} BY <3>0
    <3>2. PICK m \in M : \A y \in M : m <= y
      <4> HIDE DEF M
      <4> QED BY <3>1, LeastNumber
    <3>3. PICK x \in K : m = N - x OBVIOUS
    <3>4. ASSUME NEW y \in K PROVE x >= y
      <4>0. N - y \in M OBVIOUS
      <4>1. m <= N - y BY <3>2, <4>0
      <4> QED BY <4>1, <3>3, <1>0
    <3> QED BY <3>4
  <2>2. Ledger!Max(K) = CHOOSE x \in K : P(x) BY Zenon DEF Ledger!Max
  <2> HIDE DEF P
  <2>3. Ledger!Max(K) \in K /\ P(Ledger!Max(K)) BY <2>1, <2>2, Zenon
  <2> QED BY <2>3, <1>0 DEF P
<1> QED BY <1>1, <1>2

(* Every component has its own least member. *)
LEMMA LeastMembers ==
  ASSUME Ledger!LedgerAssumption, \A v \in versions : v.c \in Ledger!Candidates, NEW k
  PROVE  /\ \A K \in Ledger!Components(k) :
              Ledger!Min(K) \in K /\ Ledger!Min(K) \in Ledger!Candidates
         /\ \A K, J \in Ledger!Components(k) : Ledger!Min(K) = Ledger!Min(J) => K = J
<1>1. \A K \in Ledger!Components(k) : K # {} /\ K \subseteq Ledger!Candidates BY ComponentsPart
<1>2. \A K, J \in Ledger!Components(k) : K # J => K \cap J = {} BY ComponentsPart
<1>3. \A K \in Ledger!Components(k) : Ledger!Min(K) \in K /\ Ledger!Min(K) \in Ledger!Candidates
  BY <1>1, Extremes
<1> QED BY <1>2, <1>3

(* A page is a whole number of components, from the first that is left on. *)
LEMMA PageIsNext ==
  ASSUME Ledger!LedgerAssumption, \A v \in versions : v.c \in Ledger!Candidates, NEW k,
         NEW after,
         NEW rest, rest = Ledger!Remaining(k, after), NEW em, em = Ledger!Emitted(k, after)
  PROVE  /\ em \subseteq rest /\ rest \subseteq Ledger!Components(k)
         /\ rest # {} => em # {}
         /\ \A K \in em, J \in rest : Ledger!Min(J) <= Ledger!Min(K) => J \in em
<1> DEFINE Upto(K) == {J \in rest : Ledger!Min(J) <= Ledger!Min(K)}
<1>0. /\ em = {K \in rest : Upto(K) = {K} \/ Cardinality(UNION Upto(K)) <= PageSize}
      /\ rest = {K \in Ledger!Components(k) : Ledger!Min(K) > after}
  <2>1. em = {K \in rest : Upto(K) = {K} \/ Ledger!Cardinality(UNION Upto(K)) <= PageSize}
    BY DEF Ledger!Emitted
  <2>2. \A K \in rest : Ledger!Cardinality(UNION Upto(K)) = Cardinality(UNION Upto(K))
    BY LedgerCounts, Zenon
  <2>3. rest = {K \in Ledger!Components(k) : Ledger!Min(K) > after} BY DEF Ledger!Remaining
  <2> HIDE DEF Upto
  <2> QED BY <2>1, <2>2, <2>3
<1>1. em \subseteq rest /\ rest \subseteq Ledger!Components(k) BY <1>0
<1>2. /\ \A K \in rest :
           Ledger!Min(K) \in Ledger!Candidates /\ K \subseteq Ledger!Candidates
      /\ \A K, J \in rest : Ledger!Min(K) = Ledger!Min(J) => K = J
  BY <1>1, LeastMembers, ComponentsPart
<1>3. /\ N \in Nat /\ Ledger!Candidates \subseteq Nat /\ IsFiniteSet(Ledger!Candidates)
      /\ \A K \in rest : Ledger!Min(K) \in Nat
  BY <1>2, FS_Interval DEF Ledger!LedgerAssumption, Ledger!Candidates
<1>4. ASSUME rest # {} PROVE em # {}
  <2> DEFINE M == {Ledger!Min(K) : K \in rest}
  <2>1. M \subseteq Nat /\ M # {} BY <1>3, <1>4
  <2>2. PICK m \in M : \A y \in M : m <= y
    <3> HIDE DEF M
    <3> QED BY <2>1, LeastNumber
  <2>3. PICK K \in rest : m = Ledger!Min(K) OBVIOUS
  <2>4. ASSUME NEW J \in Upto(K) PROVE J = K
    <3>1. Ledger!Min(J) \in M /\ Ledger!Min(J) <= Ledger!Min(K) OBVIOUS
    <3>2. m <= Ledger!Min(J) BY <3>1, <2>2
    <3> QED BY <3>1, <3>2, <2>3, <1>2, <1>3
  <2>5. K \in Upto(K) BY <1>3
  <2>6. Upto(K) = {K} BY <2>4, <2>5
  <2> QED BY <2>6, <1>0
<1>5. ASSUME NEW K \in em, NEW J \in rest, Ledger!Min(J) <= Ledger!Min(K) PROVE J \in em
  <2>0. K \in rest BY <1>0
  <2>1. CASE Upto(K) = {K}
    <3>1. J \in Upto(K) BY <1>5
    <3> QED BY <3>1, <2>1
  <2>2. CASE Cardinality(UNION Upto(K)) <= PageSize
    <3> DEFINE A == UNION Upto(J)
               B == UNION Upto(K)
    <3>1. Upto(J) \subseteq Upto(K) BY <2>0, <1>3, <1>5
    <3>2. A \subseteq B /\ B \subseteq Ledger!Candidates BY <3>1, <1>2
    <3>3. Cardinality(B) <= PageSize BY <2>2
    <3> HIDE DEF A, B
    <3>4. IsFiniteSet(B) BY <3>2, <1>3, FS_Subset
    <3>5. Cardinality(A) \in Nat /\ Cardinality(B) \in Nat
          /\ Cardinality(A) <= Cardinality(B)
      BY <3>2, <3>4, FS_Subset, FS_CardinalityType
    <3>6. Cardinality(A) <= PageSize BY <3>3, <3>5 DEF Ledger!LedgerAssumption
    <3> QED BY <3>6, <1>0 DEF A
  <2> QED BY <2>0, <2>1, <2>2, <1>0
<1> QED BY <1>1, <1>4, <1>5

(* A page is closed under the edges: its members are whole components. *)
LEMMA PagesAreAdmitted ==
  ASSUME Ledger!LedgerAssumption, \A v \in versions : v.c \in Ledger!Candidates, NEW k,
         NEW after
  PROVE  /\ Ledger!SnapshotAdmits(UNION Ledger!Emitted(k, after), k)
         /\ UNION Ledger!Emitted(k, after) \subseteq Ledger!Candidates
<1> DEFINE em == Ledger!Emitted(k, after)
<1>1. em \subseteq Ledger!Components(k) BY DEF Ledger!Emitted, Ledger!Remaining
<1> HIDE DEF em
<1>2. \A K \in Ledger!Components(k) :
         \A e \in Ledger!VisibleEdges("SUPPORT", k) \cup Ledger!VisibleEdges("CONTRADICTION", k) :
            e[1] \in K <=> e[2] \in K
  BY ComponentsPart
<1>3. \A K \in Ledger!Components(k) : K \subseteq Ledger!Candidates BY ComponentsPart
<1>4. Ledger!SnapshotAdmits(UNION em, k) BY <1>1, <1>2 DEF Ledger!SnapshotAdmits
<1>5. UNION em \subseteq Ledger!Candidates BY <1>1, <1>3
<1> QED BY <1>4, <1>5 DEF em

(* Of two displayed candidates in open contradiction one is not answered. *)
LEMMA AnswersAgree ==
  ASSUME Ledger!LedgerAssumption, \A v \in versions : v.c \in Ledger!Candidates, NEW k,
         NEW page,
         NEW e \in Ledger!VisibleEdges("CONTRADICTION", k),
         {e[1], e[2]} \subseteq Ledger!Answered(page, k)
  PROVE  FALSE
<1> DEFINE S == Ledger!VisibleEdges("SUPPORT", k)
           support(c) == Ledger!Cardinality({x \in S : x[2] = c})
           open == {x \in Ledger!VisibleEdges("CONTRADICTION", k) : {x[1], x[2]} \subseteq page}
<1>1. Ledger!Answered(page, k) = {c \in page : ~ (\E x \in open : \E i \in {1, 2} :
                              x[i] = c /\ support(c) <= support(x[3 - i]))}
  BY Zenon DEF Ledger!Answered
<1>2. e \in open BY <1>1
<1>3. IsFiniteSet(S)
  <2>1. IsFiniteSet(Ledger!Candidates)
    BY FS_Interval DEF Ledger!LedgerAssumption, Ledger!Candidates
  <2>2. IsFiniteSet(Ledger!Candidates \X Ledger!Candidates) BY <2>1, FS_Product
  <2>3. S \subseteq Ledger!Candidates \X Ledger!Candidates
    BY DEF Ledger!VisibleEdges, Ledger!VisibleCandidates
  <2> QED BY <2>2, <2>3, FS_Subset
<1> HIDE DEF S
<1>4. \A c : support(c) \in Nat
  <2> TAKE c
  <2> DEFINE T == {x \in S : x[2] = c}
  <2>1. T \subseteq S OBVIOUS
  <2> HIDE DEF T
  <2>2. Cardinality(T) \in Nat BY <2>1, <1>3, FS_Subset, FS_CardinalityType
  <2>3. Ledger!Cardinality(T) \in Nat BY <2>2, LedgerCounts
  <2> QED BY <2>3 DEF T
<1> HIDE DEF open, support
<1>5. 3 - 1 = 2 /\ 3 - 2 = 1 OBVIOUS
<1>6. ~(support(e[1]) <= support(e[2])) BY <1>1, <1>2, <1>5
<1>7. ~(support(e[2]) <= support(e[1])) BY <1>1, <1>2, <1>5
<1> QED BY <1>4, <1>6, <1>7

(* The components up to a position are held, and these come next. *)
PageAfter(k, after, em, got, last) ==
    /\ em = Ledger!Emitted(k, after)
    /\ got = UNION {K \in Ledger!Components(k) : Ledger!Min(K) <= after}
    /\ last = Ledger!Max({Ledger!Min(K) : K \in em})

PageAdds(k, after, em, got, last) ==
    /\ got \cap UNION em = {}
    /\ em = Ledger!Remaining(k, after) => got \cup UNION em = Ledger!VisibleCandidates(k)
    /\ em # Ledger!Remaining(k, after) =>
          last \in Nat
          /\ got \cup UNION em = UNION {K \in Ledger!Components(k) : Ledger!Min(K) <= last}

LEMMA NextComponents ==
  ASSUME Ledger!LedgerAssumption, \A v \in versions : v.c \in Ledger!Candidates, NEW k,
         NEW after \in Nat,
         NEW em, NEW got, NEW last, PageAfter(k, after, em, got, last)
  PROVE  PageAdds(k, after, em, got, last)
<1> DEFINE rest == Ledger!Remaining(k, after)
           C == Ledger!Components(k)
           M == {Ledger!Min(K) : K \in em}
<1>0. last = Ledger!Max(M) /\ em = Ledger!Emitted(k, after) BY DEF PageAfter
<1>1. /\ em \subseteq rest /\ rest \subseteq C
      /\ rest # {} => em # {}
      /\ \A K \in em, J \in rest : Ledger!Min(J) <= Ledger!Min(K) => J \in em
  BY <1>0, PageIsNext
<1>2. rest = {K \in C : Ledger!Min(K) > after} BY DEF Ledger!Remaining
<1>3. /\ \A K \in C : Ledger!Min(K) \in K /\ Ledger!Min(K) \in Ledger!Candidates
      /\ \A K, J \in C : Ledger!Min(K) = Ledger!Min(J) => K = J
  BY LeastMembers
<1>4. Ledger!Candidates \subseteq Nat BY DEF Ledger!Candidates, Ledger!LedgerAssumption
<1>5. /\ UNION C = Ledger!VisibleCandidates(k)
      /\ \A K, J \in C : K # J => K \cap J = {}
  BY ComponentsPart
<1> HIDE DEF rest, C
<1>6. got = UNION {K \in C : Ledger!Min(K) <= after} BY DEF C, PageAfter
<1>7. \A K \in C : Ledger!Min(K) \in Nat BY <1>3, <1>4
<1>8. got \cap UNION em = {}
  <2> SUFFICES ASSUME NEW x \in got, x \in UNION em PROVE FALSE OBVIOUS
  <2>1. PICK K \in C : x \in K /\ Ledger!Min(K) <= after BY <1>6
  <2>2. PICK J \in em : x \in J OBVIOUS
  <2>3. J \in C /\ Ledger!Min(J) > after BY <2>2, <1>1, <1>2
  <2>4. K = J BY <2>1, <2>2, <2>3, <1>5
  <2> QED BY <2>1, <2>3, <2>4, <1>7
<1>9. ASSUME em = rest PROVE got \cup UNION em = Ledger!VisibleCandidates(k)
  <2>1. \A K \in C : Ledger!Min(K) <= after \/ K \in em BY <1>2, <1>7, <1>9
  <2>2. em \subseteq C BY <1>1
  <2>3. got \cup UNION em = UNION C BY <2>1, <2>2, <1>6
  <2> QED BY <2>3, <1>5
<1>10. ASSUME em # rest
       PROVE  last \in Nat /\ got \cup UNION em = UNION {K \in C : Ledger!Min(K) <= last}
  <2>1. em # {} BY <1>10, <1>1
  <2>2. M # {} /\ M \subseteq Ledger!Candidates BY <2>1, <1>1, <1>3
  <2>3. last \in M /\ \A y \in M : y <= last
    <3> HIDE DEF M
    <3> QED BY <2>2, <1>0, Extremes
  <2>4. PICK K0 \in em : last = Ledger!Min(K0) BY <2>3
  <2>5. \A K \in em : Ledger!Min(K) <= last BY <2>3
  <2>6. K0 \in C /\ last \in Nat /\ last > after BY <2>4, <1>1, <1>2, <1>7
  <2>7. ASSUME NEW K \in C
        PROVE  Ledger!Min(K) <= last <=> (Ledger!Min(K) <= after \/ K \in em)
    <3>1. Ledger!Min(K) <= last => (Ledger!Min(K) <= after \/ K \in em)
      BY <2>4, <2>6, <1>1, <1>2, <1>7
    <3>2. Ledger!Min(K) <= after => Ledger!Min(K) <= last BY <2>6, <1>7
    <3> QED BY <3>1, <3>2, <2>5
  <2>8. em \subseteq C BY <1>1
  <2> QED BY <2>6, <2>7, <2>8, <1>6
<1> QED BY <1>8, <1>9, <1>10 DEF rest, C, PageAdds

(* What is visible at a cut that was reached no transaction changes. *)
LEMMA CutIsFixed ==
  ASSUME seq \in Nat, NEW k \in Int, k <= seq, [Ledger!Next]_Ledger!vars
  PROVE  /\ Ledger!VisibleCandidates(k)' = Ledger!VisibleCandidates(k)
         /\ Ledger!VisibleEdges("CONTRADICTION", k)' = Ledger!VisibleEdges("CONTRADICTION", k)
         /\ Ledger!Components(k)' = Ledger!Components(k)
         /\ seq' \in Nat /\ k <= seq'
<1> DEFINE Fixed == /\ Ledger!VisibleCandidates(k)' = Ledger!VisibleCandidates(k)
                    /\ Ledger!VisibleEdges("SUPPORT", k)' = Ledger!VisibleEdges("SUPPORT", k)
                    /\ Ledger!VisibleEdges("CONTRADICTION", k)' = Ledger!VisibleEdges("CONTRADICTION", k)
           Grown == seq' \in Nat /\ k <= seq'
<1>1. ASSUME versions' = versions, closures' = closures, edges' = edges PROVE Fixed
  <2>1. Ledger!VisibleCandidates(k)' = Ledger!VisibleCandidates(k)
    BY <1>1 DEF Ledger!VisibleCandidates
  <2>2. Ledger!VisibleEdges("SUPPORT", k)' = Ledger!VisibleEdges("SUPPORT", k)
    BY <2>1, <1>1 DEF Ledger!VisibleEdges
  <2>3. Ledger!VisibleEdges("CONTRADICTION", k)' = Ledger!VisibleEdges("CONTRADICTION", k)
    BY <2>1, <1>1 DEF Ledger!VisibleEdges
  <2> QED BY <2>1, <2>2, <2>3
<1>2. ASSUME NEW kind \in Ledger!Kinds, NEW c \in Ledger!Candidates, NEW cut,
             NEW o \in Ledger!Related(kind, c),
             Ledger!AppendLedgerCommand(kind, c, o, cut)
      PROVE  Fixed /\ Grown
  <2> DEFINE n == seq + 1
             es == Ledger!EdgesOf(kind, c, o, n)
  <2>1. PICK vs, cs : /\ seq' = n
                      /\ versions' = versions \cup vs /\ \A v \in vs : v.rev = n
                      /\ closures' = closures \cup cs /\ \A x \in cs : x.end = n
                      /\ edges' = edges \cup es
    <3> DEFINE cascade == IF kind \in {"REVOKE", "FORGET"} THEN Ledger!Invalidated(c) ELSE {}
               written == {c} \cup cascade
               StateOf(d) == IF d = c THEN Ledger!Resulting(kind) ELSE "REVOKED"
               vs == {[c |-> d, rev |-> n, state |-> StateOf(d)] : d \in written}
               cs == {[c |-> d, rev |-> candidate[d].rev, end |-> n] :
                           d \in {x \in written : candidate[x].state # "ABSENT"}}
    <3>1. seq' = n /\ versions' = versions \cup vs /\ closures' = closures \cup cs
          /\ edges' = edges \cup es
      BY <1>2 DEF Ledger!AppendLedgerCommand
    <3>2. \A v \in vs : v.rev = n OBVIOUS
    <3>3. \A x \in cs : x.end = n OBVIOUS
    <3> HIDE DEF vs, cs
    <3> QED BY <3>1, <3>2, <3>3
  <2>2. \A e \in es : e.start = n BY NewEdges
  <2>3. n \in Nat /\ ~(n <= k) /\ k <= n OBVIOUS
  <2> HIDE DEF n, es
  <2>4. Ledger!VisibleCandidates(k)' = Ledger!VisibleCandidates(k)
    <3> DEFINE Kept(w) == /\ w.state = "APPROVED"
                          /\ w.rev <= k
                          /\ ~ \E x \in closures : x.c = w.c /\ x.rev = w.rev /\ x.end <= k
                          /\ ~ \E e \in edges : e.from = w.c /\ e.kind = "SUPPORT"
                                     /\ e.state = "SUPERSEDED" /\ e.start <= k
               Kept2(w) == /\ w.state = "APPROVED"
                           /\ w.rev <= k
                           /\ ~ \E x \in closures' :
                                x.c = w.c /\ x.rev = w.rev /\ x.end <= k
                           /\ ~ \E e \in edges' : e.from = w.c /\ e.kind = "SUPPORT"
                                     /\ e.state = "SUPERSEDED" /\ e.start <= k
    <3>1. \A w \in versions' : Kept2(w) <=> w \in versions /\ Kept(w) BY <2>1, <2>2, <2>3
    <3>2. {w \in versions' : Kept2(w)} = {w \in versions : Kept(w)}
      <4> HIDE DEF Kept, Kept2
      <4> QED BY <3>1, <2>1
    <3> QED BY <3>2 DEF Ledger!VisibleCandidates
  <2> DEFINE Shown(kd) == {x \in edges : x.kind = kd /\ x.state = "ACTIVE" /\ x.start <= k
                                  /\ {x.from, x.to} \subseteq Ledger!VisibleCandidates(k)}
             Shown2(kd) == {x \in edges' : x.kind = kd /\ x.state = "ACTIVE" /\ x.start <= k
                                  /\ {x.from, x.to} \subseteq Ledger!VisibleCandidates(k)}
  <2>5. \A kd : Shown2(kd) = Shown(kd) BY <2>1, <2>2, <2>3
  <2>6. Ledger!VisibleEdges("SUPPORT", k)' = Ledger!VisibleEdges("SUPPORT", k)
    BY <2>4, <2>5 DEF Ledger!VisibleEdges
  <2>7. Ledger!VisibleEdges("CONTRADICTION", k)' = Ledger!VisibleEdges("CONTRADICTION", k)
    BY <2>4, <2>5 DEF Ledger!VisibleEdges
  <2> QED BY <2>1, <2>3, <2>4, <2>6, <2>7 DEF n
<1>7. Fixed /\ Grown
  <2>3. CASE Ledger!SetAuthority
    <3>1. seq' = 1 /\ seq = 0 /\ versions' = versions /\ closures' = closures
          /\ edges' = edges
      BY <2>3 DEF Ledger!SetAuthority
    <3>2. Grown BY <3>1
    <3> QED BY <3>1, <3>2, <1>1
  <2>4. CASE seq' = seq /\ versions' = versions /\ closures' = closures /\ edges' = edges
    BY <2>4, <1>1
  <2>5. CASE \/ Ledger!ClassifyLegacy \/ Ledger!PromoteLegacy
             \/ (\E j \in (seq - MaxLookback)..seq : j > 0 /\ Ledger!FirstPage(j))
             \/ Ledger!NextPage \/ Ledger!Abandon \/ Ledger!Expire
             \/ Ledger!PurgeExpiredRecallCursors
    BY <2>5, <2>4
       DEF Ledger!ClassifyLegacy, Ledger!PromoteLegacy, Ledger!FirstPage, Ledger!NextPage,
           Ledger!Acquire, Ledger!Abandon,
                      Ledger!Expire, Ledger!PurgeExpiredRecallCursors
  <2>6. CASE UNCHANGED Ledger!vars BY <2>6, <2>4 DEF Ledger!vars
  <2> HIDE DEF Fixed, Grown
  <2> QED BY <1>2, <2>3, <2>5, <2>6 DEF Ledger!Next
<1>8. Ledger!Components(k)' = Ledger!Components(k) BY <1>7 DEF Ledger!Components
<1> QED BY <1>7, <1>8

(* A page keeps the caller at its cut. *)
LEMMA PageStep ==
  ASSUME Ledger!LedgerAssumption, Ledger!RecallInvariant, NEW k \in Int, NEW after \in Nat,
         Ledger!Acquire(k, after),
         \/ Ledger!FirstPage(k) /\ after = 0
         \/ k = reader.cut /\ after = reader.after /\ reader.phase = "paging"
  PROVE  Ledger!RecallInvariant'
<1> DEFINE em == Ledger!Emitted(k, after)
           page == UNION em
           more == em # Ledger!Remaining(k, after)
           last == Ledger!Max({Ledger!Min(K) : K \in em})
           open == Ledger!VisibleEdges("CONTRADICTION", k)
           ans == Ledger!Answered(page, k)
<1>1. /\ k <= seq /\ Ledger!SnapshotAdmits(page, k)
      /\ reader' = [phase |-> IF more THEN "paging" ELSE "done", cut |-> k,
                     after |-> IF more THEN last ELSE after, live |-> more,
                     got |-> reader.got \cup page,
                     served |-> reader.served \cup ans]
      /\ seq' = seq /\ versions' = versions /\ closures' = closures /\ edges' = edges
  BY Zenon DEF Ledger!Acquire, Ledger!RecallAuthorized
<1>2. \A v \in versions : v.c \in Ledger!Candidates
  BY DEF Ledger!RecallInvariant, Ledger!PagesTyped
<1>3. /\ reader.got = UNION {K \in Ledger!Components(k) : Ledger!Min(K) <= after}
      /\ \A e \in open : ~ {e[1], e[2]} \subseteq reader.served
  <2>1. CASE Ledger!FirstPage(k) /\ after = 0
    <3>1. reader.got = {} /\ reader.served = {}
      BY <2>1
         DEF Ledger!FirstPage, Ledger!RecallInvariant, Ledger!PagesKept, Ledger!IdleReader
    <3>2. \A K \in Ledger!Components(k) : Ledger!Min(K) \in Ledger!Candidates
      BY <1>2, LeastMembers
    <3>3. \A K \in Ledger!Components(k) : ~(Ledger!Min(K) <= 0)
      BY <3>2 DEF Ledger!Candidates, Ledger!LedgerAssumption
    <3>4. {K \in Ledger!Components(k) : Ledger!Min(K) <= after} = {} BY <3>3, <2>1
    <3> QED BY <3>1, <3>4
  <2>2. CASE k = reader.cut /\ after = reader.after /\ reader.phase = "paging"
    BY <2>2 DEF Ledger!RecallInvariant, Ledger!PagesKept
  <2> QED BY <2>1, <2>2
<1>4. /\ reader.got \cap page = {}
      /\ ~more => reader.got \cup page = Ledger!VisibleCandidates(k)
      /\ more => /\ last \in Nat
                 /\ reader.got \cup page = UNION {K \in Ledger!Components(k) : Ledger!Min(K) <= last}
  <2>1. PageAfter(k, after, em, reader.got, last) BY <1>3, Zenon DEF PageAfter
  <2> HIDE DEF em, last
  <2>2. PageAdds(k, after, em, reader.got, last) BY <2>1, <1>2, NextComponents, Zenon
  <2> QED BY <2>2, Zenon DEF PageAdds
<1>5. page \subseteq Ledger!Candidates BY <1>2, PagesAreAdmitted
<1>6. ans \subseteq page BY DEF Ledger!Answered
<1>7. reader.got \subseteq Ledger!Candidates /\ reader.served \subseteq reader.got
  BY DEF Ledger!RecallInvariant, Ledger!PagesTyped, Ledger!PagesKept
<1>8. ASSUME NEW e \in open, {e[1], e[2]} \subseteq reader.served \cup ans PROVE FALSE
  <2>1. e[1] \in page <=> e[2] \in page BY <1>1 DEF Ledger!SnapshotAdmits
  <2>2. CASE e[1] \in page
    <3>1. e[1] \notin reader.served /\ e[2] \notin reader.served BY <2>1, <2>2, <1>4, <1>7
    <3>2. {e[1], e[2]} \subseteq ans BY <3>1, <1>8
    <3> QED BY <3>2, <1>2, AnswersAgree
  <2>3. CASE e[1] \notin page
    <3>1. e[1] \notin ans /\ e[2] \notin ans BY <2>1, <2>3, <1>6
    <3> QED BY <3>1, <1>3, <1>8
  <2> QED BY <2>2, <2>3
<1>9. /\ Ledger!VisibleCandidates(k)' = Ledger!VisibleCandidates(k)
      /\ Ledger!VisibleEdges("CONTRADICTION", k)' = open
      /\ Ledger!Components(k)' = Ledger!Components(k)
  <2>1. Ledger!VisibleCandidates(k)' = Ledger!VisibleCandidates(k)
    BY <1>1 DEF Ledger!VisibleCandidates
  <2>2. Ledger!VisibleEdges("SUPPORT", k)' = Ledger!VisibleEdges("SUPPORT", k)
    BY <2>1, <1>1 DEF Ledger!VisibleEdges
  <2>3. Ledger!VisibleEdges("CONTRADICTION", k)' = open BY <2>1, <1>1 DEF Ledger!VisibleEdges
  <2> QED BY <2>1, <2>2, <2>3 DEF Ledger!Components
<1> HIDE DEF em, page, more, last, ans, open
<1>10. Ledger!PagesTyped'
  <2>1. (more \in BOOLEAN) /\ (IF more THEN last ELSE after) \in Nat BY <1>4 DEF more
  <2> QED BY <2>1, <1>1, <1>2, <1>5, <1>6, <1>7
             DEF Ledger!PagesTyped, Ledger!RecallInvariant
<1>11. Ledger!PagesKept'
  <2>1. /\ reader'.phase = (IF more THEN "paging" ELSE "done") /\ reader'.cut = k
        /\ reader'.after = (IF more THEN last ELSE after)
        /\ reader'.got = reader.got \cup page /\ reader'.served = reader.served \cup ans
    BY <1>1
  <2>2. reader'.phase # "idle" /\ reader'.cut <= seq' BY <2>1, <1>1
  <2>3. reader'.served \subseteq reader'.got BY <2>1, <1>6, <1>7
  <2>4. reader'.phase = "paging" =>
            reader'.got = UNION {K \in Ledger!Components(k) : Ledger!Min(K) <= reader'.after}
    BY <2>1, <1>4
  <2>5. reader'.phase = "done" => reader'.got = Ledger!VisibleCandidates(k) BY <2>1, <1>4
  <2>6. \A e \in open : ~ {e[1], e[2]} \subseteq reader'.served BY <2>1, <1>8
  <2>7. ASSUME NEW j \in Int, j = reader'.cut
        PROVE  /\ reader'.phase = "paging" =>
                     reader'.got = UNION {K \in Ledger!Components(j)' : Ledger!Min(K) <= reader'.after}
               /\ reader'.phase = "done" => reader'.got = Ledger!VisibleCandidates(j)'
               /\ reader'.phase # "idle" =>
                    \A e \in Ledger!VisibleEdges("CONTRADICTION", j)' :
                     ~ {e[1], e[2]} \subseteq reader'.served
    <3>1. j = k BY <2>7, <2>1
    <3> QED BY <3>1, <2>4, <2>5, <2>6, <1>9
  <2> QED BY <2>2, <2>3, <2>7 DEF Ledger!PagesKept
<1> QED BY <1>10, <1>11 DEF Ledger!RecallInvariant

(* A caller that reads nothing stays at its cut, whatever is appended. *)
LEMMA OtherStep ==
  ASSUME Ledger!LedgerAssumption, Ledger!RecallInvariant, [Ledger!Next]_Ledger!vars,
         \A v \in versions' : v.c \in Ledger!Candidates,
         reader' \in {reader, Ledger!IdleReader, [reader EXCEPT !.live = FALSE]}
  PROVE  Ledger!RecallInvariant'
<1>1. seq \in Nat /\ seq' \in Nat
  <2>1. seq \in Nat BY DEF Ledger!RecallInvariant, Ledger!PagesTyped
  <2> QED BY <2>1, CutIsFixed
<1>2. reader \in [phase : {"idle", "paging", "done"}, cut : Int, after : Nat,
                   live : BOOLEAN, got : SUBSET Ledger!Candidates,
                   served : SUBSET Ledger!Candidates]
  BY DEF Ledger!RecallInvariant, Ledger!PagesTyped
<1>3. CASE reader' = Ledger!IdleReader
  <2>1. reader' \in [phase : {"idle", "paging", "done"}, cut : Int, after : Nat,
                   live : BOOLEAN, got : SUBSET Ledger!Candidates,
                   served : SUBSET Ledger!Candidates]
    BY <1>3 DEF Ledger!IdleReader
  <2>2. /\ reader'.phase = "idle" /\ reader'.served = {} /\ reader'.got = {}
    BY <1>3 DEF Ledger!IdleReader
  <2>3. Ledger!PagesTyped' BY <2>1, <1>1 DEF Ledger!PagesTyped
  <2>4. Ledger!PagesKept' BY <1>3, <2>2 DEF Ledger!PagesKept
  <2> QED BY <2>3, <2>4 DEF Ledger!RecallInvariant
<1>4. CASE reader.phase = "idle"
  <2>1. reader = Ledger!IdleReader BY <1>4 DEF Ledger!RecallInvariant, Ledger!PagesKept
  <2>2. reader' = Ledger!IdleReader BY <2>1 DEF Ledger!IdleReader
  <2> QED BY <2>2, <1>3
<1>5. CASE reader.phase # "idle" /\ reader' \in {reader, [reader EXCEPT !.live = FALSE]}
  <2>1. /\ reader'.phase = reader.phase /\ reader'.cut = reader.cut
        /\ reader'.after = reader.after
        /\ reader'.got = reader.got /\ reader'.served = reader.served
        /\ reader' \in [phase : {"idle", "paging", "done"}, cut : Int, after : Nat,
                   live : BOOLEAN, got : SUBSET Ledger!Candidates,
                   served : SUBSET Ledger!Candidates]
    BY <1>2, <1>5
  <2>2. PICK k \in Int : k = reader.cut BY <1>2
  <2>3. k <= seq BY <2>2, <1>5 DEF Ledger!RecallInvariant, Ledger!PagesKept
  <2>4. /\ Ledger!VisibleCandidates(k)' = Ledger!VisibleCandidates(k)
        /\ Ledger!VisibleEdges("CONTRADICTION", k)' = Ledger!VisibleEdges("CONTRADICTION", k)
        /\ Ledger!Components(k)' = Ledger!Components(k)
        /\ k <= seq'
    BY <2>3, <1>1, CutIsFixed
  <2>5. /\ reader.phase = "paging" =>
               reader.got = UNION {K \in Ledger!Components(k) : Ledger!Min(K) <= reader.after}
        /\ reader.phase = "done" => reader.got = Ledger!VisibleCandidates(k)
        /\ \A e \in Ledger!VisibleEdges("CONTRADICTION", k) :
             ~ {e[1], e[2]} \subseteq reader.served
        /\ reader.served \subseteq reader.got
    BY <2>2, <1>5 DEF Ledger!RecallInvariant, Ledger!PagesKept
  <2>6. Ledger!PagesTyped' BY <2>1, <1>1 DEF Ledger!PagesTyped
  <2>7. ASSUME NEW j \in Int, j = reader'.cut
        PROVE  /\ reader'.phase = "paging" =>
                     reader'.got = UNION {K \in Ledger!Components(j)' : Ledger!Min(K) <= reader'.after}
               /\ reader'.phase = "done" => reader'.got = Ledger!VisibleCandidates(j)'
               /\ reader'.phase # "idle" =>
                    \A e \in Ledger!VisibleEdges("CONTRADICTION", j)' :
                     ~ {e[1], e[2]} \subseteq reader'.served
    <3>1. j = k BY <2>7, <2>1, <2>2
    <3> QED BY <3>1, <2>1, <2>4, <2>5
  <2>8. Ledger!PagesKept' BY <2>1, <2>2, <2>4, <2>5, <2>7, <1>5 DEF Ledger!PagesKept
  <2> QED BY <2>6, <2>8 DEF Ledger!RecallInvariant
<1> QED BY <1>3, <1>4, <1>5

(***************************************************************************)
(* A caller that pages to the end receives exactly what was approved at    *)
(* its cut, and no two answers in open contradiction, whatever is appended *)
(* between its pages (acquire_recall_snapshot, _page_components): for any  *)
(* number of candidates, any page size and any graph of edges.             *)
(***************************************************************************)
THEOREM RecallStaysTheCut ==
  ASSUME Ledger!LedgerAssumption PROVE Ledger!Spec => []RecallIsTheCut
<1>1. Ledger!Init => Ledger!RecallInvariant
  <2> SUFFICES ASSUME Ledger!Init PROVE Ledger!RecallInvariant OBVIOUS
  <2>1. reader = Ledger!IdleReader BY DEF Ledger!Init
  <2>2. seq \in Nat BY InitialRows DEF Ledger!RevocationInvariant, Ledger!RowsAreOfThePast
  <2>3. \A v \in versions : v.c \in Ledger!Candidates
    BY DEF Ledger!Init, Ledger!PreVersions, Ledger!LedgerAssumption
  <2>4. Ledger!PagesTyped BY <2>1, <2>2, <2>3 DEF Ledger!PagesTyped, Ledger!IdleReader
  <2>5. reader.phase = "idle" /\ reader.served = {} /\ reader.got = {}
    BY <2>1 DEF Ledger!IdleReader
  <2>6. Ledger!PagesKept BY <2>1, <2>5 DEF Ledger!PagesKept
  <2> QED BY <2>4, <2>6 DEF Ledger!RecallInvariant
<1>2. Ledger!RevocationInvariant /\ Ledger!RecallInvariant
      /\ [Ledger!Next]_Ledger!vars => Ledger!RecallInvariant'
  <2> SUFFICES ASSUME Ledger!RevocationInvariant, Ledger!RecallInvariant, [Ledger!Next]_Ledger!vars
               PROVE  Ledger!RecallInvariant' OBVIOUS
  <2>0. /\ seq \in Nat /\ \A v \in versions : v.c \in Ledger!Candidates
        /\ reader.cut \in Int /\ reader.after \in Nat
    BY DEF Ledger!RecallInvariant, Ledger!PagesTyped
  <2>1. ASSUME NEW kind \in Ledger!Kinds, NEW c \in Ledger!Candidates,
               NEW cut \in {seq - 1, seq},
               NEW o \in Ledger!Related(kind, c),
               Ledger!AppendLedgerCommand(kind, c, o, cut)
        PROVE  Ledger!RecallInvariant'
    <3>1. \A v \in versions' : v.c \in Ledger!Candidates
      <4> DEFINE cascade == IF kind \in {"REVOKE", "FORGET"} THEN Ledger!Invalidated(c) ELSE {}
                 written == {c} \cup cascade
                 StateOf(d) == IF d = c THEN Ledger!Resulting(kind) ELSE "REVOKED"
                 vs == {[c |-> d, rev |-> seq + 1, state |-> StateOf(d)] : d \in written}
      <4>1. versions' = versions \cup vs BY <2>1 DEF Ledger!AppendLedgerCommand
      <4>2. written \subseteq Ledger!Candidates
        <5>1. Ledger!Closure(Ledger!Pairs("SUPPORT"), {c}) \subseteq Ledger!Candidates
          <6>1. \A r \in Ledger!Pairs("SUPPORT") : r[2] \in Ledger!Candidates
            BY DEF Ledger!Pairs, Ledger!RevocationInvariant, Ledger!RowsAreOfThePast
          <6> QED BY <6>1, ClosureIsLeast
        <5> QED BY <5>1 DEF Ledger!Invalidated
      <4>3. \A v \in vs : v.c \in written OBVIOUS
      <4> HIDE DEF vs, written
      <4> QED BY <4>1, <4>2, <4>3, <2>0
    <3>2. reader' = reader BY <2>1 DEF Ledger!AppendLedgerCommand
    <3> QED BY <3>1, <3>2, OtherStep
  <2>2. ASSUME NEW k \in (seq - MaxLookback)..seq, Ledger!FirstPage(k)
        PROVE  Ledger!RecallInvariant'
    <3>1. k \in Int /\ Ledger!Acquire(k, 0) BY <2>2, <2>0 DEF Ledger!FirstPage
    <3> QED BY <3>1, <2>2, PageStep
  <2>3. CASE Ledger!NextPage
    <3>1. Ledger!Acquire(reader.cut, reader.after) /\ reader.phase = "paging"
      BY <2>3 DEF Ledger!NextPage, Ledger!CursorResumes
    <3> QED BY <3>1, <2>0, PageStep
  <2>4. CASE versions' = versions
             /\ reader' \in {reader, Ledger!IdleReader, [reader EXCEPT !.live = FALSE]}
    BY <2>4, <2>0, OtherStep
  <2>5. CASE \/ Ledger!SetAuthority \/ Ledger!ClassifyLegacy \/ Ledger!PromoteLegacy
             \/ Ledger!Abandon \/ Ledger!Expire \/ Ledger!PurgeExpiredRecallCursors
    BY <2>5, <2>4
       DEF Ledger!SetAuthority, Ledger!ClassifyLegacy, Ledger!PromoteLegacy, Ledger!Abandon,
                      Ledger!Expire, Ledger!PurgeExpiredRecallCursors
  <2>6. CASE UNCHANGED Ledger!vars BY <2>6, <2>4 DEF Ledger!vars
  <2> QED BY <2>1, <2>2, <2>3, <2>5, <2>6 DEF Ledger!Next
<1>3. Ledger!RecallInvariant => Ledger!RecallIsTheCut
  <2> SUFFICES ASSUME Ledger!RecallInvariant PROVE Ledger!RecallIsTheCut OBVIOUS
  <2>1. \A v \in versions : v.c \in Ledger!Candidates
    BY DEF Ledger!RecallInvariant, Ledger!PagesTyped
  <2>2. Ledger!SnapshotAdmits(UNION Ledger!Emitted(reader.cut, reader.after), reader.cut)
    BY <2>1, PagesAreAdmitted
  <2>3. PICK k \in Int : k = reader.cut BY DEF Ledger!RecallInvariant, Ledger!PagesTyped
  <2>4. reader.phase = "done" =>
           /\ reader.got = Ledger!VisibleCandidates(k)
           /\ \A e \in Ledger!VisibleEdges("CONTRADICTION", k) :
                ~ {e[1], e[2]} \subseteq reader.served
    BY <2>3 DEF Ledger!RecallInvariant, Ledger!PagesKept
  <2> QED BY <2>2, <2>3, <2>4 DEF Ledger!RecallIsTheCut
<1>4. Ledger!RecallIsTheCut => RecallIsTheCut BY DEF RecallIsTheCut
<1> QED BY <1>1, <1>2, <1>3, <1>4, LedgerRows, PTL DEF Ledger!Spec

-----------------------------------------------------------------------------
(* Evaluation: the withdrawal of support.                                  *)

(* The instance counts as the library does. *)
LEMMA EvaluationCounts ==
  /\ \A S : Evaluation!Cardinality(S) = Cardinality(S)
  /\ \A S : Evaluation!IsFiniteSet(S) = IsFiniteSet(S)
<1>1. ASSUME NEW S PROVE Evaluation!Cardinality(S) = Cardinality(S)
  BY DEF Evaluation!Cardinality, Cardinality
<1>2. ASSUME NEW S PROVE Evaluation!IsFiniteSet(S) = IsFiniteSet(S)
  BY DEF Evaluation!IsFiniteSet, IsFiniteSet
<1> QED BY <1>1, <1>2


(* A work list of any number of turns. *)
SupportTurns(f, roots, k) ==
  f = [n \in 0 .. k |-> IF n = 0 THEN [seen |-> {}, todo |-> roots]
                        ELSE Evaluation!Visit(f[n-1])]

LEMMA TurnsExist ==
  ASSUME NEW roots, NEW k \in Nat PROVE \E f : SupportTurns(f, roots, k)
<1> DEFINE T == {m \in Nat : ~(\E f : SupportTurns(f, roots, m))}
           Start == [seen |-> {}, todo |-> roots]
<1>1. SUFFICES ASSUME T # {} PROVE FALSE
  OBVIOUS
<1>2. PICK m \in T : \A y \in T : m <= y
  <2>1. T \subseteq Nat OBVIOUS
  <2> HIDE DEF T
  <2> QED BY <1>1, <2>1, LeastNumber
<1>3. m \in Nat /\ ~(\E f : SupportTurns(f, roots, m)) OBVIOUS
<1>4. CASE m = 0
  <2> DEFINE g == [n \in 0..0 |-> Start]
  <2>1. SupportTurns(g, roots, 0) BY DEF SupportTurns
  <2> QED BY <2>1, <1>3, <1>4
<1>5. CASE m # 0
  <2>1. m - 1 \in Nat /\ ~(m <= m - 1) BY <1>3, <1>5
  <2>2. PICK f : SupportTurns(f, roots, m - 1) BY <2>1, <1>2
  <2> DEFINE g == [n \in 0..m |-> IF n = m THEN Evaluation!Visit(f[m-1]) ELSE f[n]]
  <2>3. ASSUME NEW n \in 0..m PROVE g[n] = IF n = 0 THEN Start ELSE Evaluation!Visit(g[n-1])
    <3>0. n \in Nat /\ (n # 0 => n - 1 \in 0..m-1 /\ n - 1 \in 0..m /\ n - 1 # m)
      BY <1>3
    <3>1. n # 0 => g[n-1] = f[n-1] BY <3>0
    <3>2. g[n] = IF n = m THEN Evaluation!Visit(f[m-1]) ELSE f[n] OBVIOUS
    <3> HIDE DEF g
    <3>3. CASE n = m BY <3>3, <3>1, <3>2, <1>5
    <3>4. CASE n # m
      <4>1. n \in 0..m-1 BY <3>4, <1>3
      <4>2. f[n] = IF n = 0 THEN Start ELSE Evaluation!Visit(f[n-1])
        BY <4>1, <2>2 DEF SupportTurns
      <4> QED BY <4>2, <3>1, <3>2, <3>4
    <3> QED BY <3>3, <3>4
  <2>4. g = [n \in 0..m |-> g[n]] OBVIOUS
  <2> HIDE DEF g
  <2>5. g = [n \in 0..m |-> IF n = 0 THEN Start ELSE Evaluation!Visit(g[n-1])] BY <2>3, <2>4
  <2>6. SupportTurns(g, roots, m) BY <2>5 DEF SupportTurns
  <2> QED BY <2>6, <1>3
<1> QED BY <1>4, <1>5

LEMMA ClosureByTurns ==
  ASSUME Evaluation!EvaluationAssumption, NEW roots
  PROVE  \E f : /\ SupportTurns(f, roots, Cardinality(Supporters))
                /\ Evaluation!SupportClosure(roots) = f[Cardinality(Supporters)].seen
<1> DEFINE D(g) == SupportTurns(g, roots, Cardinality(Supporters))
<1>1. Evaluation!SupportClosure(roots) = (CHOOSE g : D(g))[Cardinality(Supporters)].seen
  BY EvaluationCounts, Zenon DEF Evaluation!SupportClosure, SupportTurns
<1>2. \E g : D(g)
  BY TurnsExist, FS_CardinalityType, EvaluationCounts DEF Evaluation!EvaluationAssumption
<1> HIDE DEF D
<1>3. D(CHOOSE g : D(g)) BY <1>2, Zenon
<1> QED BY <1>1, <1>3 DEF D

(* What holds of the work list after n turns: the roots and whatever a seen *)
(* candidate supports are seen or to do, and each turn sees one more.       *)
WorkedOff(w, roots, n) ==
  /\ w = [seen |-> w.seen, todo |-> w.todo]
  /\ w.seen \subseteq Supporters /\ w.todo \subseteq Supporters /\ w.seen \cap w.todo = {}
  /\ roots \subseteq w.seen \cup w.todo
  /\ \A a \in w.seen : Evaluation!Dependents(a) \subseteq w.seen \cup w.todo
  /\ w.todo = {} \/ Cardinality(w.seen) = n

LEMMA VisitWorks ==
  ASSUME Evaluation!EvaluationAssumption, NEW roots, NEW n \in Nat, NEW w,
         WorkedOff(w, roots, n)
  PROVE  WorkedOff(Evaluation!Visit(w), roots, n + 1)
<1>1. CASE w.todo = {}
  <2>1. Evaluation!Visit(w) = w BY <1>1 DEF Evaluation!Visit
  <2> QED BY <2>1, <1>1 DEF WorkedOff
<1>2. CASE w.todo # {}
  <2> DEFINE node == CHOOSE x \in w.todo : TRUE
             seen == w.seen \cup {node}
             todo == (w.todo \cup Evaluation!Dependents(node)) \ seen
  <2>1. node \in w.todo
    <3>1. \E x \in w.todo : TRUE BY <1>2
    <3> QED BY <3>1, Zenon
  <2>2. Evaluation!Visit(w) = [seen |-> seen, todo |-> todo] BY <1>2 DEF Evaluation!Visit
  <2> HIDE DEF node
  <2>3. node \in Supporters /\ node \notin w.seen BY <2>1 DEF WorkedOff
  <2>4. Evaluation!Dependents(node) \subseteq Supporters BY DEF Evaluation!Dependents
  <2>5. Cardinality(seen) = n + 1
    <3>1. IsFiniteSet(w.seen)
      BY FS_Subset, EvaluationCounts DEF WorkedOff, Evaluation!EvaluationAssumption
    <3>2. Cardinality(w.seen) = n BY <1>2 DEF WorkedOff
    <3> QED BY <3>1, <3>2, <2>3, FS_AddElement
  <2>6. /\ seen \subseteq Supporters /\ todo \subseteq Supporters /\ seen \cap todo = {}
        /\ roots \subseteq seen \cup todo
    BY <2>3, <2>4 DEF WorkedOff
  <2>7. \A a \in seen : Evaluation!Dependents(a) \subseteq seen \cup todo
    BY <2>1 DEF WorkedOff
  <2> HIDE DEF seen, todo
  <2>8. PICK v : v = Evaluation!Visit(w) OBVIOUS
  <2>9. v = [seen |-> v.seen, todo |-> v.todo] /\ v.seen = seen /\ v.todo = todo BY <2>2, <2>8
  <2>10. WorkedOff(v, roots, n + 1) BY <2>5, <2>6, <2>7, <2>9 DEF WorkedOff
  <2> QED BY <2>8, <2>10
<1> QED BY <1>1, <1>2

(* The closure holds its roots and whatever one of its members supports. *)
LEMMA SupportIsClosed ==
  ASSUME Evaluation!EvaluationAssumption, NEW roots, roots \subseteq Supporters
  PROVE  /\ roots \subseteq Evaluation!SupportClosure(roots)
         /\ \A a \in Evaluation!SupportClosure(roots) :
              Evaluation!Dependents(a) \subseteq Evaluation!SupportClosure(roots)
<1> DEFINE k == Cardinality(Supporters)
<1>0. k \in Nat /\ IsFiniteSet(Supporters)
  BY FS_CardinalityType, EvaluationCounts DEF Evaluation!EvaluationAssumption
<1>1. PICK f : SupportTurns(f, roots, k) /\ Evaluation!SupportClosure(roots) = f[k].seen
  BY ClosureByTurns
<1> HIDE DEF k
<1> DEFINE T == {n \in 0..k : ~WorkedOff(f[n], roots, n)}
<1>2. T = {}
  <2> SUFFICES ASSUME T # {} PROVE FALSE OBVIOUS
  <2>1. T \subseteq Nat BY <1>0
  <2>2. PICK n \in T : \A y \in T : n <= y
    <3> HIDE DEF T
    <3> QED BY <2>1, LeastNumber
  <2>3. n \in 0..k /\ ~WorkedOff(f[n], roots, n) OBVIOUS
  <2>4. CASE n = 0
    <3>1. f[0] = [seen |-> {}, todo |-> roots] BY <1>0, <1>1 DEF SupportTurns
    <3>2. WorkedOff(f[0], roots, 0) BY <3>1, FS_EmptySet DEF WorkedOff
    <3> QED BY <3>2, <2>3, <2>4
  <2>5. CASE n # 0
    <3>1. n - 1 \in 0..k /\ n - 1 \in Nat /\ ~(n <= n - 1) /\ (n - 1) + 1 = n
      BY <2>3, <2>5, <1>0
    <3>2. WorkedOff(f[n-1], roots, n - 1) BY <3>1, <2>2
    <3>3. f[n] = Evaluation!Visit(f[n-1]) BY <2>3, <2>5, <1>1 DEF SupportTurns
    <3>4. PICK w : w = f[n-1] OBVIOUS
    <3>5. WorkedOff(Evaluation!Visit(w), roots, (n - 1) + 1) BY <3>1, <3>2, <3>4, VisitWorks
    <3> QED BY <3>1, <3>3, <3>4, <3>5, <2>3
  <2> QED BY <2>4, <2>5
<1>3. WorkedOff(f[k], roots, k)
  <2>1. k \in 0..k BY <1>0
  <2> QED BY <2>1, <1>2
<1>4. PICK w : w = f[k] OBVIOUS
<1>5. WorkedOff(w, roots, k) /\ Evaluation!SupportClosure(roots) = w.seen BY <1>1, <1>3, <1>4
<1>6. w.todo = {}
  <2> SUFFICES ASSUME w.todo # {} PROVE FALSE OBVIOUS
  <2>1. Cardinality(w.seen) = k /\ w.seen \in SUBSET Supporters BY <1>5 DEF WorkedOff
  <2>2. w.seen = Supporters BY <2>1, <1>0, FS_Subset DEF k
  <2> QED BY <2>2, <1>5 DEF WorkedOff
<1> QED BY <1>5, <1>6 DEF WorkedOff

(* A path of support edges stays in the closure it starts in. *)
LEMMA PathsAreClosed ==
  ASSUME Evaluation!EvaluationAssumption, Evaluation!Held, NEW roots,
         roots \subseteq Supporters, NEW a \in roots, NEW b,
         Evaluation!Supports(a, b)
  PROVE  b \in Evaluation!SupportClosure(roots)
<1>1. PICK n \in 1..Cardinality(Supporters) :
        \E path \in [1..n -> Supporters] :
          /\ path[1] = a /\ path[n] = b
          /\ \A i \in 1..(n - 1) : <<path[i], path[i+1]>> \in supports
  BY EvaluationCounts DEF Evaluation!Supports
<1>2. PICK path \in [1..n -> Supporters] :
          /\ path[1] = a /\ path[n] = b
          /\ \A i \in 1..(n - 1) : <<path[i], path[i+1]>> \in supports
  BY <1>1
<1>3. n \in Nat /\ n >= 1
  BY FS_CardinalityType, EvaluationCounts DEF Evaluation!EvaluationAssumption
<1> DEFINE C == Evaluation!SupportClosure(roots)
           T == {i \in 1..n : path[i] \notin C}
<1>4. roots \subseteq C /\ \A x \in C : Evaluation!Dependents(x) \subseteq C BY SupportIsClosed
<1> HIDE DEF C
<1>5. T = {}
  <2> SUFFICES ASSUME T # {} PROVE FALSE OBVIOUS
  <2>1. T \subseteq Nat OBVIOUS
  <2>2. PICK i \in T : \A y \in T : i <= y
    <3> HIDE DEF T
    <3> QED BY <2>1, LeastNumber
  <2>3. i \in 1..n /\ path[i] \notin C OBVIOUS
  <2>4. i # 1 BY <2>3, <1>2, <1>4
  <2>5. i - 1 \in 1..n /\ i - 1 \in 1..(n-1) /\ ~(i <= i - 1) /\ (i - 1) + 1 = i
    BY <2>3, <2>4, <1>3
  <2>6. path[i-1] \in C BY <2>5, <2>2
  <2>7. <<path[i-1], path[i]>> \in supports BY <2>5, <1>2
  <2>8. path[i] \in Evaluation!Dependents(path[i-1]) BY <2>3, <2>7 DEF Evaluation!Dependents
  <2> QED BY <2>3, <2>6, <2>8, <1>4
<1>6. n \in 1..n BY <1>3
<1> QED BY <1>2, <1>5, <1>6 DEF C

(* What is left of the first n proposals. *)
LeftOf(f, q, fallen, k) ==
  f = [n \in 0 .. k |->
         IF n = 0 THEN <<>>
         ELSE IF q[n].supports \cap fallen = {} THEN Append(f[n-1], q[n]) ELSE f[n-1]]

LEMMA LeftExists ==
  ASSUME NEW q, NEW fallen, NEW k \in Nat PROVE \E f : LeftOf(f, q, fallen, k)
<1> DEFINE T == {m \in Nat : ~(\E f : LeftOf(f, q, fallen, m))}
           Put(s, n) == IF q[n].supports \cap fallen = {} THEN Append(s, q[n]) ELSE s
<1>1. SUFFICES ASSUME T # {} PROVE FALSE
  OBVIOUS
<1>2. PICK m \in T : \A y \in T : m <= y
  <2>1. T \subseteq Nat OBVIOUS
  <2> HIDE DEF T
  <2> QED BY <1>1, <2>1, LeastNumber
<1>3. m \in Nat /\ ~(\E f : LeftOf(f, q, fallen, m)) OBVIOUS
<1>4. CASE m = 0
  <2> DEFINE g == [n \in 0..0 |-> <<>>]
  <2>1. LeftOf(g, q, fallen, 0) BY DEF LeftOf
  <2> QED BY <2>1, <1>3, <1>4
<1>5. CASE m # 0
  <2>1. m - 1 \in Nat /\ ~(m <= m - 1) BY <1>3, <1>5
  <2>2. PICK f : LeftOf(f, q, fallen, m - 1) BY <2>1, <1>2
  <2> DEFINE g == [n \in 0..m |-> IF n = m THEN Put(f[m-1], m) ELSE f[n]]
  <2>3. ASSUME NEW n \in 0..m PROVE g[n] = IF n = 0 THEN <<>> ELSE Put(g[n-1], n)
    <3>0. n \in Nat /\ (n # 0 => n - 1 \in 0..m-1 /\ n - 1 \in 0..m /\ n - 1 # m)
      BY <1>3
    <3>1. n # 0 => g[n-1] = f[n-1] BY <3>0
    <3>2. g[n] = IF n = m THEN Put(f[m-1], m) ELSE f[n] OBVIOUS
    <3> HIDE DEF g, Put
    <3>3. CASE n = m BY <3>3, <3>1, <3>2, <1>5
    <3>4. CASE n # m
      <4>1. n \in 0..m-1 BY <3>4, <1>3
      <4>2. f[n] = IF n = 0 THEN <<>> ELSE Put(f[n-1], n) BY <4>1, <2>2 DEF LeftOf, Put
      <4> QED BY <4>2, <3>1, <3>2, <3>4
    <3> QED BY <3>3, <3>4
  <2>4. g = [n \in 0..m |-> g[n]] OBVIOUS
  <2> HIDE DEF g
  <2>5. g = [n \in 0..m |-> IF n = 0 THEN <<>> ELSE Put(g[n-1], n)]
    <3> HIDE DEF Put
    <3> QED BY <2>3, <2>4
  <2>6. LeftOf(g, q, fallen, m) BY <2>5 DEF LeftOf
  <2> QED BY <2>6, <1>3
<1> QED BY <1>4, <1>5

(* The proposals left are proposals, and none rests on what fell. *)
LEMMA StandingStands ==
  ASSUME NEW P, proposals \in Seq(P), NEW fallen
  PROVE  /\ Evaluation!Standing(fallen) \in Seq(P)
         /\ \A j \in 1..Len(Evaluation!Standing(fallen)) :
              Evaluation!Standing(fallen)[j].supports \cap fallen = {}
<1>0. Len(proposals) \in Nat OBVIOUS
<1>1. PICK q : q = proposals OBVIOUS
<1>2. PICK f : LeftOf(f, q, fallen, Len(q)) /\ Evaluation!Standing(fallen) = f[Len(q)]
  <2> DEFINE D(g) == LeftOf(g, proposals, fallen, Len(proposals))
  <2>1. Evaluation!Standing(fallen) = (CHOOSE g : D(g))[Len(proposals)]
    BY Zenon DEF Evaluation!Standing, LeftOf
  <2>2. \E g : D(g) BY <1>0, LeftExists
  <2> HIDE DEF D
  <2>3. D(CHOOSE g : D(g)) BY <2>2, Zenon
  <2>4. PICK g : g = (CHOOSE h : D(h)) OBVIOUS
  <2>5. D(g) /\ Evaluation!Standing(fallen) = g[Len(proposals)] BY <2>1, <2>3, <2>4
  <2> QED BY <2>5, <1>1 DEF D
<1>3. q \in Seq(P) /\ Len(q) \in Nat BY <1>0, <1>1
<1> DEFINE Good(s) == s \in Seq(P) /\ \A j \in 1..Len(s) : s[j].supports \cap fallen = {}
           T == {n \in 0..Len(q) : ~Good(f[n])}
<1>4. T = {}
  <2> SUFFICES ASSUME T # {} PROVE FALSE OBVIOUS
  <2>1. T \subseteq Nat OBVIOUS
  <2>2. PICK n \in T : \A y \in T : n <= y
    <3> HIDE DEF T
    <3> QED BY <2>1, LeastNumber
  <2>3. n \in 0..Len(q) /\ ~Good(f[n]) OBVIOUS
  <2>4. CASE n = 0
    <3>1. f[0] = <<>> BY <1>2, <1>3 DEF LeftOf
    <3>2. <<>> \in Seq(P) /\ 1..Len(<<>>) = {} OBVIOUS
    <3> QED BY <3>1, <3>2, <2>3, <2>4
  <2>5. CASE n # 0
    <3>1. n - 1 \in 0..Len(q) /\ ~(n <= n - 1) /\ n \in 1..Len(q) BY <2>3, <2>5, <1>3
    <3>2. Good(f[n-1]) BY <3>1, <2>2
    <3>3. f[n] = IF q[n].supports \cap fallen = {} THEN Append(f[n-1], q[n]) ELSE f[n-1]
      BY <2>3, <2>5, <1>2 DEF LeftOf
    <3>4. PICK s, e : s = f[n-1] /\ e = q[n] OBVIOUS
    <3>5. s \in Seq(P) /\ e \in P /\ Good(s) BY <3>1, <3>2, <3>4, <1>3
    <3>6. CASE e.supports \cap fallen = {}
      <4>1. f[n] = Append(s, e) BY <3>3, <3>4, <3>6
      <4>2. /\ Append(s, e) \in Seq(P) /\ Len(Append(s, e)) = Len(s) + 1 /\ Len(s) \in Nat
            /\ \A j \in 1..Len(s) : Append(s, e)[j] = s[j]
            /\ Append(s, e)[Len(s) + 1] = e
        BY <3>5
      <4>3. ASSUME NEW j \in 1..(Len(s) + 1) PROVE Append(s, e)[j].supports \cap fallen = {}
        <5>1. CASE j \in 1..Len(s) BY <5>1, <4>2, <3>5
        <5>2. CASE j = Len(s) + 1 BY <5>2, <4>2, <3>6
        <5> QED BY <5>1, <5>2, <4>2
      <4>4. Good(Append(s, e)) BY <4>2, <4>3
      <4> QED BY <4>1, <4>4, <2>3
    <3>7. CASE e.supports \cap fallen # {}
      <4>1. f[n] = s BY <3>3, <3>4, <3>7
      <4> QED BY <4>1, <3>5, <2>3
    <3> QED BY <3>6, <3>7
  <2> QED BY <2>4, <2>5
<1>5. Good(f[Len(q)])
  <2>1. Len(q) \in 0..Len(q) BY <1>3
  <2> HIDE DEF Good
  <2> QED BY <2>1, <1>4
<1> QED BY <1>2, <1>5

-----------------------------------------------------------------------------
(* What the property says of the projections. *)
ProjectionsAllowed == \A i \in 1..Len(projections) :
               /\ projections[i].dest \in EnabledRoutes \cup {Evaluation!Local}
               /\ projections[i].withheld => projections[i].dest = Evaluation!Local

LEMMA HeldParts ==
  ASSUME Evaluation!EvaluationInvariant
  PROVE  /\ Evaluation!Held /\ ProjectionsAllowed
         /\ Len(proposals) \in Nat /\ Len(projections) \in Nat
         /\ \A i \in 1..Len(proposals) : proposals[i].via \in EnabledRoutes \cup {Evaluation!Local}
BY DEF Evaluation!EvaluationInvariant, Evaluation!Held, Evaluation!WithdrawalReaches,
   ProjectionsAllowed

LEMMA ReflectionKeeps ==
  ASSUME Evaluation!EvaluationInvariant, NEW s \in SUBSET Supporters, NEW v, NEW m,
         Evaluation!SubmitReflection(s, v, m)
  PROVE  Evaluation!EvaluationInvariant'
<1> DEFINE P == [supports : SUBSET Supporters, via : EnabledRoutes \cup {Evaluation!Local}]
<1>0. Evaluation!Held /\ ProjectionsAllowed BY HeldParts
<1>1. PICK e : e = Evaluation!Proposal(s, v) OBVIOUS
<1>2. e \in P BY <1>1 DEF Evaluation!Proposal, Evaluation!SubmitReflection
<1>3. proposals \in Seq(P) BY <1>0 DEF Evaluation!Held
<1>4. /\ proposals' = Append(proposals, e) /\ taken' = {} /\ supports' = supports
      /\ projections' = projections
  BY <1>1 DEF Evaluation!SubmitReflection
<1> HIDE DEF P
<1>5. proposals' \in Seq(P) BY <1>2, <1>3, <1>4
<1>6. Evaluation!Held' BY <1>0, <1>4, <1>5 DEF Evaluation!Held, P
<1>7. \A i \in 1..Len(proposals') : proposals'[i].via \in EnabledRoutes \cup {Evaluation!Local}
  <2> SUFFICES ASSUME NEW i \in 1..Len(proposals')
               PROVE  proposals'[i].via \in EnabledRoutes \cup {Evaluation!Local}
    OBVIOUS
  <2>1. PICK x : x = proposals'[i] OBVIOUS
  <2>2. x \in P BY <1>5, <2>1
  <2>3. x.via \in EnabledRoutes \cup {Evaluation!Local} BY <2>2 DEF P
  <2> QED BY <2>1, <2>3
<1>8. ProjectionsAllowed' BY <1>0, <1>4 DEF ProjectionsAllowed
<1>9. Evaluation!WithdrawalReaches'
  BY <1>4, <1>7, <1>8 DEF Evaluation!WithdrawalReaches, ProjectionsAllowed
<1> QED BY <1>6, <1>9 DEF Evaluation!EvaluationInvariant

LEMMA WithdrawalKeeps ==
  ASSUME Evaluation!EvaluationAssumption, Evaluation!EvaluationInvariant,
         NEW roots \in SUBSET Supporters, Evaluation!WithdrawSupport(roots)
  PROVE  Evaluation!EvaluationInvariant'
<1> DEFINE P == [supports : SUBSET Supporters, via : EnabledRoutes \cup {Evaluation!Local}]
<1>0. Evaluation!Held /\ ProjectionsAllowed BY HeldParts
<1>1. PICK fallen : fallen = Evaluation!SupportClosure(roots) OBVIOUS
<1>2. /\ proposals' = Evaluation!Standing(fallen) /\ taken' = roots /\ supports' = supports
      /\ projections' = projections
  BY <1>1 DEF Evaluation!WithdrawSupport
<1>3. proposals \in Seq(P) BY <1>0 DEF Evaluation!Held
<1> HIDE DEF P
<1>4. /\ proposals' \in Seq(P)
      /\ \A j \in 1..Len(proposals') : proposals'[j].supports \cap fallen = {}
  BY <1>2, <1>3, StandingStands
<1>5. Evaluation!Held' BY <1>0, <1>2, <1>4 DEF Evaluation!Held, P
<1>6. \A i \in 1..Len(proposals') : proposals'[i].via \in EnabledRoutes \cup {Evaluation!Local}
  <2> SUFFICES ASSUME NEW i \in 1..Len(proposals')
               PROVE  proposals'[i].via \in EnabledRoutes \cup {Evaluation!Local}
    OBVIOUS
  <2>1. PICK x : x = proposals'[i] OBVIOUS
  <2>2. x \in P BY <1>4, <2>1
  <2>3. x.via \in EnabledRoutes \cup {Evaluation!Local} BY <2>2 DEF P
  <2> QED BY <2>1, <2>3
<1>7. ASSUME NEW i \in 1..Len(proposals'), NEW a \in taken', NEW b \in proposals'[i].supports,
             Evaluation!Supports(a, b)'
      PROVE  FALSE
  <2>1. Evaluation!Supports(a, b) BY <1>2, <1>7, EvaluationCounts DEF Evaluation!Supports
  <2>2. b \in fallen BY <2>1, <1>0, <1>1, <1>2, PathsAreClosed
  <2> QED BY <2>2, <1>4
<1>8. ProjectionsAllowed' BY <1>0, <1>2 DEF ProjectionsAllowed
<1>9. Evaluation!WithdrawalReaches'
  BY <1>6, <1>7, <1>8 DEF Evaluation!WithdrawalReaches, ProjectionsAllowed
<1> QED BY <1>5, <1>9 DEF Evaluation!EvaluationInvariant

(* What leaves the proposals, the edges and the roots alone. *)
LEMMA ProjectionsMove ==
  ASSUME Evaluation!EvaluationInvariant, proposals' = proposals, supports' = supports,
         taken' = taken,
         projections' \in Seq([ref : Supporters, dest : EnabledRoutes \cup {Evaluation!Local},
                               withheld : BOOLEAN]),
         ProjectionsAllowed'
  PROVE  Evaluation!EvaluationInvariant'
<1>1. Evaluation!Held /\ Evaluation!WithdrawalReaches BY DEF Evaluation!EvaluationInvariant
<1>2. Evaluation!Held' BY <1>1 DEF Evaluation!Held
<1>3. ASSUME NEW a, NEW b PROVE Evaluation!Supports(a, b)' = Evaluation!Supports(a, b)
  BY EvaluationCounts DEF Evaluation!Supports
<1>4. \A i \in 1..Len(proposals') :
        /\ \A a \in taken', b \in proposals'[i].supports : ~Evaluation!Supports(a, b)'
        /\ proposals'[i].via \in EnabledRoutes \cup {Evaluation!Local}
  BY <1>1, <1>3 DEF Evaluation!WithdrawalReaches
<1>5. Evaluation!WithdrawalReaches' BY <1>4 DEF Evaluation!WithdrawalReaches, ProjectionsAllowed
<1> QED BY <1>2, <1>5 DEF Evaluation!EvaluationInvariant

LEMMA ProjectionKeeps ==
  ASSUME Evaluation!EvaluationInvariant, NEW c \in Supporters, NEW d,
         Evaluation!PublishProjection(c, d)
  PROVE  Evaluation!EvaluationInvariant'
<1> DEFINE Q == [ref : Supporters, dest : EnabledRoutes \cup {Evaluation!Local},
                 withheld : BOOLEAN]
<1>0. Evaluation!Held /\ ProjectionsAllowed BY HeldParts
<1>1. PICK e : e = Evaluation!Projection(c, d, FALSE) OBVIOUS
<1>2. e \in Q /\ e.withheld = FALSE
  BY <1>1 DEF Evaluation!Projection, Evaluation!PublishProjection
<1>3. projections \in Seq(Q) BY <1>0 DEF Evaluation!Held
<1>4. /\ projections' = Append(projections, e) /\ proposals' = proposals /\ supports' = supports
      /\ taken' = taken
  BY <1>1 DEF Evaluation!PublishProjection
<1> HIDE DEF Q
<1>5. /\ projections' \in Seq(Q) /\ Len(projections') = Len(projections) + 1
      /\ Len(projections) \in Nat
      /\ \A i \in 1..Len(projections) : projections'[i] = projections[i]
      /\ projections'[Len(projections) + 1] = e
  BY <1>2, <1>3, <1>4
<1>6. ProjectionsAllowed'
  <2>1. ASSUME NEW i \in 1..Len(projections')
        PROVE  /\ projections'[i].dest \in EnabledRoutes \cup {Evaluation!Local}
               /\ projections'[i].withheld => projections'[i].dest = Evaluation!Local
    <3>1. CASE i \in 1..Len(projections) BY <3>1, <1>0, <1>5 DEF ProjectionsAllowed
    <3>2. CASE i = Len(projections) + 1
      <4>1. projections'[i] = e BY <3>2, <1>5
      <4> QED BY <4>1, <1>2 DEF Q
    <3> QED BY <3>1, <3>2, <1>5
  <2> QED BY <2>1 DEF ProjectionsAllowed
<1> QED BY <1>4, <1>5, <1>6, ProjectionsMove DEF Q

LEMMA WithholdKeeps ==
  ASSUME Evaluation!EvaluationInvariant, NEW c \in Supporters, Evaluation!WithholdProjection(c)
  PROVE  Evaluation!EvaluationInvariant'
<1> DEFINE Q == [ref : Supporters, dest : EnabledRoutes \cup {Evaluation!Local},
                 withheld : BOOLEAN]
<1>0. Evaluation!Held /\ ProjectionsAllowed BY HeldParts
<1>1. PICK e : e = Evaluation!Projection(c, Evaluation!Local, TRUE) OBVIOUS
<1>2. e \in Q /\ e.dest = Evaluation!Local BY <1>1 DEF Evaluation!Projection
<1>3. projections \in Seq(Q) BY <1>0 DEF Evaluation!Held
<1>4. proposals' = proposals /\ supports' = supports /\ taken' = taken
  BY DEF Evaluation!WithholdProjection
<1>5. PICK i : projections' = [projections EXCEPT ![i] = e]
  BY <1>1 DEF Evaluation!WithholdProjection
<1> HIDE DEF Q
<1>6. /\ projections' \in Seq(Q) /\ Len(projections') = Len(projections)
      /\ \A j \in 1..Len(projections) : projections'[j] \in {projections[j], e}
  <2>1. PICK q : q = projections OBVIOUS
  <2>2. q \in [1..Len(q) -> Q] /\ Len(q) \in Nat BY <2>1, <1>3
  <2>3. projections' = [j \in 1..Len(q) |-> IF j = i THEN e ELSE q[j]]
    BY <2>1, <2>2, <1>5
  <2>4. projections' \in [1..Len(q) -> Q] BY <2>2, <2>3, <1>2
  <2>5. projections' \in Seq(Q) /\ Len(projections') = Len(q) BY <2>2, <2>4
  <2>6. \A j \in 1..Len(q) : projections'[j] \in {q[j], e} BY <2>3
  <2> QED BY <2>1, <2>5, <2>6
<1>7. ProjectionsAllowed'
  <2>1. ASSUME NEW j \in 1..Len(projections')
        PROVE  /\ projections'[j].dest \in EnabledRoutes \cup {Evaluation!Local}
               /\ projections'[j].withheld => projections'[j].dest = Evaluation!Local
    <3>1. CASE projections'[j] = projections[j] BY <3>1, <1>0, <1>6 DEF ProjectionsAllowed
    <3>2. CASE projections'[j] = e BY <3>2, <1>2
    <3> QED BY <3>1, <3>2, <1>6
  <2> QED BY <2>1 DEF ProjectionsAllowed
<1> QED BY <1>4, <1>6, <1>7, ProjectionsMove DEF Q

(***************************************************************************)
(* Once a candidate is withdrawn no proposal is left that rests on it      *)
(* along some path of support edges, cycles included, and nothing names a  *)
(* route that the scope does not enable, for any finite set of candidates  *)
(* and any edges (transitive_support_closure, withdraw_support).           *)
(***************************************************************************)
THEOREM WithdrawalAlwaysReaches ==
  ASSUME Evaluation!EvaluationAssumption PROVE Evaluation!Spec => []WithdrawalReaches
<1>1. Evaluation!Init => Evaluation!EvaluationInvariant
  <2> SUFFICES ASSUME Evaluation!Init PROVE Evaluation!EvaluationInvariant OBVIOUS
  <2>1. proposals = <<>> /\ projections = <<>> /\ supports = {} /\ taken = {}
    BY DEF Evaluation!Init
  <2>2. Len(proposals) = 0 /\ Len(projections) = 0 /\ 1..0 = {} BY <2>1
  <2>3. Evaluation!Held BY <2>1 DEF Evaluation!Held
  <2>4. Evaluation!WithdrawalReaches BY <2>2 DEF Evaluation!WithdrawalReaches
  <2> QED BY <2>3, <2>4 DEF Evaluation!EvaluationInvariant
<1>2. Evaluation!EvaluationInvariant /\ [Evaluation!Next]_Evaluation!vars
      => Evaluation!EvaluationInvariant'
  <2> SUFFICES ASSUME Evaluation!EvaluationInvariant, [Evaluation!Next]_Evaluation!vars
               PROVE  Evaluation!EvaluationInvariant'
    OBVIOUS
  <2>0. Evaluation!Held /\ ProjectionsAllowed BY HeldParts
  <2>1. ASSUME proposals' = proposals, supports' = supports, taken' = taken,
               projections' = projections
        PROVE  Evaluation!EvaluationInvariant'
    <3>1. ProjectionsAllowed' BY <2>0, <2>1 DEF ProjectionsAllowed
    <3> QED BY <2>0, <2>1, <3>1, ProjectionsMove DEF Evaluation!Held
  <2>2. ASSUME NEW c \in Digests, Evaluation!Serve(c) PROVE Evaluation!EvaluationInvariant'
    BY <2>1, <2>2 DEF Evaluation!Serve
  <2>3. CASE Evaluation!ProveIsolation BY <2>1, <2>3 DEF Evaluation!ProveIsolation
  <2>4. ASSUME NEW a \in Supporters, NEW b \in Supporters, Evaluation!RegisterSupportEdge(a, b)
        PROVE  Evaluation!EvaluationInvariant'
    <3>1. /\ supports' = supports \cup {<<a, b>>} /\ taken' = {} /\ proposals' = proposals
          /\ projections' = projections
      BY <2>4 DEF Evaluation!RegisterSupportEdge
    <3>2. Evaluation!Held' BY <2>0, <3>1 DEF Evaluation!Held
    <3>3. ProjectionsAllowed' BY <2>0, <3>1 DEF ProjectionsAllowed
    <3>4. \A i \in 1..Len(proposals') : proposals'[i].via \in EnabledRoutes \cup {Evaluation!Local}
      BY <3>1, HeldParts
    <3>5. Evaluation!WithdrawalReaches'
      BY <3>1, <3>3, <3>4 DEF Evaluation!WithdrawalReaches, ProjectionsAllowed
    <3> QED BY <3>2, <3>5 DEF Evaluation!EvaluationInvariant
  <2>5. CASE UNCHANGED Evaluation!vars BY <2>1, <2>5 DEF Evaluation!vars
  <2> QED BY <2>2, <2>3, <2>4, <2>5, ReflectionKeeps, WithdrawalKeeps,
             ProjectionKeeps, WithholdKeeps
             DEF Evaluation!Next
<1>3. Evaluation!EvaluationInvariant => Evaluation!WithdrawalReaches
  BY DEF Evaluation!EvaluationInvariant
<1>4. Evaluation!WithdrawalReaches => WithdrawalReaches BY DEF WithdrawalReaches
<1> QED BY <1>1, <1>2, <1>3, <1>4, PTL DEF Evaluation!Spec

=============================================================================
