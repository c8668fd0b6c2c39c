--------------------------- MODULE PublisherLease ---------------------------
(***************************************************************************)
(* The single-publisher lease of the control plane (controlplane.py) as    *)
(* Workspace.ingest_and_publish and admin_revoke use it (workspace.py).    *)
(* A publisher reads the clock, acquires the lease in one transaction that *)
(* may run later, publishes for as long as it takes, and releases the      *)
(* lease.  Nothing looks at the fencing token again.                       *)
(***************************************************************************)
EXTENDS Naturals

CONSTANTS
  Holders,   \* lease holders, one per Workspace instance
  NoHolder,  \* holder IS NULL
  TTL,       \* LEASE_TTL
  MaxClock,  \* bound: the clock stops here
  MaxToken   \* bound: acquisitions that bump the fencing token

ASSUME LeaseAssumption ==
  /\ NoHolder \notin Holders
  /\ TTL \in Nat \ {0}
  /\ MaxClock \in Nat
  /\ MaxToken \in Nat

VARIABLES
  clock,      \* wall-clock seconds
  lease,      \* the row publisher_lease: holder, expires_at, fencing_token
  publisher   \* per holder: pc, the clock value it read, its fencing token

vars == <<clock, lease, publisher>>

\* A holder that is not running a publication.
Idle == [pc |-> "idle", now |-> 0, token |-> 0]

Init ==
  /\ clock = 0
  /\ lease = [holder |-> NoHolder, expires |-> 0, token |-> 0]
  /\ publisher = [h \in Holders |-> Idle]

\* now = int(time.time()), before the transaction begins.
ReadClock(h) ==
  /\ publisher[h].pc = "idle"
  /\ publisher' = [publisher EXCEPT ![h].pc = "acquiring", ![h].now = clock]
  /\ UNCHANGED <<clock, lease>>

Expired(now) == lease.expires <= now

\* Another holder's lease is live at the caller's time.
HeldByOther(h, now) == lease.holder \notin {NoHolder, h} /\ ~Expired(now)

\* Mutant: the takeover of an expired lease keeps the token.
Mut_NewToken(h, now) ==
  IF lease.holder # NoHolder THEN lease.token ELSE lease.token + 1

\* A renewal by the live holder keeps its token, any other acquisition bumps it.
NewToken(h, now) ==
  IF lease.holder = h /\ ~Expired(now) THEN lease.token ELSE lease.token + 1

\* Mutant: the lease runs twice as long.
Mut_AcquireLease(h) ==
  LET now == publisher[h].now
  IN /\ publisher[h].pc = "acquiring"
     /\ ~HeldByOther(h, now)
     /\ NewToken(h, now) <= MaxToken
     /\ lease' = [holder |-> h, expires |-> now + 2 * TTL,
                  token |-> NewToken(h, now)]
     /\ publisher' = [publisher EXCEPT ![h].pc = "publishing",
                                       ![h].token = NewToken(h, now)]
     /\ UNCHANGED clock

\* acquire_lease succeeds.
AcquireLease(h) ==
  LET now == publisher[h].now
  IN /\ publisher[h].pc = "acquiring"
     /\ ~HeldByOther(h, now)
     /\ NewToken(h, now) <= MaxToken
     /\ lease' = [holder |-> h, expires |-> now + TTL, token |-> NewToken(h, now)]
     /\ publisher' = [publisher EXCEPT ![h].pc = "publishing",
                                       ![h].token = NewToken(h, now)]
     /\ UNCHANGED clock

\* acquire_lease returns None: the call raises LeaseError.
RefuseLease(h) ==
  /\ publisher[h].pc = "acquiring"
  /\ HeldByOther(h, publisher[h].now)
  /\ publisher' = [publisher EXCEPT ![h] = Idle]
  /\ UNCHANGED <<clock, lease>>

\* Mutant: the row is cleared whoever it names.
Mut_ReleaseLease(h) ==
  /\ publisher[h].pc = "publishing"
  /\ lease' = [lease EXCEPT !.holder = NoHolder, !.expires = 0]
  /\ publisher' = [publisher EXCEPT ![h] = Idle]
  /\ UNCHANGED clock

\* The publication ends, normally or not, and release_lease runs in the
\* finally clause: it clears the row only where it still names the caller.
ReleaseLease(h) ==
  /\ publisher[h].pc = "publishing"
  /\ lease' = IF lease.holder = h
              THEN [lease EXCEPT !.holder = NoHolder, !.expires = 0]
              ELSE lease
  /\ publisher' = [publisher EXCEPT ![h] = Idle]
  /\ UNCHANGED clock

\* The process dies while it holds, or waits for, the lease.  The same
\* holder name is used again only when the caller passes one.
Crash(h) ==
  /\ publisher[h].pc # "idle"
  /\ publisher' = [publisher EXCEPT ![h] = Idle]
  /\ UNCHANGED <<clock, lease>>

Tick ==
  /\ clock < MaxClock
  /\ clock' = clock + 1
  /\ UNCHANGED <<lease, publisher>>

Acquire(h) == AcquireLease(h) \/ RefuseLease(h)

Next ==
  \/ \E h \in Holders : ReadClock(h) \/ Acquire(h) \/ ReleaseLease(h) \/ Crash(h)
  \/ Tick

Spec == Init /\ [][Next]_vars

-----------------------------------------------------------------------------
(* Properties                                                              *)

\* Types of the lease row, the clock and the publishers' memory.
TypeOK ==
  /\ clock \in 0 .. MaxClock
  /\ lease \in [holder : Holders \cup {NoHolder}, expires : 0 .. MaxClock + TTL,
                token : 0 .. MaxToken]
  /\ publisher \in [Holders -> [pc : {"idle", "acquiring", "publishing"},
                                now : 0 .. MaxClock, token : 0 .. MaxToken]]

\* Publishers that overlap hold different fencing tokens, the newest in the
\* row: a token check at activation could tell them apart (the lease row of a
\* publisher that outlived its lease has moved on).
TokensDistinct ==
  \A h, k \in Holders :
    publisher[h].pc = "publishing" /\ publisher[k].pc = "publishing" /\ h # k =>
      publisher[h].token # publisher[k].token

\* The row cannot be lost to another publisher while it is live: whoever
\* publishes with the newest token is the holder named in the row.
NewestTokenHolds ==
  \A h \in Holders :
    publisher[h].pc = "publishing" /\ publisher[h].token = lease.token =>
      lease.holder = h

\* No publisher has a token that was not handed out.
TokensIssued ==
  \A h \in Holders : publisher[h].pc = "publishing" => publisher[h].token <= lease.token

\* The inductive invariant behind TokensDistinct.
LeaseInvariant == TypeOK /\ TokensIssued /\ NewestTokenHolds /\ TokensDistinct

\* The clock value an acquisition uses was read before.
ClockIsRead ==
  \A h \in Holders : publisher[h].pc = "acquiring" => publisher[h].now <= clock

\* A live lease changes hands only when its holder releases it: neither an
\* acquisition with a stale clock value nor the finally clause of a publisher
\* that outlived its own lease takes it away.
LiveLeaseIsStable ==
  [][\A h \in Holders :
       lease.holder = h /\ clock < lease.expires /\ lease'.holder # h =>
         publisher[h].pc = "publishing" /\ publisher'[h].pc = "idle"]_vars
=============================================================================
