------------------------- MODULE SecondBrainAccess -------------------------
(***************************************************************************)
(* The three Stage-1 gates of the Second Brain:                            *)
(*                                                                         *)
(*  credential  devices, delegations and one-time capabilities             *)
(*              (memory_core/second_brain_capabilities.py over             *)
(*              infrastructure/capability_store.py), spent at the          *)
(*              credential broker (infrastructure/credential_broker.py);   *)
(*  egress      receipts of the egress authority store and the local-first *)
(*              egress policy (memory_core/second_brain_egress.py);        *)
(*  source      consent and retention (memory_core/second_brain_consent.py)*)
(*              around the fixture sandbox (infrastructure/                *)
(*              source_sandbox.py).                                        *)
(*                                                                         *)
(* The gates share the Stage-0 authority and the clock and nothing else,   *)
(* so a behaviour uses one of them.  One trust root.  Each call of a store *)
(* is atomic (one lock); a service makes several.                          *)
(***************************************************************************)
EXTENDS Integers, Sequences, FiniteSetsExt

CONSTANTS Gates,       \* the gates in use
          Caps,        \* capability references
          Callers,     \* threads that issue and consume capabilities
          Entries,     \* fixtures of the one verified source manifest
          MaxTime,     \* bound on the clock
          MaxRevoke,   \* bound on device revocations
          MaxReceipts, \* bound on the egress receipts minted
          MaxEpoch     \* bound on the consent and retention epochs

VARIABLES gate, clock, authority, device, epoch, delegated, caps, receipts, secret, calls,
          handed, egress, current, sending, sent, consent, retention, sandbox, items, served

credentialVars == <<device, epoch, delegated, caps, receipts, secret, calls, handed>>
egressVars == <<egress, current, sending, sent>>
sourceVars == <<consent, retention, sandbox, items, served>>
vars == <<gate, clock, authority, credentialVars, egressVars, sourceVars>>

Times == 1..MaxTime
None == [kind |-> "none"]
Idle == [phase |-> "idle"]

(***************************************************************************)
(* SecurityContextAuthority.require: the decisions it was minted from are  *)
(* resolved again on every call, and expire together here.                 *)
(***************************************************************************)
Required == clock < authority.expires

RouteEnabled == Required /\ authority.routeGo

Init ==
    /\ gate \in Gates
    /\ clock = 0
    /\ authority \in [expires : {MaxTime}, routeGo : IF gate = "egress" THEN BOOLEAN ELSE {TRUE}]
    /\ device = 0
    /\ epoch = 0
    /\ delegated = 0
    /\ caps = [c \in Caps |-> None]
    /\ receipts = [c \in Caps |-> "none"]
    /\ secret = TRUE
    /\ calls = [t \in Callers |-> Idle]
    /\ handed = {}
    /\ egress = <<>>
    /\ current = None
    /\ sending = Idle
    /\ sent = {}
    /\ consent = [epoch |-> 1, enabled |-> TRUE, expires |-> MaxTime, max |-> 2]
    /\ retention = [epoch |-> 1, enabled |-> TRUE, expires |-> MaxTime, max |-> 2]
    /\ sandbox = Idle
    /\ items = {}
    /\ served = {}

Tick ==
    /\ clock < MaxTime
    /\ clock' = clock + 1
    /\ UNCHANGED <<gate, authority, credentialVars, egressVars, sourceVars>>

(***************************************************************************)
(* Devices and delegations.  device is the expiry of the one device, 0     *)
(* while it is not enrolled; delegated the expiry of the reviewer's grant. *)
(***************************************************************************)
Enroll(expires) ==
    /\ gate = "credential" /\ Required
    /\ clock < expires
    /\ device' = expires
    /\ UNCHANGED <<gate, clock, authority, epoch, delegated, caps, receipts, secret, calls, handed,
                   egressVars, sourceVars>>

RevokeDevice ==
    /\ gate = "credential" /\ Required
    /\ device # 0
    /\ epoch < MaxRevoke
    /\ device' = 0
    /\ epoch' = epoch + 1
    /\ UNCHANGED <<gate, clock, authority, delegated, caps, receipts, secret, calls, handed,
                   egressVars, sourceVars>>

Delegate(expires) ==
    /\ gate = "credential" /\ Required
    /\ clock < expires
    /\ delegated' = expires
    /\ UNCHANGED <<gate, clock, authority, device, epoch, caps, receipts, secret, calls, handed,
                   egressVars, sourceVars>>

(***************************************************************************)
(* CapabilityService.issue: root, device and delegations are read first,   *)
(* the revocation epoch when the grant is built; save_capability refuses a *)
(* reference that exists.                                                  *)
(***************************************************************************)
ActorAuthorized(actor) == actor = "owner" \/ delegated > clock

IssueRead(t, c, actor, expires) ==
    /\ gate = "credential" /\ Required
    /\ calls[t] = Idle
    /\ device > clock
    /\ expires > clock
    /\ ActorAuthorized(actor)
    /\ calls' = [calls EXCEPT ![t] = [phase |-> "issue", cap |-> c, expires |-> expires]]
    /\ UNCHANGED <<gate, clock, authority, device, epoch, delegated, caps, receipts, secret, handed,
                   egressVars, sourceVars>>

IssueSave(t) ==
    LET c == calls[t].cap
    IN /\ calls[t].phase = "issue"
       /\ caps' = IF caps[c] # None THEN caps
                  ELSE [caps EXCEPT ![c] =
                          [kind |-> "grant", epoch |-> epoch, expires |-> calls[t].expires]]
       /\ calls' = [calls EXCEPT ![t] = Idle]
       /\ UNCHANGED <<gate, clock, authority, device, epoch, delegated, receipts, secret, handed,
                      egressVars, sourceVars>>

(***************************************************************************)
(* consume_for_credential: device, epoch and expiry are checked first,     *)
(* compare_consume is one atomic step of the store.  The circuit breaker   *)
(* and the retry budget it asks before are in module Backpressure.         *)
(***************************************************************************)
NotRevoked(c) == device # 0 /\ caps[c].epoch = epoch

ConsumeCheck(t, c) ==
    /\ gate = "credential" /\ Required
    /\ calls[t] = Idle
    /\ caps[c] # None
    /\ NotRevoked(c)
    /\ clock < caps[c].expires
    /\ calls' = [calls EXCEPT ![t] = [phase |-> "checked", cap |-> c, epoch |-> epoch]]
    /\ UNCHANGED <<gate, clock, authority, device, epoch, delegated, caps, receipts, secret, handed,
                   egressVars, sourceVars>>

Mut_CompareConsume(t) ==
    LET c == calls[t].cap
    IN /\ calls[t].phase = "checked"
       /\ receipts' = [receipts EXCEPT ![c] = "minted"]
       /\ calls' = [calls EXCEPT ![t] = [phase |-> "receipt", cap |-> c, epoch |-> @.epoch]]
       /\ UNCHANGED <<gate, clock, authority, device, epoch, delegated, caps, secret, handed,
                      egressVars, sourceVars>>

CompareConsume(t) ==
    LET c == calls[t].cap
        first == receipts[c] = "none"
    IN /\ calls[t].phase = "checked"
       /\ receipts' = IF first THEN [receipts EXCEPT ![c] = "minted"] ELSE receipts
       /\ calls' = [calls EXCEPT ![t] =
                      IF first THEN [phase |-> "receipt", cap |-> c, epoch |-> @.epoch] ELSE Idle]
       /\ UNCHANGED <<gate, clock, authority, device, epoch, delegated, caps, secret, handed,
                      egressVars, sourceVars>>

(***************************************************************************)
(* LocalCredentialBroker.lease: the receipt is spent before anything else  *)
(* is checked; the resolver's fixture is one-shot as well.  The policy of  *)
(* the credential binds its action and device and expires after the run.   *)
(***************************************************************************)
Lease(t) ==
    LET c == calls[t].cap
        good == receipts[c] = "minted" /\ clock < caps[c].expires /\ secret
    IN /\ calls[t].phase = "receipt"
       /\ receipts' = [receipts EXCEPT ![c] = "redeemed"]
       /\ secret' = IF good THEN FALSE ELSE secret
       /\ handed' = IF ~good THEN handed
                    ELSE handed \cup {[cap |-> c, by |-> t, epoch |-> calls[t].epoch, at |-> clock]}
       /\ calls' = [calls EXCEPT ![t] = Idle]
       /\ UNCHANGED <<gate, clock, authority, device, epoch, delegated, caps,
                      egressVars, sourceVars>>

\* The operator provisions the fixture again.
Provision ==
    /\ gate = "credential"
    /\ ~secret
    /\ secret' = TRUE
    /\ UNCHANGED <<gate, clock, authority, device, epoch, delegated, caps, receipts, calls, handed,
                   egressVars, sourceVars>>

(***************************************************************************)
(* Egress.  A receipt records the policy and retention revisions it was    *)
(* minted with; minting also makes them the current ones.                  *)
(***************************************************************************)
MintReceipt(policy, ret, until) ==
    /\ gate = "egress" /\ RouteEnabled
    /\ Len(egress) < MaxReceipts
    /\ egress' = Append(egress, [policy |-> policy, ret |-> ret, until |-> until])
    /\ current' = [kind |-> "revisions", policy |-> policy, ret |-> ret]
    /\ UNCHANGED <<gate, clock, authority, credentialVars, sending, sent, sourceVars>>

\* _load_current: the receipt's revisions are the current ones.
LoadCurrent(i) == egress[i].policy = current.policy /\ egress[i].ret = current.ret

\* LocalFirstEgressPolicy.authorize, the first half of invoke.
Authorize(i) ==
    /\ gate = "egress" /\ RouteEnabled
    /\ sending = Idle
    /\ LoadCurrent(i)
    /\ clock < egress[i].until
    /\ sending' = [phase |-> "authorized", id |-> i, at |-> clock, revisions |-> current]
    /\ UNCHANGED <<gate, clock, authority, credentialVars, egress, current, sent, sourceVars>>

Operate ==
    /\ sending.phase = "authorized"
    /\ sent' = sent \cup {[id |-> sending.id, at |-> sending.at, revisions |-> sending.revisions]}
    /\ sending' = Idle
    /\ UNCHANGED <<gate, clock, authority, credentialVars, egress, current, sourceVars>>

(***************************************************************************)
(* Consent and retention are replaced by their owners with the next epoch. *)
(***************************************************************************)
Replacements(old) ==
    [epoch : {old.epoch + 1}, enabled : BOOLEAN, expires : Times, max : {1, 2}]

ReplaceConsent(new) ==
    /\ gate = "source"
    /\ consent.epoch < MaxEpoch
    /\ consent' = new
    /\ UNCHANGED <<gate, clock, authority, credentialVars, egressVars, retention, sandbox, items, served>>

ReplaceRetention(new) ==
    /\ gate = "source"
    /\ retention.epoch < MaxEpoch
    /\ retention' = new
    /\ UNCHANGED <<gate, clock, authority, credentialVars, egressVars, consent, sandbox, items, served>>

\* _authorize_current, for data of sensitivity rank s.
AuthorizeCurrent(s) ==
    /\ consent.enabled /\ retention.enabled
    /\ clock < consent.expires /\ clock < retention.expires
    /\ s <= consent.max /\ s <= retention.max

(***************************************************************************)
(* FixtureSourceSandbox.read: consent is checked once, then the entries of *)
(* the manifest are read one by one; any entry that is too large, late or  *)
(* not the verified content quarantines the whole read.                    *)
(***************************************************************************)
SandboxStart(s) ==
    /\ gate = "source"
    /\ sandbox = Idle
    /\ AuthorizeCurrent(s)
    /\ sandbox' = [phase |-> "reading", left |-> Entries, rank |-> s,
                   consent |-> consent.epoch, retention |-> retention.epoch]
    /\ UNCHANGED <<gate, clock, authority, credentialVars, egressVars, consent, retention, items, served>>

ReadEntry(e, verified) ==
    /\ sandbox.phase = "reading"
    /\ e \in sandbox.left
    /\ sandbox' = IF verified THEN [sandbox EXCEPT !.left = @ \ {e}] ELSE Idle
    /\ UNCHANGED <<gate, clock, authority, credentialVars, egressVars, consent, retention, items, served>>

\* The capture built from an accepted result; a later one may not lower the class.
AcceptCapture ==
    /\ sandbox.phase = "reading"
    /\ sandbox.left = {}
    /\ sandbox' = Idle
    /\ items' = IF \E x \in items : x.rank > sandbox.rank THEN items
                ELSE {[entry |-> e, rank |-> sandbox.rank, consent |-> sandbox.consent,
                       retention |-> sandbox.retention] : e \in Entries}
    /\ UNCHANGED <<gate, clock, authority, credentialVars, egressVars, consent, retention, served>>

\* authorize_serve: the epochs of the capture must still be the current ones.
Serve(x) ==
    /\ gate = "source"
    /\ AuthorizeCurrent(x.rank)
    /\ x.consent = consent.epoch /\ x.retention = retention.epoch
    /\ served' = {[item |-> x, max |-> Min({consent.max, retention.max}),
                 consent |-> consent.epoch, retention |-> retention.epoch]}
    /\ UNCHANGED <<gate, clock, authority, credentialVars, egressVars, consent, retention, sandbox, items>>

Next ==
    \/ Tick
    \/ \E expires \in Times : Enroll(expires) \/ Delegate(expires)
    \/ RevokeDevice
    \/ \E t \in Callers :
           \/ \E c \in Caps, actor \in {"owner", "reviewer"}, expires \in Times :
                  IssueRead(t, c, actor, expires)
           \/ IssueSave(t)
           \/ \E c \in Caps : ConsumeCheck(t, c)
           \/ CompareConsume(t)
           \/ Lease(t)
    \/ Provision
    \/ \E policy, ret \in 1..2, until \in Times : MintReceipt(policy, ret, until)
    \/ \E i \in DOMAIN egress : Authorize(i)
    \/ Operate
    \/ \E new \in Replacements(consent) : ReplaceConsent(new)
    \/ \E new \in Replacements(retention) : ReplaceRetention(new)
    \/ \E s \in {1, 2} : SandboxStart(s)
    \/ \E e \in Entries, verified \in BOOLEAN : ReadEntry(e, verified)
    \/ AcceptCapture
    \/ \E x \in items : Serve(x)

Spec == Init /\ [][Next]_vars

(***************************************************************************)
(* Properties.                                                             *)
(***************************************************************************)

\* A capability is worth one secret.
SecretsAreOnce == \A g, h \in handed : g.cap = h.cap => g = h

\* The call that obtained a secret began when its grant had not been revoked.
SecretIsGranted(h) ==
    caps[h.cap] # None /\ h.epoch = caps[h.cap].epoch /\ h.at < caps[h.cap].expires

\* What was sent, or is about to be, goes under the revisions of its receipt.
SentUnderReceipt(s) ==
    /\ s.id \in DOMAIN egress
    /\ egress[s.id].policy = s.revisions.policy /\ egress[s.id].ret = s.revisions.ret
    /\ s.at < egress[s.id].until

\* What is served was captured under the epochs current when it is served.
ServedIsAllowed(v) ==
    /\ v.item.rank <= v.max
    /\ v.item.consent = v.consent /\ v.item.retention = v.retention

\* Nothing is given out on a stale authorization.  A capability is worth one
\* secret, whatever number of callers race to spend it and however often its
\* fixture is provisioned; the call that obtained the secret began when no
\* revocation had followed the grant, so re-enrolling a revoked device revives no
\* old capability; and the grant had not expired.  Data leaves only under the
\* policy and retention revisions of its own receipt.  What is served was read
\* whole, under the consent and retention epochs current when it is served.
AccessIsEarned ==
    /\ SecretsAreOnce
    /\ \A h \in handed : SecretIsGranted(h)
    /\ \A s \in sent : SentUnderReceipt(s)
    /\ \A v \in served : ServedIsAllowed(v)
    /\ items # {} => {x.entry : x \in items} = Entries

AccessAssumption == MaxTime \in Nat

GrantRows == [kind : {"grant"}, epoch : Nat, expires : Times]
Calls == [phase : {"issue"}, cap : Caps, expires : Times]
             \cup [phase : {"checked", "receipt"}, cap : Caps, epoch : Nat]
OwnerChoices == [epoch : Nat, enabled : BOOLEAN, expires : Nat, max : {1, 2}]
Captured == [entry : Entries, rank : {1, 2}, consent : Nat, retention : Nat]
Reads == [phase : {"reading"}, left : SUBSET Entries, rank : {1, 2}, consent : Nat,
          retention : Nat]

TypeOK ==
    /\ clock \in Nat /\ epoch \in Nat
    /\ caps \in [Caps -> {None} \cup GrantRows]
    /\ receipts \in [Caps -> {"none", "minted", "redeemed"}]
    /\ calls \in [Callers -> {Idle} \cup Calls]
    /\ handed \subseteq [cap : Caps, by : Callers, epoch : Nat, at : Nat]
    /\ egress \in Seq([policy : {1, 2}, ret : {1, 2}, until : Times])
    /\ consent \in OwnerChoices /\ retention \in OwnerChoices
    /\ sandbox \in {Idle} \cup Reads
    /\ items \subseteq Captured

\* A call that passed the checks carries the epoch of its grant, and a receipt
\* is in the hands of one call until it is redeemed.
CallIsEarned(t) ==
    /\ calls[t].phase \in {"checked", "receipt"} =>
          caps[calls[t].cap] # None /\ calls[t].epoch = caps[calls[t].cap].epoch
    /\ calls[t].phase = "receipt" => receipts[calls[t].cap] = "minted"

ReceiptsAreHeldOnce ==
    \A t, u \in Callers :
        (calls[t].phase = "receipt" /\ calls[u].phase = "receipt"
            /\ calls[t].cap = calls[u].cap) => t = u

AccessInvariant ==
    /\ TypeOK
    /\ AccessIsEarned
    /\ \A t \in Callers : CallIsEarned(t)
    /\ ReceiptsAreHeldOnce
    /\ \A h \in handed : receipts[h.cap] = "redeemed"
    /\ sending # Idle => sending.phase = "authorized" /\ SentUnderReceipt(sending)
=============================================================================
