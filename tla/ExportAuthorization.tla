------------------------ MODULE ExportAuthorization ------------------------
(***************************************************************************)
(* One-time authorizations for reading unified-db: a body is issued for a  *)
(* short window, signed by the owner and by an approver, and spent at the  *)
(* nonce database before anything else is checked                          *)
(* (infrastructure/export_authorization_nonce_*.py, applications/          *)
(* unified_db_*_authorization_*.py).  The grant that comes out lives in    *)
(* the memory of one process, is claimed once, and lets a metadata capture *)
(* write one create-only directory of six files                            *)
(* (applications/unified_db_postgres_capture_service.py).  A live export   *)
(* is verified offline against the captured identity                       *)
(* (applications/unified_db_live_export_verify.py) and always refused.     *)
(*                                                                         *)
(* Export and capture authorizations share the database and nothing else;  *)
(* their nonce digests are separated by domain, so an authorization stands *)
(* for its row.  Assumed of the operator: a lost database is restored, not *)
(* created again, and is activated with a floor later than every           *)
(* authorization issued so far.                                            *)
(***************************************************************************)
EXTENDS Integers, FiniteSets, FiniteSetsExt

CONSTANTS Captures,   \* capture authorizations
          Exports,    \* export authorizations
          Procs,      \* processes that verify and capture
          MaxTime,    \* bound on the clock, in minutes
          Window,     \* longest authorization window; also the age limit of evidence
          MaxFiles    \* artifacts of a capture

VARIABLES clock, auths, store, created, backup, procs, dest, quiescence, plan,
          granted, receipts, verified

storeVars == <<store, created, backup>>
liveVars == <<quiescence, plan, verified>>
vars == <<clock, auths, storeVars, procs, dest, liveVars, granted, receipts>>

Auths == Captures \cup Exports
None == [kind |-> "none"]
Idle == [phase |-> "idle"]
Absent == [state |-> "absent"]
Roles == {"owner", "approver"}

Init ==
    /\ clock = 0
    /\ auths = [a \in Auths |-> None]
    /\ store = Absent
    /\ created = FALSE
    /\ backup = Absent
    /\ procs = [p \in Procs |-> Idle]
    /\ dest = None
    /\ quiescence = None
    /\ plan = None
    /\ granted = {}
    /\ receipts = {}
    /\ verified = {}

Tick ==
    /\ clock < MaxTime
    /\ clock' = clock + 1
    /\ UNCHANGED <<auths, storeVars, procs, dest, liveVars, granted, receipts>>

(***************************************************************************)
(* Authorizations.  build_unsigned_capture_authority leaves the plan and   *)
(* output digests zero and refuses a destination that exists; a body       *)
(* written by hand names digests.                                          *)
(***************************************************************************)
DestinationFree == dest = None

\* The two bodies: what they name, and their window.
CaptureBody(digests) ==
    [kind |-> "capture", issued |-> clock, expires |-> clock + Window, digests |-> digests, sigs |-> {}]

ExportBody(digests) ==
    [kind |-> "export", issued |-> clock, expires |-> clock + Window, digests |-> digests, sigs |-> {}]

CreateCapture(a, digests) ==
    /\ auths[a] = None
    /\ DestinationFree
    /\ auths' = [auths EXCEPT ![a] = CaptureBody(digests)]
    /\ UNCHANGED <<clock, storeVars, procs, dest, liveVars, granted, receipts>>

CreateExport(a) ==
    /\ auths[a] = None
    /\ plan # None
    /\ auths' = [auths EXCEPT ![a] = ExportBody(plan)]
    /\ UNCHANGED <<clock, storeVars, procs, dest, liveVars, granted, receipts>>

\* Each role signs the canonical bytes on its own machine, the owner first here.
Sign(a, role) ==
    /\ auths[a] # None
    /\ role = IF auths[a].sigs = {} THEN "owner" ELSE "approver"
    /\ role \notin auths[a].sigs
    /\ auths' = [auths EXCEPT ![a].sigs = @ \cup {role}]
    /\ UNCHANGED <<clock, storeVars, procs, dest, liveVars, granted, receipts>>

(***************************************************************************)
(* The nonce database.  The file is created empty and its schema applied   *)
(* in a later transaction; a file without the schema is corrupt for good.  *)
(***************************************************************************)
Precreate ==
    /\ store = Absent
    /\ ~created
    /\ store' = [state |-> "empty"]
    /\ created' = TRUE
    /\ UNCHANGED <<clock, auths, backup, procs, dest, liveVars, granted, receipts>>

ApplyV1 ==
    /\ store.state = "empty"
    /\ store' = [state |-> "ACTIVE", floor |-> 0, consumed |-> {}]
    /\ UNCHANGED <<clock, auths, created, backup, procs, dest, liveVars, granted, receipts>>

Valid(db) == db.state \in {"ACTIVE", "RESTORE_QUARANTINED"}

\* backup_nonce_store: a validated copy, never over an existing file.
Backup ==
    /\ Valid(store)
    /\ backup = Absent
    /\ backup' = store
    /\ UNCHANGED <<clock, auths, store, created, procs, dest, liveVars, granted, receipts>>

LoseStore ==
    /\ store # Absent
    /\ store' = Absent
    /\ UNCHANGED <<clock, auths, created, backup, procs, dest, liveVars, granted, receipts>>

\* restore_nonce_store: the copy is quarantined before it is linked into place.
Mut_Restore ==
    /\ Valid(backup)
    /\ store = Absent
    /\ store' = backup
    /\ UNCHANGED <<clock, auths, created, backup, procs, dest, liveVars, granted, receipts>>

Restore ==
    /\ Valid(backup)
    /\ store = Absent
    /\ store' = [backup EXCEPT !.state = "RESTORE_QUARANTINED"]
    /\ UNCHANGED <<clock, auths, created, backup, procs, dest, liveVars, granted, receipts>>

\* The operator's floor: later than every authorization issued so far.
FloorIsSafe(floor) == \A a \in Auths : auths[a] # None => auths[a].issued < floor

ActivateRestored(floor) ==
    /\ store.state = "RESTORE_QUARANTINED"
    /\ FloorIsSafe(floor)
    /\ store' = [store EXCEPT !.state = "ACTIVE", !.floor = floor]
    /\ UNCHANGED <<clock, auths, created, backup, procs, dest, liveVars, granted, receipts>>

(***************************************************************************)
(* Verification.  reserve_and_consume inserts the nonce and commits, and   *)
(* refuses a quarantined database or an old authorization only afterwards: *)
(* the nonce is spent either way.  Digests, window and signatures follow.  *)
(***************************************************************************)
ReserveAndConsume(p, a) ==
    LET refused == store.state = "RESTORE_QUARANTINED" \/ auths[a].issued < store.floor
    IN /\ procs[p] = Idle
       /\ auths[a] # None
       /\ Valid(store)
       /\ a \notin store.consumed
       /\ store' = [store EXCEPT !.consumed = @ \cup {a}]
       /\ procs' = IF refused THEN procs
                   ELSE [procs EXCEPT ![p] = [phase |-> "reserved", auth |-> a]]
       /\ UNCHANGED <<clock, auths, created, backup, dest, liveVars, granted, receipts>>

InWindow(a) == auths[a].issued <= clock /\ clock < auths[a].expires

BindSignatures(a) == auths[a].sigs = Roles

\* The operator's expected digests agree with the body or do not.
IssueGrant(p, expected) ==
    LET a == procs[p].auth
        good == expected /\ InWindow(a) /\ BindSignatures(a)
    IN /\ procs[p].phase = "reserved"
       /\ procs' = [procs EXCEPT ![p] = IF good THEN [phase |-> "granted", auth |-> a] ELSE Idle]
       /\ granted' = IF good
                     THEN granted \cup {[auth |-> a, by |-> p, at |-> clock, sigs |-> auths[a].sigs]}
                     ELSE granted
       /\ UNCHANGED <<clock, auths, storeVars, dest, liveVars, receipts>>

\* claim and consume_for_capture: each succeeds once per grant.
Claim(p) ==
    /\ procs[p].phase = "granted"
    /\ procs' = [procs EXCEPT ![p] =
                   IF auths[@.auth].kind = "capture" /\ DestinationFree
                   THEN [phase |-> "claimed", auth |-> @.auth] ELSE Idle]
    /\ UNCHANGED <<clock, auths, storeVars, dest, liveVars, granted, receipts>>

(***************************************************************************)
(* Capture.  The closed catalog queries are run and their answers parsed;  *)
(* a row outside its shape refuses the capture.  The identity receipt is   *)
(* stamped with the caller's time, and binds the catalog it was read from. *)
(***************************************************************************)
QueryKinds == {"system_identifier", "database_oid", "server_version_num", "schemas", "tables",
               "columns", "constraints", "indexes"}

\* interpret_closed_catalog_results: every closed query is answered in its own shape.
Interpreted(malformed) == QueryKinds \cap malformed = {}

IdentityReceipt(a) == [kind |-> "identity", by |-> a, at |-> clock]

Fresh(at) == at <= clock /\ clock - at <= Window

\* bind_produced_capture_digests: only the zero digest is refused.
BindProduced(a) == auths[a].digests # "zero"

QueryCatalog(p, malformed) ==
    LET a == procs[p].auth
        good == Interpreted(malformed) /\ Fresh(IdentityReceipt(a).at) /\ BindProduced(a)
    IN /\ procs[p].phase = "claimed"
       /\ procs' = [procs EXCEPT ![p] =
                      IF good
                      THEN [phase |-> "produced", auth |-> a, identity |-> IdentityReceipt(a)] ELSE Idle]
       /\ UNCHANGED <<clock, auths, storeVars, dest, liveVars, granted, receipts>>

\* The directory of a capture; its manifest and receipt bind the six artifacts.
OutputTree(a, identity) == [kind |-> "tree", auth |-> a, identity |-> identity, files |-> 0]

Receipt(a, identity) == [auth |-> a, identity |-> identity]

\* _write_tree: mkdir refuses an existing directory.
MakeDirectory(p) ==
    /\ procs[p].phase = "produced"
    /\ dest' = IF dest # None THEN dest ELSE OutputTree(procs[p].auth, procs[p].identity)
    /\ procs' = [procs EXCEPT ![p] =
                   IF dest # None THEN Idle
                   ELSE [phase |-> "writing", auth |-> @.auth, identity |-> @.identity]]
    /\ UNCHANGED <<clock, auths, storeVars, liveVars, granted, receipts>>

PublishFile(p) ==
    /\ procs[p].phase = "writing"
    /\ dest.files < MaxFiles
    /\ dest' = [dest EXCEPT !.files = @ + 1]
    /\ UNCHANGED <<clock, auths, storeVars, procs, liveVars, granted, receipts>>

CaptureReceipt(p) ==
    /\ procs[p].phase = "writing"
    /\ dest.files = MaxFiles
    /\ receipts' = receipts \cup {Receipt(procs[p].auth, procs[p].identity)}
    /\ procs' = [procs EXCEPT ![p] = Idle]
    /\ UNCHANGED <<clock, auths, storeVars, dest, liveVars, granted>>

\* Grants are process memory.  What a crash leaves in the destination stays.
Crash(p) ==
    /\ procs[p] # Idle
    /\ procs' = [procs EXCEPT ![p] = Idle]
    /\ UNCHANGED <<clock, auths, storeVars, dest, liveVars, granted, receipts>>

(***************************************************************************)
(* The live-export plan: a quiescence proof and a plan are drawn up for    *)
(* the captured identity, an export authorization names the plan, and all  *)
(* of it is verified at once.                                              *)
(***************************************************************************)
Whole == dest # None /\ dest.files = MaxFiles

QuiescenceProof(identity) == [kind |-> "quiescence", identity |-> identity, at |-> clock]

LivePlan(proof) == [kind |-> "plan", identity |-> proof.identity, quiescence |-> proof]

ProveQuiescence ==
    /\ Whole
    /\ quiescence' = QuiescenceProof(dest.identity)
    /\ UNCHANGED <<clock, auths, storeVars, procs, dest, plan, verified, granted, receipts>>

DrawUpPlan ==
    /\ quiescence # None
    /\ plan' = LivePlan(quiescence)
    /\ UNCHANGED <<clock, auths, storeVars, procs, dest, quiescence, verified, granted, receipts>>

\* _bind_authorization
BindAuthorization(a) == auths[a].digests = plan

PlanAgrees ==
    /\ dest.identity = plan.identity /\ quiescence.identity = dest.identity
    /\ plan.quiescence = quiescence

VerifyLivePlan(a) ==
    /\ Whole
    /\ auths[a] # None
    /\ Fresh(dest.identity.at) /\ Fresh(quiescence.at)
    /\ PlanAgrees
    /\ InWindow(a) /\ BindAuthorization(a)
    /\ verified' = verified \cup {[auth |-> a, at |-> clock, identity |-> dest.identity]}
    /\ UNCHANGED <<clock, auths, storeVars, procs, dest, quiescence, plan, granted, receipts>>

Next ==
    \/ Tick
    \/ \E a \in Captures, digests \in {"zero", "named"} : CreateCapture(a, digests)
    \/ \E a \in Exports : CreateExport(a)
    \/ \E a \in Auths, role \in Roles : Sign(a, role)
    \/ Precreate \/ ApplyV1 \/ Backup \/ LoseStore \/ Restore
    \/ ActivateRestored(clock)
    \/ \E p \in Procs :
          \/ \E a \in Auths : ReserveAndConsume(p, a)
          \/ \E expected \in BOOLEAN : IssueGrant(p, expected)
          \/ Claim(p) \/ (\E malformed \in {{}, {"columns"}} : QueryCatalog(p, malformed))
          \/ MakeDirectory(p) \/ PublishFile(p)
          \/ CaptureReceipt(p) \/ Crash(p)
    \/ ProveQuiescence \/ DrawUpPlan
    \/ \E a \in Exports : VerifyLivePlan(a)

Spec == Init /\ [][Next]_vars

(***************************************************************************)
(* Properties.                                                             *)
(***************************************************************************)

\* The window and the number of artifacts are numbers.
ExportAssumption == Window \in Nat /\ MaxFiles \in Nat

Body(digests) ==
    [kind : {"capture", "export"}, issued : Nat, expires : Nat, digests : {digests},
     sigs : SUBSET Roles]

Databases ==
    {Absent, [state |-> "empty"]}
      \cup [state : {"ACTIVE", "RESTORE_QUARANTINED"}, floor : Nat, consumed : SUBSET Auths]

Identities == [kind : {"identity"}, by : Auths, at : Nat]

Processes ==
    {Idle} \cup [phase : {"reserved", "granted", "claimed"}, auth : Auths]
      \cup [phase : {"produced", "writing"}, auth : Auths, identity : Identities]

Trees == [kind : {"tree"}, auth : Auths, identity : Identities, files : 0 .. MaxFiles]

TypeOK ==
    /\ clock \in Nat /\ created \in BOOLEAN
    /\ auths \in [Auths -> {auths[a] : a \in Auths}]
    /\ \A a \in Auths : auths[a] # None => auths[a] \in Body(auths[a].digests)
    /\ store \in Databases /\ backup \in Databases
    /\ procs \in [Procs -> Processes]
    /\ dest \in Trees \cup {None}

\* An authorization is good for one grant: however many processes present it,
\* whichever of them crash, and although the nonce database may be lost and an
\* older copy restored and activated.  The grant was given inside the window, with
\* both signatures.
GrantsAreOnce ==
    /\ \A g, h \in granted : g.auth = h.auth => g = h
    /\ \A g \in granted :
          /\ auths[g.auth].issued <= g.at /\ g.at < auths[g.auth].expires
          /\ g.sigs = Roles

\* A capture receipt is returned only to the holder of such a grant, and the
\* directory then holds its whole capture and no one else's.
ReceiptsAreWhole ==
    \A r \in receipts :
      /\ \E g \in granted : g.auth = r.auth /\ g.at <= r.identity.at
      /\ Whole /\ dest.auth = r.auth /\ dest.identity = r.identity

\* A verified live plan rests on an identity some granted capture produced, no
\* older than the age limit.
PlansAreGranted ==
    \A v \in verified :
      /\ \E g \in granted : g.auth \in Captures /\ g.at <= v.identity.at
      /\ v.at - v.identity.at <= Window

\* One grant per authorization, one whole capture per receipt, and live plans
\* that rest on a granted capture (reserve_and_consume, capture service,
\* verify_live_export_plan).
GrantIsOnce == TypeOK /\ GrantsAreOnce /\ ReceiptsAreWhole /\ PlansAreGranted

(***************************************************************************)
(* The inductive invariant behind GrantIsOnce.                             *)
(***************************************************************************)

Holds(p, a) == procs[p].phase # "idle" /\ procs[p].auth = a

\* Some process holds the authorization, or it was granted.
Spent(a) == (\E p \in Procs : Holds(p, a)) \/ (\E g \in granted : g.auth = a)

\* The nonce database refuses from now on what is spent: it is consumed there, or
\* the database is quarantined, or the authorization is older than the floor of an
\* activated copy.
SpentIsRefused ==
    \A a \in Auths :
      Spent(a) =>
        /\ created /\ store.state # "empty" /\ auths[a] # None
        /\ Valid(store) => \/ a \in store.consumed
                            \/ store.state = "RESTORE_QUARANTINED"
                            \/ auths[a].issued < store.floor

\* No two processes hold one authorization.
HoldersDiffer == \A p, q \in Procs : \A a \in Auths : Holds(p, a) /\ Holds(q, a) => p = q

\* The grant that a later time rests on.
GrantedBy(a, at) == \E g \in granted : g.auth = a /\ g.at <= at

\* The locals of a process: reserved without a grant, then with one; a capture
\* only under a capture authorization; its directory is its own.
ProcessHolds(p) ==
    LET o == procs[p]
    IN /\ o.phase = "reserved" => \A g \in granted : g.auth # o.auth
       /\ o.phase \in {"granted", "claimed"} => GrantedBy(o.auth, clock)
       /\ o.phase \in {"claimed", "produced", "writing"} => o.auth \in Captures
       /\ o.phase \in {"produced", "writing"} => GrantedBy(o.auth, o.identity.at)
       /\ o.phase = "writing" => dest # None /\ dest.auth = o.auth /\ dest.identity = o.identity

\* The directory rests on a granted capture, and so does its identity's time.
TreeIsGranted ==
    dest # None => dest.auth \in Captures /\ GrantedBy(dest.auth, dest.identity.at)

\* Before the nonce database is created there is neither a file nor a copy.
NothingBefore == created \/ (store = Absent /\ backup = Absent)

ExportInvariant ==
    /\ GrantIsOnce /\ SpentIsRefused /\ HoldersDiffer /\ TreeIsGranted /\ NothingBefore
    /\ \A p \in Procs : ProcessHolds(p)
    /\ \A g \in granted : g.auth \in Auths /\ g.at \in Nat /\ g.at <= clock
    /\ \A a \in Auths : auths[a] # None /\ auths[a].kind = "capture" => a \in Captures
=============================================================================
