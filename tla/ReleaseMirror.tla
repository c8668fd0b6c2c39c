--------------------------- MODULE ReleaseMirror ---------------------------
(***************************************************************************)
(* The remote mirror (mirror.py): outbox events of the control plane drive *)
(* pushes of immutable generation refs and of the mutable release pointer  *)
(* to a Git remote.  The control plane is an append-only lineage of        *)
(* releases, as PublishedLineage promises: the n-th activation makes n the *)
(* current release and appends outbox event n.                             *)
(*                                                                         *)
(* process_outbox takes no lease, so several mirror runs may interleave;   *)
(* they share the local ref refs/wiki/releases/current.                    *)
(***************************************************************************)
EXTENDS Naturals, FiniteSetsExt

CONSTANTS
  Mirrors,      \* processes that run `wiki mirror`
  MaxReleases,  \* bound: activations
  MaxFailures   \* bound: failed pushes

ASSUME MirrorAssumption ==
  /\ MaxReleases \in Nat
  /\ MaxFailures \in Nat

Events == 1 .. MaxReleases
Opt    == 0 .. MaxReleases        \* 0: no release, or an absent ref

VARIABLES
  current,     \* publication.current_release_commit_oid
  processed,   \* outbox events with processed=1
  localRef,    \* refs/wiki/releases/current of the local repository
  remoteRef,   \* refs/wiki/releases/current of the remote
  remoteGens,  \* refs/wiki/generations/* of the remote
  run,         \* the memory of every mirror run
  failures     \* pushes that failed so far

vars == <<current, processed, localRef, remoteRef, remoteGens, run, failures>>

\* pc, the pending events not handled yet, and the release that was read.
Memory == [pc : {"idle", "generation", "read_release", "local_ref",
                 "push_release", "mark"},
           pending : SUBSET Events, rel : Opt]

Idle == [pc |-> "idle", pending |-> {}, rel |-> 0]

Init ==
  /\ current = 0 /\ processed = {}
  /\ localRef = 0 /\ remoteRef = 0 /\ remoteGens = {}
  /\ run = [m \in Mirrors |-> Idle]
  /\ failures = 0

\* ControlPlane.activate: release pointer and outbox event in one transaction.
Activate ==
  /\ current < MaxReleases
  /\ current' = current + 1
  /\ UNCHANGED <<processed, localRef, remoteRef, remoteGens, run, failures>>

\* SELECT ... FROM outbox WHERE processed=0 ORDER BY event_id
PendingOutbox == (1 .. current) \ processed

\* Mutant: no reconciliation when nothing is pending.
Mut_Begin(m) ==
  /\ run[m].pc = "idle"
  /\ run' = [run EXCEPT ![m] = IF PendingOutbox = {} THEN Idle
               ELSE [pc |-> "generation", pending |-> PendingOutbox, rel |-> 0]]
  /\ UNCHANGED <<current, processed, localRef, remoteRef, remoteGens, failures>>

Begin(m) ==
  /\ run[m].pc = "idle"
  /\ run' = [run EXCEPT ![m] =
               [pc |-> IF PendingOutbox = {} THEN "read_release" ELSE "generation",
                pending |-> PendingOutbox, rel |-> 0]]
  /\ UNCHANGED <<current, processed, localRef, remoteRef, remoteGens, failures>>

\* The event the loop is at: pending events are handled in event_id order.
NextEvent(m) == Min(run[m].pending)

\* Mutant: the push of the generation ref is skipped.
Mut_PushGeneration(m) ==
  /\ run[m].pc = "generation"
  /\ run' = [run EXCEPT ![m].pc = "read_release"]
  /\ UNCHANGED <<current, processed, localRef, remoteRef, remoteGens, failures>>

\* push_generation: the ref is immutable, a repeated push is a no-op.
PushGeneration(m) ==
  /\ run[m].pc = "generation"
  /\ remoteGens' = remoteGens \cup {NextEvent(m)}
  /\ run' = [run EXCEPT ![m].pc = "read_release"]
  /\ UNCHANGED <<current, processed, localRef, remoteRef, failures>>

\* Mutant: the NULL pointer of an empty workspace is not tested.
Mut_ReadRelease(m) ==
  /\ run[m].pc = "read_release"
  /\ run' = [run EXCEPT ![m].pc = "local_ref", ![m].rel = current]
  /\ UNCHANGED <<current, processed, localRef, remoteRef, remoteGens, failures>>

\* sync_release_ref, first statement.
ReadRelease(m) ==
  /\ run[m].pc = "read_release"
  /\ run' = [run EXCEPT ![m] =
               CASE current # 0 -> [@ EXCEPT !.pc = "local_ref", !.rel = current]
                 [] current = 0 -> Idle]
  /\ UNCHANGED <<current, processed, localRef, remoteRef, remoteGens, failures>>

\* sync_release_ref: update-ref of the local ref, from the value read before.
SetLocalRef(m) ==
  /\ run[m].pc = "local_ref"
  /\ localRef' = run[m].rel
  /\ run' = [run EXCEPT ![m].pc = "push_release"]
  /\ UNCHANGED <<current, processed, remoteRef, remoteGens, failures>>

\* sync_release_ref: the forced push takes the local ref as it is now.
PushRelease(m) ==
  /\ run[m].pc = "push_release"
  /\ remoteRef' = localRef
  /\ run' = [run EXCEPT ![m] = IF @.pending = {} THEN Idle
                               ELSE [@ EXCEPT !.pc = "mark"]]
  /\ UNCHANGED <<current, processed, localRef, remoteGens, failures>>

\* mark_outbox_processed, then the next pending event.
MarkProcessed(m) ==
  /\ run[m].pc = "mark"
  /\ processed' = processed \cup {NextEvent(m)}
  /\ run' = [run EXCEPT ![m] =
               IF run[m].pending = {NextEvent(m)} THEN Idle
               ELSE [run[m] EXCEPT !.pc = "generation",
                                   !.pending = @ \ {NextEvent(m)}]]
  /\ UNCHANGED <<current, localRef, remoteRef, remoteGens, failures>>

\* A push fails (MirrorError) and ends the run; or the process dies.
Fail(m) ==
  /\ run[m].pc # "idle"
  /\ failures < MaxFailures
  /\ failures' = failures + 1
  /\ run' = [run EXCEPT ![m] = Idle]
  /\ UNCHANGED <<current, processed, localRef, remoteRef, remoteGens>>

Step(m) ==
  \/ Begin(m) \/ PushGeneration(m) \/ ReadRelease(m) \/ SetLocalRef(m)
  \/ PushRelease(m) \/ MarkProcessed(m)

Next == Activate \/ \E m \in Mirrors : Step(m) \/ Fail(m)

Spec == Init /\ [][Next]_vars

\* Mirror runs are started again and again, and a started run goes on.
FairSpec == Spec /\ \A m \in Mirrors : WF_vars(Step(m))

-----------------------------------------------------------------------------
(* Properties                                                              *)

\* Types; a run past its first read of sync_release_ref has a release.
TypeOK ==
  /\ current \in Opt /\ processed \subseteq Events
  /\ localRef \in Opt /\ remoteRef \in Opt /\ remoteGens \subseteq Events
  /\ run \in [Mirrors -> Memory]
  /\ \A m \in Mirrors :
       run[m].pc \in {"local_ref", "push_release", "mark"} => run[m].rel # 0
  /\ failures \in 0 .. MaxFailures

\* An event is processed only when its generation is on the remote, and the
\* remote pointer names an activated release, and one as soon as any event is
\* processed.
ProcessedIsPushed ==
  /\ processed \subseteq remoteGens
  /\ remoteGens \subseteq 1 .. current
  /\ localRef <= current /\ remoteRef <= current
  /\ processed # {} => remoteRef # 0

-----------------------------------------------------------------------------
(* The inductive invariant behind ProcessedIsPushed.                       *)

\* A run handles events that were activated, each pushed before it is marked,
\* and its push of the pointer is never of an absent ref.
RunIsPushed(m) ==
  /\ run[m].pending \subseteq 1 .. current /\ run[m].rel <= current
  /\ run[m].pc = "generation" => run[m].pending # {}
  /\ run[m].pc = "mark" => run[m].pending # {} /\ remoteRef # 0
  /\ run[m].pc # "generation" /\ run[m].pending # {} => NextEvent(m) \in remoteGens
  /\ run[m].pc = "push_release" => localRef # 0

MirrorInvariant == TypeOK /\ ProcessedIsPushed /\ \A m \in Mirrors : RunIsPushed(m)

-----------------------------------------------------------------------------

\* The derived pointer catches up: after the last activation and the last
\* failed push, every event gets processed and the remote pointer settles on
\* the authoritative release, although runs that interleave may move it back.
MirrorConverges ==
  <>[](remoteRef = current /\ processed = 1 .. current)
=============================================================================
