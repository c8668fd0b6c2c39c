------------------------- MODULE ShadowMeasurement -------------------------
(* The native shadow-measurement collector                                 *)
(* (applications/second_brain_shadow_measurement.py) and the composition   *)
(* that opens it.  An external append authority keeps the history; every   *)
(* event is mirrored in a local segment file of its own, which is checked  *)
(* against the authority whenever the cohort is loaded.  A process may     *)
(* crash or fail between the authority's advance and the segment, may lose *)
(* the authority's answer, and may leave a torn segment; the authority may *)
(* be restored from an older copy.                                         *)
EXTENDS Integers, Sequences, FiniteSets, SequencesExt

CONSTANTS
  Procs,         \* processes that open the same journal
  Ids,           \* sample identities
  Failing,       \* the samples that miss a measure
  Keys,          \* key references of the benchmark and holdout manifests
  MaxTime,       \* bound of the wall clock
  MaxRollbacks,  \* bound on restores of the authority
  MaxGap,        \* _MAX_INTERVAL_SECONDS, in clock ticks
  MinSpan,       \* slo.min_shadow_days, in clock ticks
  MinSamples,    \* slo.min_cohort_e2e_queries
  MinPercent     \* the lower bound every rate must reach, in percent

VARIABLES
  auth,      \* events retained by the authority, the checkpoint first
  seg,       \* revision -> the segment file: an event, Torn or Absent
  clock,     \* _now()
  rollbacks, \* restores so far
  lock,      \* the process that holds the journal's flock, or Nobody
  proc,      \* process -> what it is doing and what it holds in memory
  reported   \* the history and outcome of the last report

vars == <<auth, seg, clock, rollbacks, lock, proc, reported>>

Nobody == "nobody"
Absent == [file |-> "absent"]
Torn == [file |-> "torn"]
NoSample == [id |-> "none", head |-> <<>>]
MaxRevision == Cardinality(Ids) + 1

(* The manifests a cohort is opened with.                                  *)
Manifests == [benchmark : Keys, holdout : Keys]
Separated(m) == m.benchmark # m.holdout

Closed == [pc |-> "closed", op |-> "open", sample |-> NoSample,
           receipt |-> <<>>, at |-> 0,
           manifest |-> CHOOSE m \in Manifests : TRUE]

Entries(events) == IF events = <<>> THEN <<>> ELSE Tail(events)
Segments == {r \in 1..MaxRevision : seg[r] # Absent}

-----------------------------------------------------------------------------
(* One-sided Wilson bound, 95%: its lower end reaches the threshold exactly *)
(* when the rate does and the score test rejects the threshold             *)
(* (z*z = 2.7, percent for basis points).                                  *)
LowerBoundReached(successes, total) ==
  LET d == 100 * successes - MinPercent * total
  IN IF total = 0 THEN MinPercent = 0
     ELSE d >= 0 /\ 10 * d * d >= 27 * total * MinPercent * (100 - MinPercent)

Outcome(events) ==
  LET s == Entries(events)
      n == Len(s)
      span == IF n < 2 THEN 0 ELSE s[n].at - s[1].at
      passed == Cardinality({i \in 1..n : s[i].ok})
  IN IF /\ clock - events[1].at >= MinSpan
        /\ span >= MinSpan
        /\ n >= MinSamples
        /\ LowerBoundReached(passed, n)
     THEN "EVIDENCE_COMPLETE_NON_SERVING" ELSE "NOT_READY"

-----------------------------------------------------------------------------
Init ==
  /\ auth = <<>> /\ seg = [r \in 1..MaxRevision |-> Absent]
  /\ clock = 0 /\ rollbacks = 0 /\ lock = Nobody
  /\ proc = [p \in Procs |-> Closed]
  /\ reported = [history |-> <<>>, outcome |-> "NOT_READY"]

Set(p, pc, op) == [proc EXCEPT ![p].pc = pc, ![p].op = op]
Raise(p) == proc' = [proc EXCEPT ![p].at = 0, ![p].sample = NoSample,
                                 ![p].pc = IF proc[p].op = "open" THEN "closed"
                                           ELSE "idle"]
Release(p) == lock' = IF lock = p THEN Nobody ELSE lock

(* A receipt is refused when it rolls back one this process has verified.  *)
ReceiptAccepted(p) ==
  /\ Len(auth) >= Len(proc[p].receipt)
  /\ Len(auth) = Len(proc[p].receipt) => auth = proc[p].receipt

(* open_measurement: the manifests bind one workspace and separate keys;   *)
(* init needs a fresh journal, every other command an existing one.  The   *)
(* constructor refuses a journal that no authority retains.                *)
Open(p, m) ==
  /\ proc[p].pc = "closed" /\ Separated(m)
  /\ IF auth = <<>>
     THEN /\ Segments = {}
          /\ proc' = [proc EXCEPT ![p].pc = "idle", ![p].manifest = m,
                                  ![p].receipt = auth]
          /\ UNCHANGED lock
     ELSE /\ Segments # {} /\ lock = Nobody
          /\ lock' = p
          /\ proc' = [proc EXCEPT ![p].pc = "load", ![p].op = "open",
                                  ![p].manifest = m, ![p].receipt = auth]
  /\ UNCHANGED <<auth, seg, clock, rollbacks, reported>>

(* establish_checkpoint: under the lock, only into an empty authority.     *)
Establish(p) ==
  /\ proc[p].pc = "idle" /\ lock = Nobody
  /\ auth = <<>> /\ ReceiptAccepted(p)
  /\ lock' = p
  /\ proc' = [proc EXCEPT ![p].pc = "advance", ![p].op = "establish",
                          ![p].receipt = auth, ![p].at = clock]
  /\ UNCHANGED <<auth, seg, clock, rollbacks, reported>>

(* append and report take the lock and load the cohort first, from a fresh *)
(* snapshot of the authority.  The sample given to append was signed over  *)
(* the head its caller last saw, which may be an earlier one: a retry of a *)
(* sample whose answer was lost, or a rival that appended first.           *)
Start(p, op, sample) ==
  /\ proc[p].pc = "idle" /\ lock = Nobody
  /\ auth # <<>> /\ ReceiptAccepted(p)
  /\ lock' = p
  /\ proc' = [Set(p, "load", op) EXCEPT ![p].receipt = auth,
                                        ![p].sample = sample]
  /\ UNCHANGED <<auth, seg, clock, rollbacks, reported>>

SubmitSample(p) ==
  \E id \in Ids, k \in 0..Len(Entries(auth)) :
     Start(p, "append", [id |-> id, head |-> SubSeq(Entries(auth), 1, k)])

(* _read_events with recover_tail: a torn segment is moved out of the way, *)
(* and this load still fails because the segment holds no frame.           *)
Quarantine(p) ==
  /\ proc[p].pc = "load" /\ \E r \in 1..MaxRevision : seg[r] = Torn
  /\ LET r == CHOOSE x \in 1..MaxRevision :
                /\ seg[x] = Torn
                /\ \A y \in 1..MaxRevision : seg[y] = Torn => x <= y
     IN seg' = [seg EXCEPT ![r] = Absent]
  /\ Raise(p) /\ Release(p)
  /\ UNCHANGED <<auth, clock, rollbacks, reported>>

(* What _load_verified demands: segments numbered without a gap that are a *)
(* prefix of the authority's events, under a root that binds this          *)
(* process's manifests.                                                    *)
Mut_JournalAgrees(p) ==
  LET events == proc[p].receipt
  IN /\ Segments = 1..Cardinality(Segments)
     /\ \A r \in Segments : r <= Len(events) => seg[r] = events[r]
     /\ events[1].manifest = proc[p].manifest

JournalAgrees(p) ==
  LET events == proc[p].receipt
  IN /\ Segments = 1..Cardinality(Segments)
     /\ Cardinality(Segments) <= Len(events)
     /\ \A r \in Segments : seg[r] = events[r]
     /\ events[1].manifest = proc[p].manifest

Loading(p) ==
  /\ proc[p].pc = "load"
  /\ \A r \in 1..MaxRevision : seg[r] # Torn

LoadRefused(p) ==
  /\ Loading(p) /\ ~JournalAgrees(p)
  /\ Raise(p) /\ Release(p)
  /\ UNCHANGED <<auth, seg, clock, rollbacks, reported>>

(* The events the journal lacks are written from the authority.            *)
Missing(p) == Cardinality(Segments) < Len(proc[p].receipt)

Rewrite(p) ==
  /\ Loading(p) /\ JournalAgrees(p) /\ Missing(p)
  /\ LET r == Cardinality(Segments) + 1
     IN seg' = [seg EXCEPT ![r] = proc[p].receipt[r]]
  /\ UNCHANGED <<auth, clock, rollbacks, lock, proc, reported>>

Loaded(p, op) ==
  /\ Loading(p) /\ JournalAgrees(p) /\ ~Missing(p)
  /\ proc[p].op = op

OpenDone(p) ==
  /\ Loaded(p, "open")
  /\ proc' = Set(p, "idle", "none")
  /\ Release(p)
  /\ UNCHANGED <<auth, seg, clock, rollbacks, reported>>

(* report: the outcome of the verified history, at this clock.             *)
Report(p) ==
  /\ Loaded(p, "report")
  /\ reported' = [history |-> proc[p].receipt,
                  outcome |-> Outcome(proc[p].receipt)]
  /\ proc' = Set(p, "idle", "none")
  /\ Release(p)
  /\ UNCHANGED <<auth, seg, clock, rollbacks>>

(* append: the sample is signed over this head, its id is new and the      *)
(* interval since the last one is positive and short enough.               *)
Mut_SampleAccepted(s, events) ==
  LET e == Entries(events)
  IN /\ s.head = e
     /\ \A i \in 1..Len(e) : e[i].id # s.id
     /\ e # <<>> => clock - e[Len(e)].at <= MaxGap

SampleAccepted(s, events) ==
  LET e == Entries(events)
  IN /\ s.head = e
     /\ \A i \in 1..Len(e) : e[i].id # s.id
     /\ e # <<>> => clock - e[Len(e)].at \in 1..MaxGap

AppendRefused(p) ==
  /\ Loaded(p, "append") /\ ~SampleAccepted(proc[p].sample, proc[p].receipt)
  /\ proc' = [Set(p, "idle", "none") EXCEPT ![p].sample = NoSample]
  /\ Release(p)
  /\ UNCHANGED <<auth, seg, clock, rollbacks, reported>>

AppendChecked(p) ==
  /\ Loaded(p, "append") /\ SampleAccepted(proc[p].sample, proc[p].receipt)
  /\ proc' = [Set(p, "advance", "append") EXCEPT ![p].at = clock]
  /\ UNCHANGED <<auth, seg, clock, rollbacks, lock, reported>>

(* _commit: compare_and_advance on the revision just read.  Its answer may *)
(* be lost after it took effect: the caller raises and may try again.      *)
Event(p) ==
  IF proc[p].op = "establish"
  THEN [id |-> "checkpoint", ok |-> TRUE, at |-> proc[p].at,
        manifest |-> proc[p].manifest]
  ELSE [id |-> proc[p].sample.id, ok |-> proc[p].sample.id \notin Failing,
        at |-> proc[p].at, manifest |-> auth[1].manifest]

Advance(p, answered) ==
  /\ proc[p].pc = "advance" /\ auth = proc[p].receipt
  /\ auth' = Append(auth, Event(p))
  /\ IF answered
     THEN /\ proc' = [Set(p, "write", proc[p].op) EXCEPT ![p].receipt = auth',
                                                         ![p].at = 0]
          /\ UNCHANGED lock
     ELSE Raise(p) /\ Release(p)
  /\ UNCHANGED <<seg, clock, rollbacks, reported>>

AdvanceRefused(p) ==
  /\ proc[p].pc = "advance" /\ auth # proc[p].receipt
  /\ Raise(p) /\ Release(p)
  /\ UNCHANGED <<auth, seg, clock, rollbacks, reported>>

(* _append_segment: an exclusive create; an existing file must be equal.   *)
(* The reload that ends append changes nothing that lasts.                 *)
WriteSegment(p) ==
  /\ proc[p].pc = "write"
  /\ LET r == Len(proc[p].receipt)
         e == proc[p].receipt[r]
     IN /\ seg[r] \in {Absent, e}
        /\ seg' = [seg EXCEPT ![r] = e]
        /\ proc' = [Set(p, "idle", "none") EXCEPT ![p].sample = NoSample]
        /\ Release(p)
  /\ UNCHANGED <<auth, clock, rollbacks, reported>>

WriteConflict(p) ==
  /\ proc[p].pc = "write"
  /\ LET r == Len(proc[p].receipt)
     IN seg[r] \notin {Absent, proc[p].receipt[r]}
  /\ Raise(p) /\ Release(p)
  /\ UNCHANGED <<auth, seg, clock, rollbacks, reported>>

(* The process dies: the kernel drops its lock, its memory is gone and the *)
(* segment it was writing may be left torn.                                *)
Crash(p) ==
  /\ proc[p].pc # "closed"
  /\ proc' = [proc EXCEPT ![p] = Closed]
  /\ Release(p)
  /\ \/ UNCHANGED seg
     \/ /\ proc[p].pc = "write" /\ seg[Len(proc[p].receipt)] = Absent
        /\ seg' = [seg EXCEPT ![Len(proc[p].receipt)] = Torn]
     \/ /\ Loading(p) /\ JournalAgrees(p) /\ Missing(p)
        /\ seg' = [seg EXCEPT ![Cardinality(Segments) + 1] = Torn]
  /\ UNCHANGED <<auth, clock, rollbacks, reported>>

(* The authority is restored from a copy that lacks its last event.        *)
RollbackAuthority ==
  /\ auth # <<>> /\ rollbacks < MaxRollbacks
  /\ auth' = Front(auth)
  /\ rollbacks' = rollbacks + 1
  /\ UNCHANGED <<seg, clock, lock, proc, reported>>

(* The wall clock advances, and may be set back.                           *)
Clock(t) ==
  /\ t \in {clock - 1, clock + 1} /\ t \in 0..MaxTime
  /\ clock' = t
  /\ UNCHANGED <<auth, seg, rollbacks, lock, proc, reported>>

Next ==
  \/ \E p \in Procs :
       \/ \E m \in Manifests : Open(p, m)
       \/ SubmitSample(p)
       \/ Start(p, "report", NoSample)
       \/ Establish(p) \/ Quarantine(p) \/ LoadRefused(p) \/ Rewrite(p)
       \/ OpenDone(p) \/ Report(p) \/ AppendRefused(p) \/ AppendChecked(p)
       \/ \E answered \in BOOLEAN : Advance(p, answered)
       \/ AdvanceRefused(p) \/ WriteSegment(p) \/ WriteConflict(p) \/ Crash(p)
  \/ RollbackAuthority
  \/ \E t \in 0..MaxTime : Clock(t)

Spec == Init /\ [][Next]_vars

-----------------------------------------------------------------------------
(* report(): evidence that was reported is never forgotten or rewritten,   *)
(* whatever crashes, torn segments, lost answers and authority restores    *)
(* happen in between; and evidence called complete spans the required time *)
(* without a gap, counts no sample twice and belongs to one set of         *)
(* manifests.                                                              *)
EvidenceKept ==
  LET h == reported'.history
      s == Entries(h)
  IN /\ IsPrefix(reported.history, h)
     /\ \A i, j \in 1..Len(s) : i < j =>
           s[i].id # s[j].id /\ s[i].at < s[j].at
     /\ \A i \in 1..Len(s) : h[1].manifest = s[i].manifest
     /\ reported'.outcome = "EVIDENCE_COMPLETE_NON_SERVING" =>
           /\ s[Len(s)].at - s[1].at >= MinSpan
           /\ \A i \in 1..(Len(s) - 1) : s[i+1].at - s[i].at <= MaxGap

-----------------------------------------------------------------------------
(* min_shadow_days is at least one.                                        *)
ShadowAssumption == IsFiniteSet(Ids) /\ MinSpan \in Nat \ {0} /\ MaxGap \in Nat

EventSet == [id : Ids \cup {"checkpoint", "none"}, ok : BOOLEAN, at : Int,
             manifest : Manifests \cup {Closed.manifest}]

ProcSet == [pc : {"closed", "idle", "load", "advance", "write"},
            op : {"open", "none", "establish", "append", "report"},
            sample : [id : Ids \cup {"none"}, head : Seq(EventSet)],
            receipt : Seq(EventSet), at : Int,
            manifest : Manifests \cup {Closed.manifest}]

ShadowTyped ==
  /\ clock \in Int
  /\ auth \in Seq(EventSet)
  /\ proc \in [Procs -> ProcSet]
  /\ DOMAIN seg = 1..MaxRevision
  /\ reported.history \in Seq(EventSet)

(* A history whose samples are of one cohort, new, later and not too late. *)
GoodHistory(h) ==
  /\ \A i, j \in 2..Len(h) : i < j => h[i].id # h[j].id /\ h[i].at < h[j].at
  /\ \A i \in 2..Len(h) : h[i].manifest = h[1].manifest
  /\ \A i \in 2..(Len(h) - 1) : h[i+1].at - h[i].at <= MaxGap

(* What append checked still holds of the history it read.                 *)
AcceptedAt(s, h, at) ==
  /\ \A i \in 2..Len(h) : h[i].id # s.id
  /\ Len(h) >= 2 => at - h[Len(h)].at \in 1..MaxGap

ProcGood(x) ==
  /\ GoodHistory(x.receipt)
  /\ x.pc = "load" => x.receipt # <<>>
  /\ x.pc = "advance" =>
       \/ x.op = "establish" /\ x.receipt = <<>>
       \/ x.op = "append" /\ x.receipt # <<>> /\ AcceptedAt(x.sample, x.receipt, x.at)

HistoriesGood == GoodHistory(auth) /\ \A p \in Procs : ProcGood(proc[p])

(* Every reported event has its segment, and complete evidence its span.   *)
ReportKept ==
  LET h == reported.history
  IN /\ GoodHistory(h)
     /\ \A i \in 1..Len(h) : i \in 1..MaxRevision /\ seg[i] = h[i]
     /\ reported.outcome = "EVIDENCE_COMPLETE_NON_SERVING" =>
           Len(h) >= 3 /\ h[Len(h)].at - h[2].at >= MinSpan

ShadowInvariant == ShadowTyped /\ HistoriesGood /\ ReportKept
=============================================================================
