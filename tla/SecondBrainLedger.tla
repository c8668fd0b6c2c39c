------------------------- MODULE SecondBrainLedger -------------------------
(***************************************************************************)
(* The Stage-3 ledger authority of the Second Brain                        *)
(* (infrastructure/second_brain_ledger.py) with the command matrix of      *)
(* memory_core/second_brain_ledger_contracts.py, and the recall runtime    *)
(* that ranks one served page (memory_runtime/second_brain_recall.py).     *)
(*                                                                         *)
(* One workspace.  Candidate references are 1..N in their lexical order; a *)
(* revision is named by the transaction sequence that wrote it.  Valid and *)
(* recorded time are not modelled: every version is valid at the instant   *)
(* asked for.  Every transaction is one SQLite BEGIN IMMEDIATE.            *)
(***************************************************************************)
EXTENDS Integers, FiniteSets, FiniteSetsExt

CONSTANTS N,            \* candidates
          Preapproved,  \* candidates created and approved before the run
          PageSize,     \* page_size of the authority
          MaxCommands,  \* bound on the commands appended in the run
          MaxCursors,   \* bound on the cursor rows kept at once
          MaxLookback   \* how far behind the head a request's cut may be

VARIABLES migration,    \* latest ledger_migration row of the workspace
          seq,          \* ledger_sequence
          candidate,    \* ledger_candidate: current row per candidate
          versions,     \* ledger_candidate_version joined with its citation
          closures,     \* ledger_candidate_version_closure
          edges,        \* ledger_edge
          cursors,      \* ledger_recall_cursor
          reader        \* a caller that pages through one recall

vars == <<migration, seq, candidate, versions, closures, edges, cursors, reader>>

Candidates == 1..N

NoRow == [state |-> "ABSENT", rev |-> 0]

IdleReader == [phase |-> "idle", cut |-> 0, after |-> 0, live |-> FALSE,
               got |-> {}, served |-> {}]

\* The two transactions that created and approved c, in the order of the references.
CreatedAt(c) == 2 + 2 * Cardinality({d \in Preapproved : d < c})

BaseSeq == 1 + 2 * Cardinality(Preapproved)

PreVersions ==
    {[c |-> c, rev |-> CreatedAt(c), state |-> "PENDING"] : c \in Preapproved}
        \cup {[c |-> c, rev |-> CreatedAt(c) + 1, state |-> "APPROVED"] : c \in Preapproved}

(***************************************************************************)
(* A database is empty, was written by this version (READY), or by an      *)
(* older one that kept no migration row (legacy).                          *)
(***************************************************************************)
Init ==
    /\ migration \in {"absent", "legacy", "SERVING_READY"}
    /\ seq = IF migration = "absent" THEN 0 ELSE BaseSeq
    /\ candidate = [c \in Candidates |->
                      IF migration # "absent" /\ c \in Preapproved
                      THEN [state |-> "APPROVED", rev |-> CreatedAt(c) + 1] ELSE NoRow]
    /\ versions = IF migration = "absent" THEN {} ELSE PreVersions
    /\ closures = IF migration = "absent" THEN {}
                  ELSE {[c |-> c, rev |-> CreatedAt(c), end |-> CreatedAt(c) + 1] : c \in Preapproved}
    /\ edges = {}
    /\ cursors = {}
    /\ reader = IdleReader

\* The nodes reached from S along the pairs of R, S included.
Closure(R, S) ==
    LET step[n \in 0..N] ==
          IF n = 0 THEN S
          ELSE LET near == step[n-1] IN near \cup {r[2] : r \in {p \in R : p[1] \in near}}
    IN step[N]

Pairs(kind) == {<<e.from, e.to>> : e \in {x \in edges : x.kind = kind /\ x.state = "ACTIVE"}}

(***************************************************************************)
(* set_authority: the first mutation of a workspace, never repeated.       *)
(***************************************************************************)
SetAuthority ==
    /\ migration = "absent"
    /\ seq = 0
    /\ migration' = "SERVING_READY"
    /\ seq' = 1
    /\ UNCHANGED <<candidate, versions, closures, edges, cursors, reader>>

(***************************************************************************)
(* _classify_legacy_workspace: committed in a transaction of its own by    *)
(* every entry point before it may refuse the workspace.                   *)
(***************************************************************************)
ClassifyLegacy ==
    /\ migration = "legacy"
    /\ migration' = "MIGRATION_BLOCKED"
    /\ UNCHANGED <<seq, candidate, versions, closures, edges, cursors, reader>>

\* promote_legacy_workspace with a verifier whose receipt is durably VERIFIED.
PromoteLegacy ==
    /\ migration = "MIGRATION_BLOCKED"
    /\ migration' = "SERVING_READY"
    /\ UNCHANGED <<seq, candidate, versions, closures, edges, cursors, reader>>

(***************************************************************************)
(* The invariant matrix of LedgerCommandV2: prior and resulting state, and *)
(* the edge the command carries (target c, related candidate o).           *)
(***************************************************************************)
Kinds == {"CREATE_CANDIDATE", "REVIEW_APPROVE", "REVIEW_REJECT", "CORRECT", "SUPERSEDE",
          "REVOKE", "FORGET", "DECLARE_CONTRADICTION"}

Prior(kind) == CASE kind = "CREATE_CANDIDATE" -> "ABSENT"
                 [] kind \in {"REVIEW_APPROVE", "REVIEW_REJECT"} -> "PENDING"
                 [] OTHER -> "APPROVED"

Resulting(kind) == CASE kind = "CREATE_CANDIDATE" -> "PENDING"
                     [] kind = "REVIEW_REJECT" -> "REJECTED"
                     [] kind = "REVOKE" -> "REVOKED"
                     [] kind = "FORGET" -> "FORGOTTEN"
                     [] OTHER -> "APPROVED"

EdgesOf(kind, c, o, n) ==
    CASE kind = "CORRECT" ->
             {[kind |-> "SUPPORT", from |-> o, to |-> c, state |-> "ACTIVE", start |-> n]}
      [] kind = "SUPERSEDE" ->
             {[kind |-> "SUPPORT", from |-> c, to |-> o, state |-> "SUPERSEDED", start |-> n]}
      [] kind = "DECLARE_CONTRADICTION" ->
             {[kind |-> "CONTRADICTION", from |-> c, to |-> o, state |-> "ACTIVE", start |-> n]}
      [] OTHER -> {}

\* The candidates a command may be related to; without an edge none but its own.
Related(kind, c) ==
    IF kind \in {"CORRECT", "SUPERSEDE", "DECLARE_CONTRADICTION"} THEN Candidates ELSE {c}

\* _validate_edges: endpoints exist, no duplicate (contradiction is undirected), no cycle.
ValidateEdges(es) ==
    \A e \in es :
        /\ e.from # e.to
        /\ \A d \in {e.from, e.to} : candidate[d].state # "ABSENT"
        /\ e.kind = "CONTRADICTION" =>
               {<<e.from, e.to>>, <<e.to, e.from>>} \cap Pairs("CONTRADICTION") = {}
        /\ e.kind = "SUPPORT" =>
               /\ <<e.from, e.to>> \notin Pairs("SUPPORT")
               /\ e.from \notin Closure(Pairs("SUPPORT"), {e.to})

Mut_Invalidated(c) ==
    {d \in Candidates : <<c, d>> \in Pairs("SUPPORT") /\ candidate[d].state = "APPROVED"}

\* The candidates _invalidate_supported_candidates revokes: every APPROVED dependant.
Invalidated(c) ==
    {d \in Closure(Pairs("SUPPORT"), {c}) \ {c} : candidate[d].state = "APPROVED"}

(***************************************************************************)
(* append_ledger_command.  cut is the transaction cut the signer saw and   *)
(* rev the revision of the candidate at that cut; both must still be       *)
(* current.  A command_ref seen before returns its stored receipt and      *)
(* writes nothing.                                                         *)
(***************************************************************************)
\* The signed provenance binds the whole command to the sequence it was signed at, and
\* the workspace must be registered, ACTIVE and migrated.
CommandAuthorized(cut) == migration = "SERVING_READY" /\ cut = seq

RevisionAt(c, cut) == LET rs == {v.rev : v \in {w \in versions : w.c = c /\ w.rev <= cut}}
                      IN IF rs = {} THEN 0 ELSE Max(rs)

AppendLedgerCommand(kind, c, o, cut) ==
    LET n == seq + 1
        es == EdgesOf(kind, c, o, n)
        cascade == IF kind \in {"REVOKE", "FORGET"} THEN Invalidated(c) ELSE {}
        written == {c} \cup cascade
        StateOf(d) == IF d = c THEN Resulting(kind) ELSE "REVOKED"
    IN /\ CommandAuthorized(cut)
       /\ candidate[c].state = Prior(kind)
       /\ candidate[c].rev = RevisionAt(c, cut)
       /\ ValidateEdges(es)
       /\ seq' = n
       /\ candidate' = [d \in Candidates |->
                          IF d \in written THEN [state |-> StateOf(d), rev |-> n] ELSE candidate[d]]
       /\ versions' = versions \cup {[c |-> d, rev |-> n, state |-> StateOf(d)] : d \in written}
       /\ closures' = closures \cup
                        {[c |-> d, rev |-> candidate[d].rev, end |-> n] :
                           d \in {x \in written : candidate[x].state # "ABSENT"}}
       /\ edges' = edges \cup es
       /\ UNCHANGED <<migration, cursors, reader>>

(***************************************************************************)
(* What a request at transaction cut k may see.                            *)
(***************************************************************************)
VisibleCandidates(k) ==
    {v.c : v \in {w \in versions :
        /\ w.state = "APPROVED"
        /\ w.rev <= k
        /\ ~ \E x \in closures : x.c = w.c /\ x.rev = w.rev /\ x.end <= k
        /\ ~ \E e \in edges : e.from = w.c /\ e.kind = "SUPPORT" /\ e.state = "SUPERSEDED"
                              /\ e.start <= k}}

VisibleEdges(kind, k) ==
    LET visible == VisibleCandidates(k)
    IN {<<e.from, e.to>> : e \in {x \in edges :
           x.kind = kind /\ x.state = "ACTIVE" /\ x.start <= k
               /\ {x.from, x.to} \subseteq visible}}

(***************************************************************************)
(* _page_components: whole connected components, in the order of their     *)
(* least member, after the resume position; the first component is emitted *)
(* whatever its size, the others while the page has room.                  *)
(***************************************************************************)
Components(k) ==
    LET joined == VisibleEdges("SUPPORT", k) \cup VisibleEdges("CONTRADICTION", k)
        both == joined \cup {<<e[2], e[1]>> : e \in joined}
    IN {Closure(both, {c}) : c \in VisibleCandidates(k)}

Remaining(k, after) == {K \in Components(k) : Min(K) > after}

Emitted(k, after) ==
    LET rest == Remaining(k, after)
    IN {K \in rest : LET upTo == {J \in rest : Min(J) <= Min(K)}
                     IN upTo = {K} \/ Cardinality(UNION upTo) <= PageSize}

(***************************************************************************)
(* SecondBrainRecallRuntime.recall: of two displayed candidates in open    *)
(* contradiction the better supported one is answered, on a tie neither.   *)
(***************************************************************************)
Answered(page, k) ==
    LET support(c) == Cardinality({e \in VisibleEdges("SUPPORT", k) : e[2] = c})
        open == {e \in VisibleEdges("CONTRADICTION", k) : {e[1], e[2]} \subseteq page}
        loses(c) == \E e \in open : \E i \in {1, 2} :
                        e[i] = c /\ support(c) <= support(e[3 - i])
    IN {c \in page : ~ loses(c)}

(***************************************************************************)
(* acquire_recall_snapshot.  A first page names its cut, a later one       *)
(* resumes a durable cursor row that must not have expired.  The cursor of *)
(* the next page is recorded, or found recorded with its old expiry.       *)
(***************************************************************************)
IssueCursor(k, after) ==
    IF \E x \in cursors : x.cut = k /\ x.after = after THEN cursors
    ELSE cursors \cup {[cut |-> k, after |-> after, live |-> TRUE]}

\* Recall provenance with every gate PASS, for a cut the workspace has reached.
RecallAuthorized(k) == migration = "SERVING_READY" /\ k <= seq

\* RecallServeSnapshotV2: a page may only refer to candidates it displays.
SnapshotAdmits(page, k) ==
    \A e \in VisibleEdges("SUPPORT", k) \cup VisibleEdges("CONTRADICTION", k) :
        e[1] \in page <=> e[2] \in page

Acquire(k, after) ==
    LET emitted == Emitted(k, after)
        page == UNION emitted
        more == emitted # Remaining(k, after)
        last == Max({Min(K) : K \in emitted})
    IN /\ RecallAuthorized(k)
       /\ SnapshotAdmits(page, k)
       /\ cursors' = IF more THEN IssueCursor(k, last) ELSE cursors
       /\ Cardinality(cursors') <= MaxCursors
       /\ reader' = [phase |-> IF more THEN "paging" ELSE "done", cut |-> k,
                     after |-> IF more THEN last ELSE after, live |-> more,
                     got |-> reader.got \cup page,
                     served |-> reader.served \cup Answered(page, k)]
       /\ UNCHANGED <<migration, seq, candidate, versions, closures, edges>>

FirstPage(k) ==
    /\ reader.phase = "idle"
    /\ Acquire(k, 0)

\* _resume_after and _verify_continuation: row and continuation are both unexpired.
CursorResumes ==
    /\ reader.phase = "paging"
    /\ reader.live
    /\ [cut |-> reader.cut, after |-> reader.after, live |-> TRUE] \in cursors

Mut_NextPage ==
    /\ CursorResumes
    /\ Acquire(seq, reader.after)

NextPage ==
    /\ CursorResumes
    /\ Acquire(reader.cut, reader.after)

\* The caller drops what it has and starts again (a refused page, a lost answer).
Abandon ==
    /\ reader.phase # "idle"
    /\ reader' = IdleReader
    /\ UNCHANGED <<migration, seq, candidate, versions, closures, edges, cursors>>

\* 300 seconds pass: every cursor row and the caller's continuation expire.
Expire ==
    /\ cursors # {}
    /\ cursors' = {[x EXCEPT !.live = FALSE] : x \in cursors}
    /\ reader' = [reader EXCEPT !.live = FALSE]
    /\ UNCHANGED <<migration, seq, candidate, versions, closures, edges>>

PurgeExpiredRecallCursors ==
    /\ \E x \in cursors : ~x.live
    /\ cursors' = {x \in cursors : x.live}
    /\ UNCHANGED <<migration, seq, candidate, versions, closures, edges, reader>>

\* The bound on the commands, after those that set the workspace up.
MoreCommands == seq < MaxCommands + (IF PreVersions \subseteq versions THEN BaseSeq ELSE 1)

Next ==
    \/ SetAuthority
    \/ ClassifyLegacy
    \/ PromoteLegacy
    \/ /\ MoreCommands
       /\ \E kind \in Kinds, c \in Candidates, cut \in {seq - 1, seq} :
              \E o \in Related(kind, c) : AppendLedgerCommand(kind, c, o, cut)
    \/ \E k \in (seq - MaxLookback)..seq : k > 0 /\ FirstPage(k)
    \/ NextPage
    \/ Abandon
    \/ Expire
    \/ PurgeExpiredRecallCursors

Spec == Init /\ [][Next]_vars

(***************************************************************************)
(* Properties.                                                             *)
(***************************************************************************)

\* A reader that pages to the end of a recall has received exactly the
\* candidates approved at its cut, whatever was appended, corrected or revoked
\* between its pages, and no two candidates it was answered stand in an open
\* contradiction at that cut: a contradiction never falls between two pages, and
\* Core never refuses a page this authority composed.
RecallIsTheCut ==
    /\ reader.phase = "paging" =>
        SnapshotAdmits(UNION Emitted(reader.cut, reader.after), reader.cut)
    /\ reader.phase = "done" =>
        /\ reader.got = VisibleCandidates(reader.cut)
        /\ \A e \in VisibleEdges("CONTRADICTION", reader.cut) :
               ~ {e[1], e[2]} \subseteq reader.served

\* Revoking or forgetting a candidate reaches everything that rested on it:
\* no candidate is APPROVED whose support chain contains one that was revoked
\* or forgotten after the chain was declared.
RevocationReaches ==
    \A e \in edges :
        (e.kind = "SUPPORT" /\ e.state = "ACTIVE"
            /\ candidate[e.from].state \in {"REVOKED", "FORGOTTEN"}
            /\ candidate[e.from].rev > e.start)
        => candidate[e.to].state # "APPROVED"

-----------------------------------------------------------------------------
LedgerAssumption == N \in Nat /\ PageSize \in Nat /\ Preapproved \subseteq Candidates

States == {"ABSENT", "PENDING", "APPROVED", "REJECTED", "REVOKED", "FORGOTTEN"}

\* No row is newer than the sequence, and what was supported was APPROVED then:
\* it can only have been revoked or forgotten since.
RowsAreOfThePast ==
    /\ seq \in Nat
    /\ candidate \in [Candidates -> [state : States, rev : 0..seq]]
    /\ \A e \in edges :
          /\ e.from \in Candidates /\ e.to \in Candidates /\ e.start \in 0..seq
          /\ e.kind = "SUPPORT" /\ e.state = "ACTIVE" =>
                 candidate[e.to].state \in {"APPROVED", "REVOKED", "FORGOTTEN"}

RevocationInvariant == RowsAreOfThePast /\ RevocationReaches

\* What a caller holds between two pages: the components up to its position, at a
\* cut that the workspace has reached, and no open contradiction among what it
\* was answered.
PagesTyped ==
    /\ seq \in Nat
    /\ \A v \in versions : v.c \in Candidates
    /\ reader \in [phase : {"idle", "paging", "done"}, cut : Int, after : Nat,
                   live : BOOLEAN, got : SUBSET Candidates, served : SUBSET Candidates]

PagesKept ==
    /\ reader.phase = "idle" => reader = IdleReader
    /\ reader.phase # "idle" => reader.cut <= seq
    /\ reader.served \subseteq reader.got
    /\ \A k \in Int : k = reader.cut =>
          /\ reader.phase = "paging" =>
                 reader.got = UNION {K \in Components(k) : Min(K) <= reader.after}
          /\ reader.phase = "done" => reader.got = VisibleCandidates(k)
          /\ reader.phase # "idle" => \A e \in VisibleEdges("CONTRADICTION", k) :
                 ~ {e[1], e[2]} \subseteq reader.served

RecallInvariant == PagesTyped /\ PagesKept
=============================================================================
