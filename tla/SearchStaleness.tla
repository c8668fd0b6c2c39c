-------------------------- MODULE SearchStaleness --------------------------
(***************************************************************************)
(* SearchService.query (search.py) beside concurrent publishers: one query *)
(* reads the search pointer, the wiki pointer, the two sequence numbers,   *)
(* the index and one resolution per hit, each by a statement of its own.   *)
(***************************************************************************)
EXTENDS Publication

CONSTANT MaxLag   \* max_generation_lag (5 in the code)

MaxLagAssumption == MaxLag \in Nat

VARIABLE query    \* the query being answered, or the last response

qvars == <<vars, query>>

NoQuery == [pc |-> "idle", s |-> None, w |-> None, todo |-> {}, hits |-> {},
            disabled |-> FALSE, since |-> 0]

QInit == Init /\ query = NoQuery

\* s = current_search_pointer().  since counts the activations seen by any
\* query that starts now (history, for the properties).
ReadSearchPointer ==
  /\ query.pc \in {"idle", "answered"}
  /\ query' = [NoQuery EXCEPT !.pc = "wiki", !.s = search, !.since = Len(outbox)]

\* w = current_pointer(); no answer without both pointers.
ReadWikiPointer ==
  /\ query.pc = "wiki"
  /\ query' = [query EXCEPT !.w = pointer,
                 !.pc = IF query.s = None \/ pointer = None THEN "answered"
                        ELSE "lag"]

\* Mutant: off by one.
Mut_TooStale(s, w) == row[w].seq > row[s].seq + MaxLag + 1

\* The index is too far behind: results are disabled.
TooStale(s, w) == row[w].seq > row[s].seq + MaxLag

CheckLag ==
  /\ query.pc = "lag"
  /\ query' = IF TooStale(query.s, query.w)
              THEN [query EXCEPT !.pc = "answered", !.disabled = TRUE]
              ELSE [query EXCEPT !.pc = "filter", !.todo = index[query.s]]

\* Mutant: the index is trusted.
Mut_Accepted(w, c) == TRUE

\* A hit is kept when the wiki generation resolves its claim as accepted.
Accepted(w, c) == resolution[w][c] = "accepted"

FilterHit ==
  /\ query.pc = "filter" /\ query.todo # {}
  /\ \E c \in query.todo :
       query' = [query EXCEPT !.todo = @ \ {c},
                   !.hits = IF Accepted(query.w, c) THEN @ \cup {c} ELSE @]

Answer ==
  /\ query.pc = "filter" /\ query.todo = {}
  /\ query' = [query EXCEPT !.pc = "answered"]

Query ==
  /\ ReadSearchPointer \/ ReadWikiPointer \/ CheckLag \/ FilterHit \/ Answer
  /\ UNCHANGED vars

QNext == (Next /\ UNCHANGED query) \/ Query

QSpec == QInit /\ [][QNext]_qvars

-----------------------------------------------------------------------------
(* Properties                                                              *)

\* Every hit was in the content of a generation that was current at some
\* moment of the query: a claim whose revocation was activated before the
\* query began is never returned, however stale the index and however late
\* the post-publication work of any publisher.
HitsAreCurrent ==
  \A c \in query.hits :
    \E i \in 1 .. Len(outbox) :
      i >= query.since /\ c \in ClaimsOf(objects[outbox[i]].content)

Position(g) == CHOOSE i \in 1 .. Len(outbox) : outbox[i] = g

\* An answer that is not disabled comes from an index at most MaxLag
\* activations behind the wiki generation it was filtered against.
LagIsBounded ==
  query.pc = "answered" /\ ~query.disabled /\ query.s # None /\ query.w # None =>
    Position(query.w) <= Position(query.s) + MaxLag

\* What SearchService.query promises beside any publishers.
SearchIsCurrent == HitsAreCurrent /\ LagIsBounded

-----------------------------------------------------------------------------
(* The inductive invariant behind SearchIsCurrent, on top of those of      *)
(* Publication.                                                            *)

\* Later activations have larger numbers, by one at least for each of them.
SeqCountsActivations ==
  \A i, j \in 1 .. Len(outbox) :
    i <= j => row[outbox[i]].seq + (j - i) <= row[outbox[j]].seq

\* The pointers of a query are activated generations, the wiki pointer one that
\* was current since the query began; what it filters is close enough, and what
\* it keeps is in the snapshot of the wiki generation.
QueryKnows ==
  /\ query \in [pc : {"idle", "wiki", "lag", "filter", "answered"}, s : Opt, w : Opt,
                todo : SUBSET Claims, hits : SUBSET Claims, disabled : BOOLEAN,
                since : 0 .. Len(outbox)]
  /\ query.s # None => query.s \in ActivatedGens
  /\ query.w # None => \E i \in 1 .. Len(outbox) : i >= query.since /\ outbox[i] = query.w
  /\ query.pc \in {"lag", "filter"} => query.s # None /\ query.w # None
  /\ query.pc \in {"idle", "wiki", "lag"} => query.hits = {} /\ ~query.disabled
  /\ query.pc = "filter" \/ (query.pc = "answered" /\ ~query.disabled) =>
       query.s = None \/ query.w = None \/ ~TooStale(query.s, query.w)
  /\ \A c \in query.hits :
       query.w # None /\ c \in ClaimsOf(objects[query.w].content)

SearchInvariant == SeqCountsActivations /\ QueryKnows
=============================================================================
