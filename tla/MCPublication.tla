--------------------------- MODULE MCPublication ---------------------------
(***************************************************************************)
(* Small instances of Publication for TLC: the publishers alone, and a     *)
(* query beside publishers that ingest and revoke.                         *)
(***************************************************************************)
EXTENDS SearchStaleness, TLC

CONSTANTS p1, p2, c1, c2, s1, k1

VARIABLE active   \* whether the behaviour has queries

\* The source and the changeset both assert c1, which an administrator may
\* revoke; the source asserts c2 too.
MCAsserts == [l \in Sources \cup Changesets |-> IF l = s1 THEN {c1, c2} ELSE {c1}]

MCRevokeSets == {{c1}}

Symmetry == Permutations(Publishers)

MCInit == QInit /\ active \in {"publishers", "search"}

MCNext ==
  /\ \/ active = "publishers" /\ Next /\ UNCHANGED query
     \/ active = "search" /\ QNext /\ \A p \in Publishers : pub'[p].job.kind # "changeset"
  /\ UNCHANGED active

all == <<qvars, active>>

MCSpec == MCInit /\ [][MCNext]_all

ASSUME MaxLagAssumption
=============================================================================
