-------------------------- MODULE PublishedLineage --------------------------
(***************************************************************************)
(* What publication promises, whatever the publishers do concurrently: the *)
(* generations that were ever current form one append-only sequence.  Each *)
(* new one names the previous one as its parent and the previous release   *)
(* as the release before it, and keeps everything the previous one         *)
(* contains unless it is an administrative revocation.                     *)
(***************************************************************************)
EXTENDS Naturals, Sequences

CONSTANTS None,   \* the parent and the previous release of the first entry
          Admin   \* the label of an administrative revocation

VARIABLE lineage  \* entries [gen, parent, release, prev, content, label]

Init == lineage = << >>

Newest == lineage[Len(lineage)]

\* e may follow the entries published so far.
Follows(e) ==
  /\ \A i \in 1 .. Len(lineage) : lineage[i].gen # e.gen
  /\ IF lineage = << >>
     THEN e.parent = None /\ e.prev = None
     ELSE /\ e.parent = Newest.gen
          /\ e.prev = Newest.release
          /\ e.label = Admin \/ Newest.content \subseteq e.content

Publish ==
  /\ Len(lineage') = Len(lineage) + 1
  /\ \A i \in 1 .. Len(lineage) : lineage'[i] = lineage[i]
  /\ Follows(lineage'[Len(lineage) + 1])

Spec == Init /\ [][Publish]_lineage
=============================================================================
