------------------------- MODULE MCOperationalEvents -------------------------
(***************************************************************************)
(* Two generations in a chain, and a sibling of the first: whichever of    *)
(* the siblings is handled first decides which lineage goes on.            *)
(***************************************************************************)
EXTENDS OperationalEvents

CONSTANTS none, g1, g2, g9, w1, w2

Event(id, seq, gen, parent) ==
  [id |-> id, seq |-> seq, gen |-> gen, parent |-> parent]

SiblingEvents == {Event(1, 1, g1, none), Event(2, 1, g9, none), Event(3, 2, g2, g1)}
=============================================================================
