------------------------------- MODULE Circuit -------------------------------
(* The circuit of the shuffling and of the deterministic tagging protocol: *)
(* the nodes of the root's tree in the order of Tree().List(), the root    *)
(* first, closed to a ring.                                                *)
EXTENDS Naturals, Sequences

Root(list) == list[1]

PositionOf(list, s) == CHOOSE i \in DOMAIN list : list[i] = s

(* Mutant of NextInCircuit: the node's own position is taken.              *)
OwnPosition(list, s) == list[PositionOf(list, s)]

(* Mutant of NextInCircuit: the list is not closed to a ring.              *)
NoWrapAround(list, s) ==
  LET i == PositionOf(list, s)
  IN  list[IF i = Len(list) THEN i ELSE i + 1]

NextInCircuit(list, s) == list[(PositionOf(list, s) % Len(list)) + 1]
=============================================================================
