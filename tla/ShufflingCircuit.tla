---------------------------- MODULE ShufflingCircuit ----------------------------
(* What the protocols that shuffle a matrix have in common: one circuit of *)
(* all servers, that the matrix goes round once.                           *)
EXTENDS Integers, Sequences, FiniteSets, CipherMatrix, Circuit

CONSTANTS
  Server,
  List,    \* Tree().List(), the root first
  Faults   \* messages may be lost, and a server stops waiting for them

ASSUME CircuitAssumption ==
  /\ IsFiniteSet(Server) /\ Faults \in BOOLEAN
  /\ List \in Seq(Server) /\ Len(List) > 0
  /\ \A i, j \in DOMAIN List : List[i] = List[j] => i = j
  /\ \A s \in Server : \E i \in DOMAIN List : List[i] = s
=============================================================================
