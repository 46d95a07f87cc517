--------------------------- MODULE MCKeySwitching ---------------------------
(* Instances of KeySwitching for TLC.                                      *)
EXTENDS KeySwitching, FiniteSetsExt, TLC

CONSTANTS n0, n1, n2, n3

(* n1 and n2 below n0, n3 below n1: a node of each kind. *)
Nodes == {n0, n1, n2, n3}
Tree == (n1 :> n0) @@ (n2 :> n0) @@ (n3 :> n1)
SubtreesOf == (n0 :> Nodes) @@ (n1 :> {n1, n3}) @@ (n2 :> {n2}) @@ (n3 :> {n3})
Single == {n0}
NoParent == [n \in {} |-> n0]
OneSubtree == [n \in Single |-> Single]

Shares == (n0 :> 3) @@ (n1 :> 5) @@ (n2 :> 7) @@ (n3 :> -2)
ShareSum == [S \in SUBSET Node |-> MapThenSumSet(LAMBDA n : Shares[n], S)]
SharesOf == [n \in Node |-> Shares[n]]

Encrypt(m, r) == [K |-> r, C |-> m + r * ShareSum[Node]]
TwoResults == <<Encrypt(4, 2), Encrypt(0, 5)>>
=============================================================================
