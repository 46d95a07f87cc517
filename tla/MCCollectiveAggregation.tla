----------------------- MODULE MCCollectiveAggregation -----------------------
(* Instances of CollectiveAggregation for TLC.  The values given to the    *)
(* nodes are different powers of two, so that a sum shows whose data is in *)
(* it and how often.                                                       *)
EXTENDS CollectiveAggregation, TLC

CONSTANTS n0, n1, n2, n3, n4, gA, gB

(* A binary tree of five nodes: n1 and n2 below n0, n3 and n4 below n1.    *)
BinaryTree == (n1 :> n0) @@ (n2 :> n0) @@ (n3 :> n1) @@ (n4 :> n1)
(* A root with two children. *)
Star == (n1 :> n0) @@ (n2 :> n0)

BinarySubtrees ==
  (n0 :> Node) @@ (n1 :> {n1, n3, n4}) @@ (n2 :> {n2}) @@ (n3 :> {n3}) @@ (n4 :> {n4})
StarSubtrees == (n0 :> Node) @@ (n1 :> {n1}) @@ (n2 :> {n2})

None == [n \in {} |-> <<>>]

(* All nodes have groups, of vectors of one length.                        *)
GroupedData ==
  (n0 :> (gA :> <<1, 1>>)) @@ (n1 :> (gB :> <<2, 4>>)) @@
  (n2 :> ((gA :> <<4, 0>>) @@ (gB :> <<8, 8>>))) @@
  (n3 :> (gA :> <<16, 32>>)) @@ (n4 :> (gB :> <<32, 16>>))

(* Simple vectors, longer below than at the root; n1 has an empty one.     *)
SimpleData ==
  (n0 :> <<1, 1>>) @@ (n1 :> <<>>) @@
  (n2 :> <<2, 2, 2>>) @@ (n3 :> <<4, 0, 4>>) @@ (n4 :> <<8, 8, 0>>)

(* The second child has matched nothing.                                   *)
EmptyChild == (n0 :> (gA :> <<1>>)) @@ (n1 :> (gA :> <<2>>)) @@ (n2 :> NoGroup)

(* A node was given no data reference.                                     *)
MissingReference ==
  (n0 :> (gA :> <<1>>)) @@ (n1 :> (gA :> <<2>>)) @@ (n2 :> (gA :> <<4>>)) @@
  (n3 :> (gA :> <<8>>))

FiveNodes == {[Grouped |-> GroupedData, Simple |-> None],
              [Grouped |-> None, Simple |-> SimpleData],
              [Grouped |-> MissingReference, Simple |-> None]}
OneEmpty == {[Grouped |-> EmptyChild, Simple |-> None]}
=============================================================================
