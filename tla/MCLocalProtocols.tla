--------------------------- MODULE MCLocalProtocols ---------------------------
(* Instances of LocalProtocols for TLC.                                    *)
EXTENDS LocalProtocols, TLC

CONSTANTS a1, a2, c1, e1, e2, v1, gA, gB

(* Every protocol, two of them twice.                                      *)
Kinds ==
  (a1 :> "LocalAggregation") @@ (a2 :> "LocalAggregation") @@
  (c1 :> "LocalClearAggregation") @@
  (e1 :> "AddRmServer") @@ (e2 :> "AddRmServer") @@ (v1 :> "ProofsVerification")

Matching(g, w, x) == [group |-> g, where |-> w, value |-> x]

Targets ==
  (a1 :> <<[tag |-> gA, value |-> 1], [tag |-> gB, value |-> 2], [tag |-> gA, value |-> 4]>>) @@
  (a2 :> <<[tag |-> gB, value |-> 8]>>) @@
  (c1 :> <<Matching(<<1>>, <<1, 1>>, 3), Matching(<<1>>, <<1, 0>>, 5),
           Matching(<<1>>, <<1, 1>>, 7), Matching(<<2>>, <<0, 1>>, 9)>>) @@
  (e1 :> [add |-> TRUE, key |-> 5, cts |-> <<[K |-> 2, C |-> 9], [K |-> 3, C |-> 9]>>]) @@
  (e2 :> [add |-> FALSE, key |-> 2, cts |-> <<[K |-> 4, C |-> 13]>>]) @@
  (v1 :> <<{TRUE}, {}, {TRUE, FALSE}, {TRUE}, {FALSE}, {}>>)

(* One protocol twice.                                                     *)
TwoKinds == [i \in {a1, a2} |-> Kinds[i]]
TwoTargets == [i \in {a1, a2} |-> Targets[i]]
=============================================================================
