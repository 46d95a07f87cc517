------------------------------ MODULE MCProofLists ------------------------------
(* Instances of ProofLists for TLC.                                        *)
EXTENDS ProofLists

CONSTANTS MaxLength   \* the longest list

Encrypt(x, m, r) == [K |-> r, C |-> m + r * x]

List(kind, c, items) == [kind |-> kind, c |-> c, items |-> items, share |-> <<1, 1>>]
ListsOf(kind, c, Items) == {List(kind, c, s) : s \in UNION {[1..n -> Items] : n \in 0..MaxLength}}

(* A server of key 3 switches to the key 5; one ciphertext was added to    *)
(* where it should be subtracted from, one has another public key.         *)
Switched(r, vi) == [ks2 |-> -r * 3 + vi * 5, rBNeg |-> -r, vi |-> vi]
NotNegated(r, vi) == [ks2 |-> r * 3 + vi * 5, rBNeg |-> -r, vi |-> vi]
KeySwitchKeys == [K |-> 3, Q |-> 5, k |-> 3]
KeySwitchLists ==
  ListsOf("key_switch", KeySwitchKeys, {Switched(2, 1), Switched(1, 4), NotNegated(2, 1)})
    \cup {List("key_switch", [KeySwitchKeys EXCEPT !.K = 4], <<Switched(2, 1), Switched(1, 4)>>)}

(* A server of key 3 takes its layer off and multiplies by its secret 2;   *)
(* one list has the two in the other order, as the protocol gives them.    *)
Tagged(ct, k, s) == [bef |-> ct, aft |-> [K |-> s * ct.K, C |-> s * (ct.C - k * ct.K)]]
TagKeys == [K |-> 3, k |-> 3, s |-> 2]
TagLists ==
  ListsOf("tag", TagKeys, {Tagged(Encrypt(4, 1, 2), 3, 2), Tagged(Encrypt(4, 6, 1), 3, 2),
                           Tagged(Encrypt(4, 6, 1), 3, 1)})
    \cup {List("tag", [K |-> 3, k |-> 2, s |-> 3], <<Tagged(Encrypt(4, 1, 2), 3, 2)>>)}

(* The secret 2 is added to the right half; the list of two is that of the *)
(* test, the same addition twice.                                          *)
Added(c1, s) == [c1 |-> c1, s |-> s, c2 |-> s, r |-> c1 + s]
AddedAnother == [Added(7, 2) EXCEPT !.c2 = 3]
AdditionLists ==
  {List("tag_addition", 0, s) : s \in {<<>>, <<Added(7, 2)>>, <<AddedAnother>>, <<Added(7, 2), Added(7, 2)>>}}
DistinctAdditions == {List("tag_addition", 0, <<Added(7, 2), AddedAnother>>)}
TagsAndAdditions == TagLists \cup DistinctAdditions

Sum(data) == [data |-> data, result |-> Acum(data)]
WithoutFirst(data) == [data |-> data, result |-> Acum(Tail(data))]
Data == <<Encrypt(4, 1, 2), Encrypt(4, 6, 1), Encrypt(4, 0, 3)>>
AggregationLists ==
  ListsOf("aggregation", 0, {Sum(Data), Sum(<<Data[2]>>), WithoutFirst(Data)})

(* Two rows are shuffled under the key 4, one of them with an element more *)
(* or an element missing, and a shuffle that blinds the wrong rows.        *)
Rows == << <<Encrypt(4, 1, 2), Encrypt(4, 6, 1)>>, <<Encrypt(4, 2, 1), Encrypt(4, 0, 3)>> >>
Ragged == << Rows[1], Append(Rows[2], Encrypt(4, 3, 1)) >>
Shuffle(rows, pi, beta, done) ==
  [original |-> rows, pi |-> pi, beta |-> beta, g |-> 1, h |-> 4, shuffled |-> ShuffleWith(rows, pi, done, 4)]
Factors == << <<1, 3>>, <<2, 5>> >>
ShuffleLists ==
  ListsOf("shuffle", [seed |-> 4],
          {Shuffle(Rows, <<2, 1>>, Factors, Factors), Shuffle(Rows, <<2, 1>>, Factors, Reverse(Factors)),
           Shuffle(Ragged, <<1, 2>>, Factors, Factors)})
    \cup {List("shuffle", [seed |-> 5], <<Shuffle(Rows, <<1, 2>>, Factors, Factors)>>)}

(* A server of key 3 joins or leaves.                                      *)
Changed(ct, d) == [bef |-> ct, aft |-> [ct EXCEPT !.C = @ + d * ct.K]]
AddRmLists ==
  ListsOf("add_rm", [K |-> 3, k |-> 3, toAdd |-> TRUE],
          {Changed(Encrypt(4, 1, 2), 3), Changed(Encrypt(4, 6, 1), 3), Changed(Encrypt(4, 6, 1), -3)})
    \cup ListsOf("add_rm", [K |-> 3, k |-> 3, toAdd |-> FALSE], {Changed(Encrypt(7, 1, 2), -3)})

AllLists ==
  KeySwitchLists \cup TagLists \cup AdditionLists \cup AggregationLists \cup ShuffleLists \cup AddRmLists

(* A third of a list is verified.                                          *)
Third(lists) == {[cl EXCEPT !.share = <<1, 3>>] : cl \in lists}
SomeLists == AllLists \cup Third(TagLists \cup KeySwitchLists)
ThirdOfAddRm == Third(AddRmLists)

(* Creation and encoding may give an error, but for the two lists that do  *)
(* not treat one as an error.                                              *)
AnyFault == {<<"tag_addition", "create">>, <<"shuffle", "create">>, <<"add_rm", "create">>,
             <<"key_switch", "encode">>, <<"aggregation", "decode">>}
TagFault == {<<"tag", "create">>}
KeySwitchFault == {<<"key_switch", "create">>}
=============================================================================
