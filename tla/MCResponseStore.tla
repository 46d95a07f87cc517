--------------------------- MODULE MCResponseStore ---------------------------
(* Small surveys: one or two queries, responses that are clear, encrypted, *)
(* mixed or incomplete.                                                    *)
EXTENDS ResponseStore, TLC

TwoServers == {"s1", "s2"}
ThreeServers == TwoServers \cup {"s3"}
Attributes == {"g1", "g2", "w1", "w2", "a1", "a2"}

None == [v \in {} |-> 0]

(* Both group by and where attributes in clear.                            *)
ClearResponse(g, w, a) ==
  [GroupByClear |-> "g1" :> g, GroupByEnc |-> None, WhereClear |-> "w1" :> w, WhereEnc |-> None,
   AggregatingAttributesClear |-> "a1" :> a, AggregatingAttributesEnc |-> None]

(* All encrypted.                                                          *)
EncResponse(g, w, a) ==
  [GroupByClear |-> None, GroupByEnc |-> "g1" :> g, WhereClear |-> None, WhereEnc |-> "w1" :> w,
   AggregatingAttributesClear |-> None, AggregatingAttributesEnc |-> "a1" :> a]

(* Some of each, one attribute in both forms, and the second attributes    *)
(* that the others lack.                                                   *)
MixedResponse(g, w, a) ==
  [GroupByClear |-> ("g1" :> g) @@ ("g2" :> 1), GroupByEnc |-> "g1" :> g,
   WhereClear |-> "w2" :> w, WhereEnc |-> None,
   AggregatingAttributesClear |-> "a2" :> a, AggregatingAttributesEnc |-> "a1" :> a]

SumOnly == [GroupBy |-> <<>>, Sum |-> <<"a1">>, Where |-> <<>>, Count |-> FALSE, Predicate |-> {}]

OneWhere ==
  [GroupBy |-> <<"g1">>, Sum |-> <<"a1", "count">>, Where |-> <<[Name |-> "w1", Value |-> 1]>>,
   Count |-> TRUE, Predicate |-> {{<<0, 1>>}}]

(* v0 == v1 || v2 == v3, with a second attribute of each kind.             *)
TwoWheres ==
  [GroupBy |-> <<"g2", "g1">>, Sum |-> <<"a2", "a1">>,
   Where |-> <<[Name |-> "w1", Value |-> 1], [Name |-> "w2", Value |-> 1]>>,
   Count |-> FALSE, Predicate |-> {{<<0, 1>>}, {<<2, 3>>}}]

Uploads(a, b) == [s \in ThreeServers |-> CASE s = "s1" -> a [] s = "s2" -> b [] OTHER -> <<>>]

OneQuery(q, a, b) == [query |-> q, uploads |-> Uploads(a, b), queries |-> 1, repetitions |-> 1]

FirstUploads ==
  {<< <<r1, r2>>, <<r3>> >> :
     r1 \in {ClearResponse(1, 1, 1), EncResponse(1, 1, 1)},
     r2 \in {ClearResponse(1, w, 2) : w \in {0, 1}},
     r3 \in {ClearResponse(2, 1, 4), EncResponse(2, 0, 4), MixedResponse(1, 1, 4)}}

SecondUploads ==
  {<< <<EncResponse(2, 1, 8)>> >>, << <<ClearResponse(1, 1, 8)>> >>, << <<MixedResponse(2, 1, 8)>> >>}

(* Encrypted responses only when a second query follows.                   *)
TwoQueries(q) ==
  [query |-> q, queries |-> 2, repetitions |-> 1,
   uploads |-> Uploads(<< <<EncResponse(1, 1, 1)>>, <<EncResponse(1, 1, 2), EncResponse(2, 1, 4)>> >>,
                       << <<MixedResponse(1, 1, 8)>>, <<MixedResponse(2, 0, 16)>> >>)]

(* A response that is sent three times, another one that does not match.   *)
Repeated ==
  [query |-> OneWhere, queries |-> 1, repetitions |-> 3,
   uploads |-> Uploads(<< <<EncResponse(1, 1, 1)>> >>, << <<ClearResponse(1, 1, 8)>>, <<EncResponse(2, 0, 1)>> >>)]

SomeInputs ==
  {OneQuery(q, a, b) : q \in {SumOnly, OneWhere, TwoWheres}, a \in FirstUploads, b \in SecondUploads}
    \cup {TwoQueries(q) : q \in {SumOnly, OneWhere, TwoWheres}} \cup {Repeated}

(* Clear responses and a second query.                                     *)
ClearTwice ==
  {[query |-> OneWhere, queries |-> 2, repetitions |-> 1,
    uploads |-> Uploads(<< <<ClearResponse(1, 1, 1)>>, <<ClearResponse(1, 1, 2)>> >>, <<>>)]}
=============================================================================
