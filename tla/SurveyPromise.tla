---------------------------- MODULE SurveyPromise ----------------------------
(***************************************************************************)
(* What a survey promises its clients (services/api.go), with no server in *)
(* sight: data providers hand over their responses, and a querier receives, *)
(* once, the aggregate of all the responses that satisfy the predicate and *)
(* of nothing else, at a time when every response has been handed over.    *)
(***************************************************************************)
CONSTANTS DP, Querier, Matching

VARIABLES given,   \* data providers whose upload has been acknowledged
          result   \* the answers returned

promise == <<given, result>>

Init == given = {} /\ result = {}

Give(d) == given' = given \cup {d} /\ UNCHANGED result

Answer(q) ==
  /\ given = DP
  /\ \A r \in result : r.querier # q
  /\ result' = result \cup {[querier |-> q, data |-> Matching]}
  /\ UNCHANGED given

Next == (\E d \in DP : Give(d)) \/ (\E q \in Querier : Answer(q))

Spec == Init /\ [][Next]_promise
=============================================================================
