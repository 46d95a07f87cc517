--------------------------- MODULE MCSurveyService ---------------------------
(* Instances of SurveyService for TLC: three servers, of which the first   *)
(* creates the survey and answers, and up to three data providers.         *)
EXTENDS SurveyService, TLC

CONSTANTS s1, s2, s3, d1, d2, d3

(* s2 has two data providers, s3 none. *)
UnevenHome == (d1 :> s1) @@ (d2 :> s2) @@ (d3 :> s2)
(* The root and s3 have data of their own (AppFlag). *)
EvenHome == (d1 :> s1) @@ (d3 :> s3)
(* Both data providers upload to the root. *)
RaceHome == (d1 :> s1) @@ (d3 :> s1)
(* A single data provider, at the root or at the last server. *)
OneAtRoot == d1 :> s1
LastHome == d1 :> s3

(* The survey is created at s1; the querier asks s1, or another server.    *)
Entry == [q \in Querier |-> s1]
OtherEntry == [q \in Querier |-> s2]
ExactMapDPs == [s \in Server |-> Cardinality(Home(s))]

(* A slow data provider: the states in which it has not begun its upload.  *)
SlowProvider == upload[d1].pc = "idle"
=============================================================================
