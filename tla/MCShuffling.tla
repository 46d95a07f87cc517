----------------------------- MODULE MCShuffling -----------------------------
(* Instances of Shuffling for TLC.                                         *)
EXTENDS Shuffling, TLC

CONSTANTS s1, s2, s3

Circle == <<s1, s2, s3>>
Shares == (s1 :> 3) @@ (s2 :> 5) @@ (s3 :> 4)
AggregateKey == 12

Encrypt(m, r) == [K |-> r, C |-> m + r * AggregateKey]

TwoResponses ==
  <<[key |-> <<Encrypt(1, 1)>>, agg |-> <<Encrypt(5, 2)>>],
    [key |-> <<Encrypt(2, 3)>>, agg |-> <<Encrypt(6, 1)>>]>>
OneResponse == <<[key |-> <<Encrypt(1, 1)>>, agg |-> <<Encrypt(5, 2)>>]>>
WideResponses ==
  <<[key |-> <<Encrypt(1, 1), Encrypt(2, 1), Encrypt(0, 3)>>, agg |-> <<Encrypt(5, 2)>>],
    [key |-> <<Encrypt(2, 3), Encrypt(2, 1), Encrypt(0, 3)>>, agg |-> <<Encrypt(6, 1)>>]>>

NoFile == [s \in {s1, s2, s3} |-> <<>>]
(* Two servers have files of an earlier survey of the same servers.        *)
SameRoster ==
  (s1 :> <<>>) @@ (s2 :> <<[key |-> AggregateKey, width |-> 4]>>) @@
  (s3 :> <<[key |-> AggregateKey, width |-> 6]>>)
(* s1 and s2 have files of an earlier survey that s3 did not take part in. *)
OtherRoster ==
  (s1 :> <<[key |-> Shares[s1] + Shares[s2], width |-> 4]>>) @@
  (s2 :> <<[key |-> Shares[s1] + Shares[s2], width |-> 4]>>) @@ (s3 :> <<>>)
(* All have files of an earlier survey that asked for two attributes less. *)
NarrowFile == [s \in {s1, s2, s3} |-> <<[key |-> AggregateKey, width |-> 2]>>]

AnySurvey(responses, lineSize, appFlag, oldFile) ==
  [Responses |-> responses, LineSize |-> lineSize, AppFlag |-> appFlag,
   OldFile |-> oldFile]

(* One response without files; two with fresh values or those of files.    *)
Surveys == {AnySurvey(OneResponse, 2, FALSE, NoFile),
            AnySurvey(TwoResponses, 2, TRUE, SameRoster)}
AfterOtherRoster == {AnySurvey(TwoResponses, 2, TRUE, OtherRoster)}
AfterNarrower == {AnySurvey(WideResponses, 4, TRUE, NarrowFile)}
=============================================================================
