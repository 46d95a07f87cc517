------------------------ MODULE MCDeterministicTagging ------------------------
(* Instances of DeterministicTagging for TLC.                              *)
EXTENDS DeterministicTagging, FiniteSetsExt, TLC

CONSTANTS s1, s2, s3

Trio == {s1, s2, s3}
(* Trees with different roots list the servers in different orders.        *)
Lists == (s1 :> <<s1, s2, s3>>) @@ (s2 :> <<s2, s1, s3>>) @@ (s3 :> <<s3, s1, s2>>)
Shares == (s1 :> 3) @@ (s2 :> 5) @@ (s3 :> 4)
Secrets == (s1 :> 2) @@ (s2 :> 3) @@ (s3 :> -2)

ShareSum == [S \in SUBSET Trio |-> MapThenSumSet(LAMBDA s : Shares[s], S)]

Encrypt(m, r) == [K |-> r, C |-> m + r * ShareSum[Trio]]
(* Plaintexts that two servers have, that one has twice, and a server with *)
(* none.                                                                   *)
Targets == (s1 :> <<Encrypt(1, 1), Encrypt(2, 4)>>) @@
           (s2 :> <<Encrypt(2, 3), Encrypt(0, 1), Encrypt(2, 2)>>) @@
           (s3 :> <<>>)
=============================================================================
