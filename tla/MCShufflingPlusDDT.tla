-------------------------- MODULE MCShufflingPlusDDT --------------------------
(* Instances of ShufflingPlusDDT for TLC.                                  *)
EXTENDS ShufflingPlusDDT, TLC

CONSTANTS s1, s2, s3

Circle == <<s1, s2, s3>>
Shares == (s1 :> 3) @@ (s2 :> 5) @@ (s3 :> 4)
Secrets == (s1 :> 2) @@ (s2 :> 3) @@ (s3 :> -2)

Encrypt(m, r) == [K |-> r, C |-> m + r * 12]
(* Two rows of two elements; three different values, one of them twice.    *)
TwoRows == <<<<Encrypt(1, 1), Encrypt(0, 2)>>, <<Encrypt(4, 3), Encrypt(1, 2)>>>>
ThreeRows == <<<<Encrypt(1, 1)>>, <<Encrypt(2, 3)>>, <<Encrypt(1, 2)>>>>
=============================================================================
