-------------------------- MODULE MCDecryptionTable --------------------------
(* Instances of DecryptionTable for TLC: every value in the range of the   *)
(* search, and one beyond it on either side.                               *)
EXTENDS DecryptionTable

Values == -MaxHomomorphicInt..MaxHomomorphicInt
Limits == 0..MaxHomomorphicInt
=============================================================================
