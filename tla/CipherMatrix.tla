------------------------------ MODULE CipherMatrix ------------------------------
(* Matrices of ciphertexts: how they are sent (lib/crypto.go) and how they *)
(* are shuffled (lib/shuffle/shuffle.go).  A point is represented by its   *)
(* discrete logarithm.                                                     *)
EXTENDS Integers, Sequences, SequencesExt

CONSTANTS Beta   \* the values of the random scalars

ASSUME BetaAssumption == Beta \subseteq Int

Ciphertext == [K : Int, C : Int]

(* The bytes of a matrix are those of its rows one after the other; the    *)
(* lengths of the rows travel in a message of their own.                   *)
ToBytes(m) == FlattenSeq(m)
LengthsOf(m) == [i \in DOMAIN m |-> Len(m[i])]

Before(ls, i) ==
  LET sum[j \in 0..Len(ls)] == IF j = 0 THEN 0 ELSE sum[j - 1] + ls[j]
  IN  sum[i - 1]

(* Mutant of FromBytes: the position does not move on.                     *)
FirstBytes(b, ls) == [i \in DOMAIN ls |-> SubSeq(b, 1, ls[i])]

FromBytes(b, ls) ==
  [i \in DOMAIN ls |-> SubSeq(b, Before(ls, i) + 1, Before(ls, i) + ls[i])]

-----------------------------------------------------------------------------
(* The number of columns is that of the first row.                         *)
NQ(m) == Len(m[1])

Permutation(k) ==
  {pi \in [1..k -> 1..k] : \A i, j \in 1..k : pi[i] = pi[j] => i = j}

(* A random factor for each element.                                       *)
Blinding(m) == [DOMAIN m -> [1..NQ(m) -> Beta]]

(* rerandomize, with the pair (b, b h) that belongs to the key h.          *)
Rerandomize(ct, b, h) == [K |-> ct.K + b, C |-> ct.C + b * h]

ShuffleWith(m, pi, b, h) ==
  [i \in DOMAIN m |-> [j \in 1..NQ(m) |-> Rerandomize(m[pi[i]][j], b[pi[i]][j], h)]]
=============================================================================
