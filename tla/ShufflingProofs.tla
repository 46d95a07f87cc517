----------------------------- MODULE ShufflingProofs -----------------------------
(***************************************************************************)
(* Theorems about Shuffling and ShufflingPlusDDT for every set of servers, *)
(* circuit, data, permutations and blinding factors, with and without      *)
(* faults.                                                                 *)
(*                                                                         *)
(* The matrices are numbered from 1 in the order they are sent.  Every     *)
(* server is due to receive one of them, the root the last.                *)
(***************************************************************************)
EXTENDS Shuffling, ShufflingPlusDDT, FiniteSetTheorems, SequenceTheorems, WellFoundedInduction, TLAPS

N == Len(List)
TheRoot == Root(List)

(* The number of the matrix that s receives.                               *)
Due(s) == IF s = TheRoot THEN N ELSE PositionOf(List, s) - 1

(* Whoever sends matrix h + 1 has failed to.                               *)
SenderFailed(h) ==
  IF h = 0 THEN begun = "failed"
  ELSE \A s \in Server \ {TheRoot} : Due(s) = h => pc[s] = "failed"

(* Of the matrices, h have been sent.  The message with the lengths of the *)
(* next one may have been sent as well.                                    *)
Hops(h) ==
  /\ begun = "done" <=> h # 0
  /\ \A s \in Server :
       /\ datas[s] # <<>> <=> Due(s) <= h
       /\ Due(s) <= h => lengths[s] # <<>>
       /\ Due(s) > h /\ lengths[s] # <<>> => Due(s) = h + 1 /\ SenderFailed(h)
       /\ pc[s] \in {"data", "done"} => lengths[s] # <<>>
       /\ s # TheRoot => (pc[s] = "done" <=> Due(s) < h)

HopInv == \E h \in 0..N : Hops(h)

TypeInv ==
  /\ input \in Inputs
  /\ pc \in [Server -> {"length", "data", "done", "failed", "panicked"}]
  /\ begun \in {"no", "done", "failed", "panicked"}
  /\ DOMAIN lengths = Server /\ DOMAIN datas = Server

-----------------------------------------------------------------------------
(* Assumptions.  All responses of a survey have the same attributes.       *)
Uniform(rs) ==
  \A i \in DOMAIN rs : Len(rs[i].key) = Len(rs[1].key) /\ Len(rs[i].agg) = Len(rs[1].agg)
UniformResponses == \A survey \in Inputs : Uniform(survey.Responses)

(* Files of precomputed values are of the collective key.                  *)
SameRosterFiles ==
  \A survey \in Inputs : \A s \in Server : \A i \in DOMAIN survey.OldFile[s] :
    survey.OldFile[s][i].key = Collective

(* Two lines are as long as a row, and so are those of the files.          *)
RowWidth(rs) == Len(rs[1].key) + Len(rs[1].agg)
WideFiles ==
  \A survey \in Inputs :
    /\ RowWidth(survey.Responses) <= 2 * survey.LineSize
    /\ \A s \in Server : \A i \in DOMAIN survey.OldFile[s] :
         RowWidth(survey.Responses) <= survey.OldFile[s][i].width

-----------------------------------------------------------------------------
(* The root's matrix, and those that are made from it.                     *)
Given == WithDummy(input.Responses)
Height == Len(Given)
Width == RowWidth(input.Responses)
Matrix == [1..Height -> [1..Width -> Ciphertext]]

PlaintextOf(ct) == ct.C - Collective * ct.K

SamePlaintexts(m, pi) ==
  \A i \in 1..Height : \A j \in 1..Width :
    PlaintextOf(m[i][j]) = PlaintextOf(ToMatrix(Given)[pi[i]][j])

Good(m) ==
  /\ m \in Matrix
  /\ SameRosterFiles => \E pi \in Permutation(Height) : SamePlaintexts(m, pi)

PairsInv ==
  \A s \in Server :
    \A values \in {file[s], precomputed[s]} :
      /\ values \in Seq(Precomputation)
      /\ \A i \in DOMAIN values :
           /\ SameRosterFiles => values[i].key = Collective
           /\ WideFiles => Width <= values[i].width

(* What has been sent is the encoding of a matrix made from the root's.    *)
MatrixInv ==
  \A s \in Server : datas[s] # <<>> =>
    \E m \in Matrix : Good(m) /\ datas[s] = <<ToBytes(m)>> /\ lengths[s] = <<LengthsOf(m)>>

FilesInv == DOMAIN file = Server /\ DOMAIN precomputed = Server /\ PairsInv

IInv ==
  /\ TypeInv /\ HopInv /\ FilesInv /\ MatrixInv
  /\ WideFiles => PrecomputationFits
  /\ SameRosterFiles => PlaintextsPreserved

-----------------------------------------------------------------------------
(* Induction over an interval of numbers, for a set given as a value; and  *)
(* functions that are defined along an interval.                           *)
LEMMA BoundedInduct ==
  ASSUME NEW k \in Nat, NEW T, 0 \in T,
         \A i \in 0..k : i \in T /\ i < k => i + 1 \in T
  PROVE  k \in T
<1>. DEFINE U == {i \in 0..k : i \notin T}
            Less == OpToRel(<, Nat)
<1>1. SUFFICES ASSUME k \notin T
               PROVE  FALSE
  OBVIOUS
<1>2. k \in U /\ U \subseteq Nat
  BY <1>1
<1>3. PICK i \in U : \A j \in U : ~ (<<j, i>> \in Less)
  <2>1. IsWellFoundedOn(Less, Nat)
    BY NatLessThanWellFounded
  <2>. HIDE DEF U, Less
  <2>. QED  BY <1>2, <2>1, WFMin, Zenon
<1>. i \in 0..k /\ i \notin T
  BY <1>3
<1>4. i \in 1..k /\ i - 1 \in 0..k /\ i - 1 < k /\ (i - 1) + 1 = i
  <2>1. i # 0
    OBVIOUS
  <2>. QED  BY <2>1
<1>5. i - 1 \in U
  <2>1. i - 1 \in T => (i - 1) + 1 \in T
    BY <1>4
  <2>. QED  BY <1>4, <2>1
<1>6. <<i - 1, i>> \in Less
  BY <1>4 DEF OpToRel
<1>. QED  BY <1>3, <1>5, <1>6

IsStep(step, k, V) == step \in [(1..k) \X V -> V]
IsRecursion(f, k, V, base, step) ==
  /\ f \in [0..k -> V] /\ f[0] = base
  /\ \A i \in 1..k : f[i] = step[<<i, f[i - 1]>>]

LEMMA RecursionExists ==
  ASSUME NEW k \in Nat, NEW V, NEW base \in V, NEW step, IsStep(step, k, V)
  PROVE  \E f : IsRecursion(f, k, V, base, step)
<1>. DEFINE Upto(j, f) == /\ f \in [0..j -> V] /\ f[0] = base
                          /\ \A i \in 1..j : f[i] = step[<<i, f[i - 1]>>]
            T == {j \in 0..k : \E f : Upto(j, f)}
<1>1. 0 \in T
  <2>1. Upto(0, [i \in 0..0 |-> base])
    OBVIOUS
  <2>. HIDE DEF Upto
  <2>. QED  BY <2>1
<1>2. ASSUME NEW j \in 0..k, j \in T, j < k
      PROVE  j + 1 \in T
  <2>1. PICK f : Upto(j, f)
    BY <1>2
  <2>. DEFINE v == step[<<j + 1, f[j]>>]
              g == [i \in 0..(j + 1) |-> IF i = j + 1 THEN v ELSE f[i]]
  <2>2. v \in V /\ j + 1 \in 1..k
    BY <1>2, <2>1 DEF IsStep
  <2>. HIDE DEF v
  <2>3. g \in [0..(j + 1) -> V] /\ g[0] = base
    BY <2>1, <2>2
  <2>4. ASSUME NEW i \in 1..(j + 1)
        PROVE  g[i] = step[<<i, g[i - 1]>>]
    <3>1. i - 1 \in 0..j /\ g[i - 1] = f[i - 1]
      BY <1>2
    <3>2. CASE i = j + 1
      <4>1. i - 1 = j /\ g[i] = v
        BY <1>2, <3>2
      <4>2. g[i - 1] = f[j]
        BY <3>1, <4>1
      <4>. HIDE DEF g
      <4>. QED  BY <3>2, <4>1, <4>2 DEF v
    <3>3. CASE i # j + 1
      <4>1. i \in 1..j /\ g[i] = f[i]
        BY <3>3
      <4>. QED  BY <2>1, <3>1, <4>1
    <3>. QED  BY <3>2, <3>3
  <2>5. Upto(j + 1, g)
    <3>. HIDE DEF g
    <3>. QED  BY <2>3, <2>4
  <2>. HIDE DEF g, Upto
  <2>. QED  BY <1>2, <2>5
<1>. HIDE DEF T
<1>3. k \in T
  BY <1>1, <1>2, BoundedInduct
<1>. QED  BY <1>3 DEF T, IsRecursion

-----------------------------------------------------------------------------
(* The encoding of a matrix: with the lengths of its rows, the bytes give  *)
(* back the matrix they were made from.                                    *)
LEMMA BeforeSums ==
  ASSUME NEW ls \in Seq(Nat)
  PROVE  \E sums \in [0..Len(ls) -> Nat] :
           /\ sums[0] = 0
           /\ \A i \in 1..Len(ls) : sums[i] = sums[i - 1] + ls[i]
           /\ \A i \in 1..Len(ls) : Before(ls, i) = sums[i - 1]
<1>. DEFINE k == Len(ls)
            step == [p \in (1..k) \X Nat |-> p[2] + ls[p[1]]]
<1>1. k \in Nat /\ \A i \in 1..k : ls[i] \in Nat
  BY ElementOfSeq
<1>2. IsStep(step, k, Nat)
  BY <1>1 DEF IsStep
<1>3. PICK sums \in [0..k -> Nat] :
        sums[0] = 0 /\ \A i \in 1..k : sums[i] = step[<<i, sums[i - 1]>>]
  <2>. HIDE DEF step
  <2>1. \E f : IsRecursion(f, k, Nat, 0, step)
    BY <1>1, <1>2, RecursionExists
  <2>. QED  BY <2>1 DEF IsRecursion
<1>4. \A i \in 1..k : sums[i] = sums[i - 1] + ls[i]
  <2>1. ASSUME NEW i \in 1..k
        PROVE  step[<<i, sums[i - 1]>>] = sums[i - 1] + ls[i]
    <3>1. i - 1 \in 0..k
      BY <1>1
    <3>2. sums[i - 1] \in Nat
      BY <3>1
    <3>. QED  BY <3>2
  <2>. HIDE DEF step
  <2>. QED  BY <1>3, <2>1
<1>. DEFINE sum[j \in 0..k] == IF j = 0 THEN 0 ELSE sum[j - 1] + ls[j]
<1>5. sum = [j \in 0..k |-> IF j = 0 THEN 0 ELSE sum[j - 1] + ls[j]]
  <2>1. sums = [j \in 0..k |-> IF j = 0 THEN 0 ELSE sums[j - 1] + ls[j]]
    <3>1. \A j \in 0..k : sums[j] = IF j = 0 THEN 0 ELSE sums[j - 1] + ls[j]
      BY <1>1, <1>3, <1>4
    <3>. QED  BY <3>1
  <2>. HIDE DEF k
  <2>2. \E f : f = [j \in 0..k |-> IF j = 0 THEN 0 ELSE f[j - 1] + ls[j]]
    BY <2>1
  <2>. QED  BY <2>2, Zenon
<1>6. \A i \in 1..k : Before(ls, i) = sum[i - 1]
  BY DEF Before
<1>. HIDE DEF sum
<1>7. ASSUME NEW n \in 0..k
      PROVE  sum[n] = sums[n]
  <2>. DEFINE T == {i \in 0..n : sum[i] = sums[i]}
  <2>1. 0 \in T
    BY <1>1, <1>3, <1>5
  <2>2. ASSUME NEW i \in 0..n, i \in T, i < n
        PROVE  i + 1 \in T
    <3>1. i + 1 \in 1..k /\ i + 1 \in 0..k /\ (i + 1) - 1 = i /\ i + 1 \in 0..n /\ i + 1 # 0
      BY <1>1, <2>2
    <3>2. sum[i + 1] = sum[i] + ls[i + 1]
      BY <1>5, <3>1
    <3>3. sums[i + 1] = sums[i] + ls[i + 1]
      BY <1>4, <3>1
    <3>. QED  BY <2>2, <3>1, <3>2, <3>3
  <2>. HIDE DEF T
  <2>3. n \in T
    BY <2>1, <2>2, BoundedInduct
  <2>. QED  BY <2>3 DEF T
<1>8. \A i \in 1..k : Before(ls, i) = sums[i - 1]
  BY <1>1, <1>6, <1>7
<1>. QED  BY <1>3, <1>4, <1>8

LEMMA FlattenPrefixes ==
  ASSUME NEW X, NEW m \in Seq(Seq(X)), Len(m) > 0
  PROVE  \E parts \in [0..Len(m) -> Seq(X)] :
           /\ parts[0] = <<>>
           /\ \A i \in 1..Len(m) : parts[i] = parts[i - 1] \o m[i]
           /\ ToBytes(m) = parts[Len(m)]
<1>. DEFINE k == Len(m)
            step == [p \in (1..k) \X Seq(X) |-> p[2] \o m[p[1]]]
<1>1. k \in Nat /\ k > 0 /\ \A i \in 1..k : m[i] \in Seq(X)
  BY ElementOfSeq
<1>2. IsStep(step, k, Seq(X)) /\ <<>> \in Seq(X)
  BY <1>1, ConcatProperties DEF IsStep
<1>3. PICK parts \in [0..k -> Seq(X)] :
        parts[0] = <<>> /\ \A i \in 1..k : parts[i] = step[<<i, parts[i - 1]>>]
  <2>. HIDE DEF step
  <2>1. \E f : IsRecursion(f, k, Seq(X), <<>>, step)
    BY <1>1, <1>2, RecursionExists
  <2>. QED  BY <2>1 DEF IsRecursion
<1>4. \A i \in 1..k : parts[i] = parts[i - 1] \o m[i]
  <2>1. ASSUME NEW i \in 1..k
        PROVE  step[<<i, parts[i - 1]>>] = parts[i - 1] \o m[i]
    <3>1. i - 1 \in 0..k
      BY <1>1
    <3>2. parts[i - 1] \in Seq(X)
      BY <3>1
    <3>3. <<i, parts[i - 1]>> \in (1..k) \X Seq(X)
      BY <3>2
    <3>. QED  BY <3>3
  <2>. HIDE DEF step
  <2>. QED  BY <1>3, <2>1
<1>. DEFINE flatten[i \in 1..k] == IF i = 1 THEN m[i] ELSE flatten[i - 1] \o m[i]
<1>5. parts[1] = m[1]
  <2>1. 1 \in 1..k /\ 1 - 1 = 0 /\ m[1] \in Seq(X)
    BY <1>1
  <2>2. parts[1] = <<>> \o m[1]
    <3>1. parts[1] = parts[1 - 1] \o m[1]
      BY <1>4, <2>1, Zenon
    <3>. QED  BY <1>3, <2>1, <3>1, Zenon
  <2>3. <<>> \o m[1] = m[1]
    BY <2>1, ConcatEmptySeq
  <2>. QED  BY <2>2, <2>3
<1>6. flatten = [i \in 1..k |-> IF i = 1 THEN m[i] ELSE flatten[i - 1] \o m[i]]
  <2>. DEFINE f == [i \in 1..k |-> parts[i]]
  <2>1. f = [i \in 1..k |-> IF i = 1 THEN m[i] ELSE f[i - 1] \o m[i]]
    <3>1. \A i \in 1..k : i # 1 => i - 1 \in 1..k
      BY <1>1
    <3>2. \A i \in 1..k : f[i] = IF i = 1 THEN m[i] ELSE f[i - 1] \o m[i]
      BY <1>4, <1>5, <3>1
    <3>. QED  BY <3>2
  <2>. HIDE DEF k, f
  <2>2. \E g : g = [i \in 1..k |-> IF i = 1 THEN m[i] ELSE g[i - 1] \o m[i]]
    BY <2>1
  <2>. QED  BY <2>2, Zenon
<1>7. ToBytes(m) = flatten[k]
  BY <1>1 DEF ToBytes, FlattenSeq
<1>. HIDE DEF flatten
<1>8. ASSUME NEW n \in 0..k
      PROVE  n # 0 => flatten[n] = parts[n]
  <2>. DEFINE T == {i \in 0..n : i # 0 => flatten[i] = parts[i]}
  <2>1. 0 \in T
    BY <1>1
  <2>2. ASSUME NEW i \in 0..n, i \in T, i < n
        PROVE  i + 1 \in T
    <3>1. i + 1 \in 1..k /\ (i + 1) - 1 = i /\ i + 1 \in 0..n
      BY <1>1, <2>2
    <3>2. i = 0 => flatten[i + 1] = m[i + 1] /\ parts[i + 1] = m[i + 1]
      <4>1. 1 \in 1..k /\ 0 + 1 = 1
        BY <1>1
      <4>2. flatten[1] = m[1]
        BY <1>6, <4>1, Zenon
      <4>. QED  BY <1>5, <4>1, <4>2
    <3>3. i # 0 => flatten[i + 1] = flatten[i] \o m[i + 1]
      <4>1. i # 0 => i + 1 # 1
        OBVIOUS
      <4>2. flatten[i + 1] = IF i + 1 = 1 THEN m[i + 1] ELSE flatten[(i + 1) - 1] \o m[i + 1]
        BY <1>6, <3>1, Zenon
      <4>. HIDE DEF k
      <4>. QED  BY <3>1, <4>1, <4>2
    <3>4. parts[i + 1] = parts[i] \o m[i + 1]
      <4>1. parts[i + 1] = parts[(i + 1) - 1] \o m[i + 1]
        BY <1>4, <3>1, Zenon
      <4>. QED  BY <3>1, <4>1
    <3>. QED  BY <2>2, <3>1, <3>2, <3>3, <3>4, Zenon
  <2>. HIDE DEF T
  <2>3. n \in T
    BY <2>1, <2>2, BoundedInduct
  <2>. QED  BY <2>3 DEF T
<1>9. k \in 0..k /\ k # 0
  BY <1>1
<1>10. ToBytes(m) = parts[k]
  BY <1>7, <1>8, <1>9
<1>. QED  BY <1>3, <1>4, <1>10, Zenon

(* Every row lies in the bytes behind those before it.                     *)
LEMMA RowsInBytes ==
  ASSUME NEW X, NEW m \in Seq(Seq(X)), Len(m) > 0,
         NEW sums \in [0..Len(m) -> Nat], sums[0] = 0,
         \A i \in 1..Len(m) : sums[i] = sums[i - 1] + Len(m[i])
  PROVE  /\ ToBytes(m) \in Seq(X)
         /\ \A i \in 1..Len(m) :
              /\ sums[i] <= Len(ToBytes(m))
              /\ \A p \in 1..Len(m[i]) : ToBytes(m)[sums[i - 1] + p] = m[i][p]
<1>. DEFINE k == Len(m)
<1>1. k \in Nat /\ k > 0 /\ \A i \in 1..k : m[i] \in Seq(X) /\ Len(m[i]) \in Nat
  BY ElementOfSeq, LenProperties
<1>2. PICK parts \in [0..k -> Seq(X)] :
        /\ parts[0] = <<>>
        /\ \A i \in 1..k : parts[i] = parts[i - 1] \o m[i]
        /\ ToBytes(m) = parts[k]
  BY FlattenPrefixes
<1>. DEFINE Holds(n) ==
              /\ Len(parts[n]) = sums[n]
              /\ \A i \in 1..n :
                   /\ sums[i] <= sums[n]
                   /\ \A p \in 1..Len(m[i]) : parts[n][sums[i - 1] + p] = m[i][p]
            T == {n \in 0..k : Holds(n)}
<1>3. 0 \in T
  BY <1>1, <1>2
<1>4. ASSUME NEW n \in 0..k, n \in T, n < k
      PROVE  n + 1 \in T
  <2>1. n + 1 \in 1..k /\ n + 1 \in 0..k /\ (n + 1) - 1 = n
    BY <1>1, <1>4
  <2>2. /\ parts[n] \in Seq(X) /\ m[n + 1] \in Seq(X)
        /\ parts[n + 1] = parts[n] \o m[n + 1]
        /\ sums[n + 1] = sums[n] + Len(m[n + 1])
        /\ sums[n] \in Nat /\ Len(m[n + 1]) \in Nat
    <3>1. parts[n + 1] = parts[(n + 1) - 1] \o m[n + 1]
      BY <1>2, <2>1, Zenon
    <3>2. sums[n + 1] = sums[(n + 1) - 1] + Len(m[n + 1])
      BY <2>1
    <3>. QED  BY <1>1, <2>1, <3>1, <3>2
  <2>3. /\ Len(parts[n + 1]) = Len(parts[n]) + Len(m[n + 1])
        /\ \A q \in 1..Len(parts[n]) : parts[n + 1][q] = parts[n][q]
        /\ \A q \in 1..Len(m[n + 1]) : parts[n + 1][Len(parts[n]) + q] = m[n + 1][q]
    <3>1. Len(parts[n]) \in Nat
      BY <2>2, LenProperties
    <3>2. \A q \in 1..Len(parts[n]) + Len(m[n + 1]) :
            (parts[n] \o m[n + 1])[q] =
               IF q <= Len(parts[n]) THEN parts[n][q] ELSE m[n + 1][q - Len(parts[n])]
      BY <2>2, ConcatProperties
    <3>3. Len(parts[n] \o m[n + 1]) = Len(parts[n]) + Len(m[n + 1])
      BY <2>2, ConcatProperties
    <3>. QED  BY <2>2, <3>1, <3>2, <3>3
  <2>4. Holds(n)
    BY <1>4
  <2>5. Len(parts[n + 1]) = sums[n + 1]
    BY <2>2, <2>3, <2>4
  <2>6. ASSUME NEW i \in 1..(n + 1)
        PROVE  /\ sums[i] <= sums[n + 1]
               /\ \A p \in 1..Len(m[i]) : parts[n + 1][sums[i - 1] + p] = m[i][p]
    <3>1. CASE i = n + 1
      <4>1. i - 1 = n /\ sums[i] = sums[n + 1]
        BY <2>1, <3>1
      <4>2. sums[n + 1] \in Nat
        BY <2>1
      <4>. QED  BY <2>3, <2>4, <3>1, <4>1, <4>2
    <3>2. CASE i # n + 1
      <4>1. i \in 1..n /\ i \in 1..k /\ i \in 0..k /\ i - 1 \in 0..k
        BY <1>1, <3>2
      <4>2. /\ sums[i] \in Nat /\ sums[i - 1] \in Nat /\ Len(m[i]) \in Nat
            /\ sums[i] = sums[i - 1] + Len(m[i]) /\ sums[i] <= sums[n]
        BY <1>1, <2>4, <4>1
      <4>3. Len(parts[n]) = sums[n]
        BY <2>4
      <4>6. /\ sums[n] \in Nat /\ Len(m[n + 1]) \in Nat
            /\ sums[n + 1] = sums[n] + Len(m[n + 1])
        BY <2>2, Zenon
      <4>4. ASSUME NEW p \in 1..Len(m[i])
            PROVE  parts[n + 1][sums[i - 1] + p] = m[i][p]
        <5>1. sums[i - 1] + p \in 1..Len(parts[n])
          <6>. DEFINE a == sums[i - 1]
                      w == Len(m[i])
                      c == sums[n]
          <6>1. a \in Nat /\ w \in Nat /\ c \in Nat /\ a + w <= c /\ p \in 1..w
            BY <4>2, <4>6
          <6>. HIDE DEF a, w, c
          <6>2. a + p \in 1..c
            BY <6>1
          <6>. QED  BY <4>3, <6>2 DEF a, c
        <5>2. parts[n][sums[i - 1] + p] = m[i][p]
          BY <2>4, <4>1
        <5>. QED  BY <2>3, <5>1, <5>2
      <4>5. sums[i] <= sums[n + 1]
        BY <4>2, <4>6
      <4>. QED  BY <4>4, <4>5
    <3>. QED  BY <3>1, <3>2
  <2>. QED  BY <2>1, <2>5, <2>6
<1>. HIDE DEF T
<1>5. k \in T
  BY <1>1, <1>3, <1>4, BoundedInduct
<1>6. Holds(k) /\ k \in 0..k
  BY <1>1, <1>5 DEF T
<1>. QED  BY <1>2, <1>6

THEOREM DecodeEncode ==
  ASSUME NEW X, NEW m \in Seq(Seq(X)), Len(m) > 0
  PROVE  FromBytes(ToBytes(m), LengthsOf(m)) = m
<1>. DEFINE k == Len(m)
            ls == LengthsOf(m)
            bytes == ToBytes(m)
<1>1. /\ k \in Nat /\ DOMAIN m = 1..k
      /\ \A i \in 1..k : m[i] \in Seq(X) /\ Len(m[i]) \in Nat
  BY ElementOfSeq, LenProperties
<1>2. /\ ls \in [1..k -> Nat] /\ DOMAIN ls = 1..k /\ \A i \in 1..k : ls[i] = Len(m[i])
  BY <1>1 DEF LengthsOf
<1>3. ls \in Seq(Nat) /\ Len(ls) = k
  <2>. HIDE DEF ls, k
  <2>1. ls \in Seq(Nat)
    BY <1>1, <1>2, IsASeq
  <2>. QED  BY <1>1, <1>2, <2>1, LenProperties
<1>. HIDE DEF ls
<1>4. PICK sums \in [0..k -> Nat] :
        /\ sums[0] = 0
        /\ \A i \in 1..k : sums[i] = sums[i - 1] + ls[i]
        /\ \A i \in 1..k : Before(ls, i) = sums[i - 1]
  BY <1>3, BeforeSums
<1>5. \A i \in 1..k : sums[i] = sums[i - 1] + Len(m[i])
  BY <1>2, <1>4
<1>6. /\ bytes \in Seq(X)
      /\ \A i \in 1..k : /\ sums[i] <= Len(bytes)
                         /\ \A p \in 1..Len(m[i]) : bytes[sums[i - 1] + p] = m[i][p]
  <2>. HIDE DEF ls
  <2>1. sums \in [0..Len(m) -> Nat] /\ sums[0] = 0
    BY <1>4
  <2>. QED  BY <1>5, <2>1, RowsInBytes
<1>. HIDE DEF bytes
<1>7. ASSUME NEW i \in 1..k
      PROVE  SubSeq(bytes, Before(ls, i) + 1, Before(ls, i) + ls[i]) = m[i]
  <2>. DEFINE b == sums[i - 1]
              w == Len(m[i])
              row == SubSeq(bytes, b + 1, b + w)
  <2>1. b \in Nat /\ w \in Nat /\ b + w <= Len(bytes) /\ Len(bytes) \in Nat
    <3>1. i - 1 \in 0..k
      BY <1>1
    <3>2. sums[i - 1] \in Nat
      BY <3>1
    <3>. QED  BY <1>1, <1>5, <1>6, <3>2, LenProperties
  <2>2. \A p \in 1..w : bytes[b + p] = m[i][p]
    BY <1>6
  <2>. HIDE DEF b
  <2>3. row \in Seq(X) /\ Len(row) = w /\ \A p \in 1..w : row[p] = bytes[b + p]
    <3>1. \A q \in (b + 1)..(b + w) : q \in 1..Len(bytes)
      BY <2>1
    <3>2. /\ SubSeq(bytes, b + 1, b + w) \in Seq(X)
          /\ Len(SubSeq(bytes, b + 1, b + w)) =
               IF b + 1 <= b + w THEN (b + w) - (b + 1) + 1 ELSE 0
          /\ \A p \in 1..((b + w) - (b + 1) + 1) :
               SubSeq(bytes, b + 1, b + w)[p] = bytes[(b + 1) + p - 1]
      BY <1>6, <2>1, <3>1, SubSeqProperties
    <3>3. (b + w) - (b + 1) + 1 = w /\ \A p \in 1..w : (b + 1) + p - 1 = b + p
      BY <2>1
    <3>4. Len(row) = w
      BY <2>1, <3>2
    <3>. QED  BY <3>2, <3>3, <3>4
  <2>. HIDE DEF row, w
  <2>4. row = m[i]
    BY <1>1, <2>1, <2>2, <2>3, SeqEqual DEF w
  <2>5. Before(ls, i) = b /\ ls[i] = w
    BY <1>2, <1>4 DEF b, w
  <2>. QED  BY <2>4, <2>5 DEF row
<1>8. FromBytes(bytes, ls) = [i \in 1..k |-> m[i]]
  BY <1>2, <1>7 DEF FromBytes
<1>9. m = [i \in 1..k |-> m[i]]
  BY <1>1
<1>. QED  BY <1>8, <1>9 DEF bytes, ls

-----------------------------------------------------------------------------
(* The circuit.                                                            *)
LEMMA ListType ==
  /\ N \in Nat \ {0} /\ TheRoot \in Server /\ DOMAIN List = 1..N /\ List[1] = TheRoot
  /\ \A i \in 1..N : List[i] \in Server
  /\ \A i, j \in 1..N : List[i] = List[j] => i = j
  /\ \A s \in Server : \E i \in 1..N : List[i] = s
<1>1. List \in Seq(Server) /\ Len(List) > 0
  BY CircuitAssumption
<1>2. DOMAIN List = 1..N /\ N \in Nat \ {0} /\ 1 \in 1..N
  BY <1>1 DEF N
<1>3. \A i \in 1..N : List[i] \in Server
  BY <1>1, ElementOfSeq DEF N
<1>. QED  BY <1>2, <1>3, CircuitAssumption DEF TheRoot, Root

LEMMA Position ==
  ASSUME NEW s \in Server
  PROVE  /\ PositionOf(List, s) \in 1..N /\ List[PositionOf(List, s)] = s
         /\ \A i \in 1..N : List[i] = s => PositionOf(List, s) = i
         /\ PositionOf(List, s) = 1 <=> s = TheRoot
<1>1. \E i \in DOMAIN List : List[i] = s
  BY ListType
<1>2. PositionOf(List, s) \in DOMAIN List /\ List[PositionOf(List, s)] = s
  BY <1>1 DEF PositionOf
<1>3. 1 \in 1..N
  BY ListType
<1>4. PositionOf(List, s) \in 1..N
  BY <1>2, ListType
<1>5. \A i \in 1..N : List[i] = s => PositionOf(List, s) = i
  BY <1>2, <1>4, ListType, Zenon
<1>6. PositionOf(List, s) = 1 <=> s = TheRoot
  BY <1>2, <1>3, <1>5, ListType, Zenon
<1>. QED  BY <1>2, <1>4, <1>5, <1>6

LEMMA DueType ==
  /\ N \in Nat \ {0} /\ TheRoot \in Server /\ Due(TheRoot) = N
  /\ \A s \in Server : Due(s) \in 1..N
  /\ \A s, t \in Server : Due(s) = Due(t) => s = t
  /\ \A s \in Server \ {TheRoot} : Due(s) < N
<1>1. N \in Nat \ {0} /\ TheRoot \in Server /\ Due(TheRoot) = N
  BY ListType DEF Due
<1>2. ASSUME NEW s \in Server \ {TheRoot}
      PROVE  Due(s) \in 1..(N - 1) /\ List[Due(s) + 1] = s
  BY <1>1, Position DEF Due
<1>. QED  BY <1>1, <1>2

LEMMA NextDue ==
  ASSUME NEW s \in Server
  PROVE  /\ NextInCircuit(List, s) \in Server
         /\ Due(NextInCircuit(List, s)) = IF s = TheRoot THEN 1 ELSE Due(s) + 1
<1>. DEFINE p == PositionOf(List, s)
            t == NextInCircuit(List, s)
<1>1. N \in Nat \ {0} /\ p \in 1..N /\ t = List[(p % N) + 1] /\ List[1] = TheRoot
  BY ListType, Position DEF NextInCircuit, N
<1>2. CASE p = N
  <2>1. p % N = 0
    BY <1>1, <1>2
  <2>2. t = TheRoot
    BY <1>1, <2>1
  <2>3. s = TheRoot => N = 1
    BY <1>2, Position
  <2>4. s # TheRoot => Due(s) = N - 1
    BY <1>2 DEF Due
  <2>. QED  BY <1>1, <2>2, <2>3, <2>4, DueType
<1>3. CASE p < N
  <2>1. p % N = p
    BY <1>1, <1>3
  <2>2. t = List[p + 1] /\ p + 1 \in 1..N
    BY <1>1, <1>3, <2>1
  <2>3. t \in Server
    BY <2>2, ListType
  <2>4. PositionOf(List, t) = p + 1
    BY <2>2, <2>3, Position
  <2>5. t # TheRoot
    BY <1>1, <2>3, <2>4, Position
  <2>6. Due(t) = p
    BY <1>1, <2>4, <2>5 DEF Due
  <2>7. s = TheRoot => p = 1
    BY Position
  <2>8. s # TheRoot => Due(s) = p - 1
    BY DEF Due
  <2>. QED  BY <1>1, <2>3, <2>6, <2>7, <2>8
<1>. QED  BY <1>1, <1>2, <1>3

-----------------------------------------------------------------------------
(* The course of the matrices round the circuit.                           *)
LEMMA AppendToEmpty == \A v : Append(<<>>, v) = <<v>> /\ <<v>> # <<>>
OBVIOUS

LEMMA HopInit == Init => TypeInv /\ HopInv
<1>. SUFFICES ASSUME Init  PROVE TypeInv /\ HopInv
  OBVIOUS
<1>1. Hops(0)
  BY DueType DEF Init, Hops
<1>2. 0 \in 0..N
  BY DueType
<1>. QED  BY <1>1, <1>2 DEF Init, TypeInv, HopInv

(* A server that may send the next matrix, and what it finds.              *)
Sender(s, h) ==
  \/ h = 0 /\ s = TheRoot /\ begun = "no"
  \/ h # 0 /\ s # TheRoot /\ s \in Server /\ Due(s) = h
     /\ pc[s] \notin {"failed", "done"} /\ lengths[s] # <<>>

LEMMA NextIsFree ==
  ASSUME TypeInv, NEW h \in 0..N, Hops(h), NEW s \in Server, Sender(s, h)
  PROVE  LET t == NextInCircuit(List, s)
         IN  /\ t \in Server /\ Due(t) = h + 1 /\ h < N
             /\ lengths[t] = <<>> /\ datas[t] = <<>>
<1>. DEFINE t == NextInCircuit(List, s)
<1>1. t \in Server /\ Due(t) = h + 1 /\ h < N
  <2>1. CASE h = 0 /\ s = TheRoot
    BY <2>1, NextDue, DueType
  <2>2. CASE s # TheRoot /\ Due(s) = h
    BY <2>2, NextDue, DueType
  <2>. QED  BY <2>1, <2>2 DEF Sender
<1>2. datas[t] = <<>>
  BY <1>1 DEF Hops
<1>3. lengths[t] = <<>>
  <2>1. SUFFICES ASSUME lengths[t] # <<>>
                 PROVE  FALSE
    OBVIOUS
  <2>2. SenderFailed(h)
    BY <1>1, <2>1 DEF Hops
  <2>. QED  BY <2>2 DEF SenderFailed, Sender
<1>. QED  BY <1>1, <1>2, <1>3

(* The next matrix is sent: by the root's Start, or by a server that has   *)
(* received the last one.                                                  *)
LEMMA HopSent ==
  ASSUME TypeInv, NEW h \in 0..N, Hops(h), NEW s \in Server, Sender(s, h),
         NEW m, Send(s, m),
         \/ h = 0 /\ begun' = "done" /\ pc' = pc
         \/ h # 0 /\ begun' = begun /\ pc' = [pc EXCEPT ![s] = "done"],
         input' = input
  PROVE  TypeInv' /\ HopInv'
<1>. DEFINE t == NextInCircuit(List, s)
<1>1. /\ t \in Server /\ Due(t) = h + 1 /\ h < N
      /\ lengths[t] = <<>> /\ datas[t] = <<>>
  BY NextIsFree
<1>2. /\ DOMAIN lengths' = Server /\ DOMAIN datas' = Server
      /\ lengths'[t] # <<>> /\ datas'[t] # <<>>
      /\ \A u \in Server \ {t} : lengths'[u] = lengths[u] /\ datas'[u] = datas[u]
  BY <1>1, AppendToEmpty DEF Send, TypeInv
<1>3. TypeInv'
  BY <1>2 DEF TypeInv
<1>4. /\ h + 1 \in 0..N /\ h + 1 # 0 /\ N \in Nat
      /\ \A u \in Server : Due(u) \in 1..N
      /\ \A u \in Server \ {t} : Due(u) # h + 1
  BY <1>1, DueType
<1>5. begun' = "done"
  BY DEF Hops
<1>6. ASSUME NEW u \in Server
      PROVE  /\ datas'[u] # <<>> <=> Due(u) <= h + 1
             /\ Due(u) <= h + 1 => lengths'[u] # <<>>
             /\ Due(u) > h + 1 => lengths'[u] = <<>>
             /\ pc'[u] \in {"data", "done"} => lengths'[u] # <<>>
             /\ u # TheRoot => (pc'[u] = "done" <=> Due(u) < h + 1)
  <2>1. CASE u = t
    <3>1. u # TheRoot => pc[u] # "done"
      BY <1>1, <2>1 DEF Hops
    <3>2. h # 0 => u # s
      BY <1>1, <2>1 DEF Sender
    <3>3. u # TheRoot => pc'[u] # "done"
      BY <3>1, <3>2 DEF TypeInv
    <3>. QED  BY <1>1, <1>2, <1>4, <2>1, <3>3
  <2>2. CASE u # t
    <3>1. lengths'[u] = lengths[u] /\ datas'[u] = datas[u]
      BY <1>2, <2>2
    <3>2. Due(u) \in 1..N /\ Due(u) # h + 1
      BY <1>4, <2>2
    <3>3. Due(u) = h /\ u # TheRoot => u = s
      BY <3>2, DueType DEF Sender
    <3>4. u = s /\ h # 0 => pc'[u] = "done" /\ lengths[u] # <<>> /\ Due(u) = h
      BY DEF Sender, TypeInv
    <3>5. u # s \/ h = 0 => pc'[u] = pc[u]
      BY DEF TypeInv
    <3>. QED  BY <3>1, <3>2, <3>3, <3>4, <3>5 DEF Hops
  <2>. QED  BY <2>1, <2>2
<1>7. Hops(h + 1)'
  BY <1>4, <1>5, <1>6 DEF Hops
<1>. QED  BY <1>3, <1>4, <1>7 DEF HopInv

(* Sending fails, with or without the lengths having been sent.            *)
LEMMA HopLost ==
  ASSUME TypeInv, NEW h \in 0..N, Hops(h), NEW s \in Server, Sender(s, h),
         NEW m, SendFails(s, m),
         \/ h = 0 /\ begun' = "failed" /\ pc' = pc
         \/ h # 0 /\ begun' = begun /\ pc' = [pc EXCEPT ![s] = "failed"],
         input' = input
  PROVE  TypeInv' /\ HopInv'
<1>. DEFINE t == NextInCircuit(List, s)
<1>1. t \in Server /\ Due(t) = h + 1 /\ lengths[t] = <<>>
  BY NextIsFree
<1>2. /\ DOMAIN lengths' = Server /\ datas' = datas
      /\ \A u \in Server \ {t} : lengths'[u] = lengths[u]
  BY <1>1 DEF SendFails, TypeInv
<1>3. TypeInv'
  BY <1>2 DEF TypeInv
<1>4. N \in Nat /\ \A u \in Server : Due(u) \in 1..N /\ (u # t => Due(u) # h + 1)
  BY <1>1, DueType
<1>5. begun' = "done" <=> h # 0
  BY DEF Hops
<1>6. SenderFailed(h)'
  BY DueType DEF SenderFailed, Sender, TypeInv
<1>7. ASSUME NEW u \in Server
      PROVE  /\ datas'[u] # <<>> <=> Due(u) <= h
             /\ Due(u) <= h => lengths'[u] # <<>>
             /\ Due(u) > h /\ lengths'[u] # <<>> => Due(u) = h + 1
             /\ pc'[u] \in {"data", "done"} => lengths'[u] # <<>>
             /\ u # TheRoot => (pc'[u] = "done" <=> Due(u) < h)
  <2>1. /\ pc'[u] = "done" <=> pc[u] = "done"
        /\ pc'[u] = "data" => pc[u] = "data"
    <3>1. h # 0 => pc[s] # "done"
      BY DEF Sender
    <3>. QED  BY <3>1 DEF TypeInv
  <2>2. CASE u = t
    BY <1>1, <1>2, <1>4, <2>1, <2>2 DEF Hops
  <2>3. CASE u # t
    BY <1>2, <2>1, <2>3 DEF Hops
  <2>. QED  BY <2>2, <2>3
<1>8. Hops(h)'
  BY <1>5, <1>6, <1>7 DEF Hops
<1>. QED  BY <1>3, <1>8 DEF HopInv

(* Steps that send nothing.                                                *)
LEMMA HopKept ==
  ASSUME TypeInv, NEW h \in 0..N, Hops(h),
         lengths' = lengths, datas' = datas, input' = input,
         \/ pc' = pc /\ (begun' = begun \/ (begun = "no" /\ begun' = "panicked"))
         \/ /\ begun' = begun
            /\ \E s \in Server, next \in {"data", "done", "failed", "panicked"} :
                 /\ pc' = [pc EXCEPT ![s] = next]
                 /\ pc[s] \notin {"done", "failed"}
                 /\ next \in {"data", "done"} => lengths[s] # <<>>
                 /\ next = "done" => s = TheRoot
  PROVE  TypeInv' /\ HopInv'
<1>1. CASE pc' = pc /\ (begun' = begun \/ (begun = "no" /\ begun' = "panicked"))
  <2>1. TypeInv'
    BY <1>1 DEF TypeInv
  <2>2. begun' = "done" <=> h # 0
    BY <1>1 DEF Hops
  <2>3. SenderFailed(h) => SenderFailed(h)'
    BY <1>1 DEF SenderFailed
  <2>4. Hops(h)'
    BY <1>1, <2>2, <2>3 DEF Hops
  <2>. QED  BY <2>1, <2>4 DEF HopInv
<1>2. ASSUME begun' = begun,
             NEW s \in Server, NEW next \in {"data", "done", "failed", "panicked"},
             pc' = [pc EXCEPT ![s] = next], pc[s] \notin {"done", "failed"},
             next \in {"data", "done"} => lengths[s] # <<>>,
             next = "done" => s = TheRoot
      PROVE  TypeInv' /\ HopInv'
  <2>1. TypeInv'
    BY <1>2 DEF TypeInv
  <2>2. pc'[s] = next /\ \A u \in Server \ {s} : pc'[u] = pc[u]
    BY <1>2 DEF TypeInv
  <2>3. SenderFailed(h) => SenderFailed(h)'
    BY <1>2, <2>2 DEF SenderFailed
  <2>4. \A u \in Server :
          /\ pc'[u] \in {"data", "done"} => lengths'[u] # <<>>
          /\ u # TheRoot => (pc'[u] = "done" <=> Due(u) < h)
    BY <1>2, <2>2 DEF Hops
  <2>5. Hops(h)'
    BY <1>2, <2>3, <2>4 DEF Hops
  <2>. QED  BY <2>1, <2>5 DEF HopInv
<1>. QED  BY <1>1, <1>2

LEMMA HopStart ==
  ASSUME TypeInv, HopInv, Start
  PROVE  TypeInv' /\ HopInv'
<1>1. PICK h \in 0..N : Hops(h)
  BY DEF HopInv
<1>2. h = 0 /\ TheRoot \in Server /\ input' = input /\ pc' = pc /\ begun = "no"
  BY <1>1, DueType DEF Start, Hops
<1>3. Sender(TheRoot, h)
  BY <1>2 DEF Sender
<1>4. CASE begun' = "panicked" /\ UNCHANGED <<lengths, datas>>
  BY <1>1, <1>2, <1>4, HopKept
<1>5. ASSUME NEW m, Send(TheRoot, m), begun' = "done"
      PROVE  TypeInv' /\ HopInv'
  BY <1>1, <1>2, <1>3, <1>5, HopSent
<1>6. ASSUME NEW m, SendFails(TheRoot, m), begun' = "failed"
      PROVE  TypeInv' /\ HopInv'
  BY <1>1, <1>2, <1>3, <1>6, HopLost
<1>7. \/ begun' = "panicked" /\ UNCHANGED <<lengths, datas>>
      \/ \E m : Send(TheRoot, m) /\ begun' = "done"
      \/ \E m : SendFails(TheRoot, m) /\ begun' = "failed"
  BY DEF Start, TheRoot
<1>. QED  BY <1>4, <1>5, <1>6, <1>7

LEMMA HopShuffleOn ==
  ASSUME TypeInv, HopInv, NEW s \in Server, ShuffleOn(s)
  PROVE  TypeInv' /\ HopInv'
<1>1. PICK h \in 0..N : Hops(h)
  BY DEF HopInv
<1>2. /\ pc[s] = "data" /\ datas[s] # <<>> /\ s # TheRoot
      /\ input' = input /\ begun' = begun
  BY DEF ShuffleOn, TheRoot
<1>3. lengths[s] # <<>> /\ Due(s) \in 1..N /\ Due(s) <= h /\ ~ (Due(s) < h) /\ N \in Nat
  BY <1>1, <1>2, DueType DEF Hops
<1>4. Sender(s, h) /\ h # 0
  BY <1>2, <1>3 DEF Sender
<1>5. CASE pc' = [pc EXCEPT ![s] = "panicked"] /\ UNCHANGED <<lengths, datas>>
  BY <1>1, <1>2, <1>5, HopKept
<1>6. ASSUME NEW m, Send(s, m), pc' = [pc EXCEPT ![s] = "done"]
      PROVE  TypeInv' /\ HopInv'
  BY <1>1, <1>2, <1>4, <1>6, HopSent
<1>7. ASSUME NEW m, SendFails(s, m), pc' = [pc EXCEPT ![s] = "failed"]
      PROVE  TypeInv' /\ HopInv'
  BY <1>1, <1>2, <1>4, <1>7, HopLost
<1>8. \/ pc' = [pc EXCEPT ![s] = "panicked"] /\ UNCHANGED <<lengths, datas>>
      \/ \E m : Send(s, m) /\ pc' = [pc EXCEPT ![s] = "done"]
      \/ \E m : SendFails(s, m) /\ pc' = [pc EXCEPT ![s] = "failed"]
  BY DEF ShuffleOn
<1>. QED  BY <1>5, <1>6, <1>7, <1>8

LEMMA HopStep == TypeInv /\ HopInv /\ [Next]_vars => TypeInv' /\ HopInv'
<1>. SUFFICES ASSUME TypeInv, HopInv, [Next]_vars
              PROVE  TypeInv' /\ HopInv'
  OBVIOUS
<1>1. PICK h \in 0..N : Hops(h)
  BY DEF HopInv
<1>2. ASSUME UNCHANGED <<input, pc, begun, lengths, datas>>
      PROVE  TypeInv' /\ HopInv'
  <2>1. TypeInv'
    BY <1>2 DEF TypeInv
  <2>2. Hops(h)'
    BY <1>1, <1>2 DEF Hops, SenderFailed
  <2>. QED  BY <2>1, <2>2 DEF HopInv
<1>3. CASE Report
  <2>1. /\ TheRoot \in Server /\ pc[TheRoot] = "data"
        /\ lengths' = lengths /\ datas' = datas /\ input' = input /\ begun' = begun
        /\ pc' = [pc EXCEPT ![TheRoot] = "done"]
    BY <1>3, DueType DEF Report, TheRoot
  <2>2. lengths[TheRoot] # <<>>
    BY <1>1, <2>1 DEF Hops
  <2>. QED  BY <1>1, <2>1, <2>2, HopKept
<1>4. ASSUME NEW s \in Server, Precompute(s)
      PROVE  TypeInv' /\ HopInv'
  BY <1>2, <1>4 DEF Precompute
<1>5. ASSUME NEW s \in Server, ReceiveLength(s)
      PROVE  TypeInv' /\ HopInv'
  BY <1>1, <1>5, HopKept DEF ReceiveLength
<1>6. ASSUME NEW s \in Server, TimeOut(s)
      PROVE  TypeInv' /\ HopInv'
  BY <1>1, <1>6, HopKept DEF TimeOut
<1>7. UNCHANGED vars => TypeInv' /\ HopInv'
  BY <1>2 DEF vars
<1>. QED  BY <1>3, <1>4, <1>5, <1>6, <1>7, HopStart, HopShuffleOn DEF Next

-----------------------------------------------------------------------------
(* For every circuit and whatever is lost or times out: the root has the   *)
(* matrix back only after every other server has shuffled it, or has tried *)
(* to send it on.                                                          *)
THEOREM EveryServerShuffles == Spec => []ShuffledByAll
<1>1. TypeInv /\ HopInv => ShuffledByAll
  <2>1. SUFFICES ASSUME TypeInv, HopInv, pc[TheRoot] \in {"data", "done"}
                 PROVE  begun # "no" /\ \A s \in Server \ {TheRoot} : pc[s] \in {"done", "failed"}
    BY DEF ShuffledByAll, TheRoot
  <2>2. PICK h \in 0..N : Hops(h)
    BY <2>1 DEF HopInv
  <2>3. /\ N \in Nat /\ TheRoot \in Server /\ Due(TheRoot) = N
        /\ lengths[TheRoot] # <<>>
        /\ N > h => N = h + 1 /\ SenderFailed(h)
    BY <2>1, <2>2, DueType DEF Hops
  <2>4. begun # "no"
    BY <2>2, <2>3, DueType DEF Hops, SenderFailed
  <2>5. ASSUME NEW s \in Server \ {TheRoot}
        PROVE  pc[s] \in {"done", "failed"}
    <3>1. Due(s) \in 1..N /\ Due(s) < N
      BY DueType
    <3>2. CASE Due(s) < h
      BY <2>2, <3>2 DEF Hops
    <3>3. CASE Due(s) = h /\ N = h + 1
      BY <2>3, <3>1, <3>3 DEF SenderFailed
    <3>. QED  BY <2>3, <3>1, <3>2, <3>3
  <2>. QED  BY <2>4, <2>5
<1>. QED  BY <1>1, HopInit, HopStep, PTL DEF Spec

-----------------------------------------------------------------------------
(* The root's matrix: all its rows are as long as the first response.      *)
KeyLen == Len(input.Responses[1].key)
AggLen == Len(input.Responses[1].agg)

LEMMA SurveyType ==
  ASSUME input \in Inputs
  PROVE  /\ input.Responses \in Seq(Response) /\ input.Responses # <<>>
         /\ input.LineSize \in Nat /\ input.AppFlag \in BOOLEAN
         /\ input.OldFile \in [Server -> Seq(Precomputation)]
         /\ Collective \in Int
<1>1. input \in Survey
  BY DataAssumption
<1>. QED  BY <1>1, DataAssumption DEF Survey

LEMMA DummyShape ==
  ASSUME NEW r \in Response
  PROVE  LET dummy == [r EXCEPT !.agg = [i \in DOMAIN @ |-> Zero]]
         IN  /\ dummy \in Response /\ dummy.key = r.key
             /\ DOMAIN dummy.agg = DOMAIN r.agg /\ Len(dummy.agg) = Len(r.agg)
             /\ \A i \in DOMAIN r.agg : dummy.agg[i] = Zero
<1>. DEFINE zeros == [i \in DOMAIN r.agg |-> Zero]
            k == Len(r.agg)
<1>1. r.key \in Seq(Ciphertext) /\ r.agg \in Seq(Ciphertext) /\ Zero \in Ciphertext
  BY DEF Response, Zero, Ciphertext
<1>2. k \in Nat /\ DOMAIN r.agg = 1..k
  BY <1>1, LenProperties
<1>3. zeros \in [1..k -> Ciphertext]
  BY <1>1, <1>2
<1>. HIDE DEF zeros, k
<1>4. zeros \in Seq(Ciphertext)
  BY <1>2, <1>3, IsASeq
<1>5. Len(zeros) = k
  BY <1>2, <1>3, <1>4, LenProperties
<1>6. [r EXCEPT !.agg = zeros] = [key |-> r.key, agg |-> zeros]
  BY DEF Response
<1>. QED  BY <1>1, <1>2, <1>3, <1>4, <1>5, <1>6 DEF Response, zeros, k

LEMMA GivenShape ==
  ASSUME UniformResponses, input \in Inputs
  PROVE  /\ KeyLen \in Nat /\ AggLen \in Nat /\ Width = KeyLen + AggLen
         /\ Height \in Nat /\ Height > 0 /\ Given \in Seq(Response) /\ DOMAIN Given = 1..Height
         /\ \A i \in 1..Height :
              /\ Given[i] \in Response
              /\ Len(Given[i].key) = KeyLen /\ Len(Given[i].agg) = AggLen
<1>. DEFINE rs == input.Responses
            dummy == [rs[1] EXCEPT !.agg = [i \in DOMAIN @ |-> Zero]]
<1>1. rs \in Seq(Response) /\ rs # <<>> /\ Uniform(rs)
  BY SurveyType DEF UniformResponses
<1>2. /\ Len(rs) \in Nat /\ Len(rs) > 0 /\ DOMAIN rs = 1..Len(rs)
      /\ \A i \in 1..Len(rs) : /\ rs[i] \in Response
                               /\ Len(rs[i].key) = KeyLen /\ Len(rs[i].agg) = AggLen
  <2>1. Len(rs) \in Nat /\ DOMAIN rs = 1..Len(rs) /\ Len(rs) # 0
    BY <1>1, EmptySeq, LenProperties
  <2>. QED  BY <1>1, <2>1, ElementOfSeq DEF Uniform, KeyLen, AggLen
<1>3. rs[1] \in Response
  BY <1>2
<1>4. KeyLen \in Nat /\ AggLen \in Nat
  BY <1>3, LenProperties DEF KeyLen, AggLen, Response
<1>5. dummy \in Response /\ Len(dummy.key) = KeyLen /\ Len(dummy.agg) = AggLen
  BY <1>3, DummyShape DEF KeyLen, AggLen
<1>6. Given = IF Len(rs) = 1 THEN Append(rs, dummy) ELSE rs
  BY DEF Given, WithDummy
<1>. HIDE DEF dummy, rs
<1>7. CASE Len(rs) = 1
  <2>1. /\ Given \in Seq(Response) /\ Len(Given) = 2 /\ Given[1] = rs[1] /\ Given[2] = dummy
    <3>1. /\ Append(rs, dummy) \in Seq(Response)
          /\ Len(Append(rs, dummy)) = Len(rs) + 1
          /\ \A i \in 1..Len(rs) : Append(rs, dummy)[i] = rs[i]
          /\ Append(rs, dummy)[Len(rs) + 1] = dummy
      BY <1>1, <1>5, AppendProperties
    <3>2. 1 \in 1..Len(rs) /\ Len(rs) + 1 = 2
      BY <1>7
    <3>. QED  BY <1>6, <1>7, <3>1, <3>2
  <2>2. DOMAIN Given = 1..2
    BY <2>1, LenProperties
  <2>3. \A i \in 1..2 : i = 1 \/ i = 2
    OBVIOUS
  <2>. QED  BY <1>2, <1>4, <1>5, <2>1, <2>2, <2>3 DEF Width, RowWidth, KeyLen, AggLen, Height
<1>8. CASE Len(rs) # 1
  BY <1>1, <1>2, <1>4, <1>6, <1>8 DEF Width, RowWidth, KeyLen, AggLen, Height
<1>. QED  BY <1>7, <1>8

LEMMA MatrixGiven ==
  ASSUME UniformResponses, input \in Inputs
  PROVE  /\ ToMatrix(Given) \in Matrix
         /\ \A i \in 1..Height :
              /\ \A j \in 1..KeyLen : ToMatrix(Given)[i][j] = Given[i].key[j]
              /\ \A j \in 1..AggLen : ToMatrix(Given)[i][KeyLen + j] = Given[i].agg[j]
<1>1. /\ KeyLen \in Nat /\ AggLen \in Nat /\ Width = KeyLen + AggLen
      /\ DOMAIN Given = 1..Height
      /\ \A i \in 1..Height : /\ Given[i] \in Response
                              /\ Len(Given[i].key) = KeyLen /\ Len(Given[i].agg) = AggLen
  BY GivenShape
<1>2. ASSUME NEW i \in 1..Height
      PROVE  LET row == Given[i].key \o Given[i].agg
             IN  /\ row \in [1..Width -> Ciphertext]
                 /\ \A j \in 1..KeyLen : row[j] = Given[i].key[j]
                 /\ \A j \in 1..AggLen : row[KeyLen + j] = Given[i].agg[j]
  <2>. DEFINE key == Given[i].key
              agg == Given[i].agg
              row == key \o agg
  <2>1. /\ key \in Seq(Ciphertext) /\ agg \in Seq(Ciphertext)
        /\ Len(key) = KeyLen /\ Len(agg) = AggLen
    BY <1>1 DEF Response
  <2>. HIDE DEF key, agg
  <2>2. /\ row \in Seq(Ciphertext) /\ Len(row) = KeyLen + AggLen
        /\ \A j \in 1..KeyLen + AggLen :
             row[j] = IF j <= KeyLen THEN key[j] ELSE agg[j - KeyLen]
    BY <2>1, ConcatProperties
  <2>. HIDE DEF row
  <2>3. row \in [1..Width -> Ciphertext]
    BY <1>1, <2>2, SeqDef, LenProperties, ElementOfSeq
  <2>4. \A j \in 1..KeyLen : row[j] = key[j]
    BY <1>1, <2>2
  <2>5. \A j \in 1..AggLen : row[KeyLen + j] = agg[j]
    BY <1>1, <2>2
  <2>. QED  BY <2>3, <2>4, <2>5 DEF row, key, agg
<1>. DEFINE row(i) == Given[i].key \o Given[i].agg
<1>3. ToMatrix(Given) = [i \in 1..Height |-> row(i)]
  BY <1>1 DEF ToMatrix
<1>4. \A i \in 1..Height :
        /\ row(i) \in [1..Width -> Ciphertext]
        /\ \A j \in 1..KeyLen : row(i)[j] = Given[i].key[j]
        /\ \A j \in 1..AggLen : row(i)[KeyLen + j] = Given[i].agg[j]
  BY <1>2
<1>. HIDE DEF row
<1>. QED  BY <1>3, <1>4 DEF Matrix

LEMMA MatrixShape ==
  ASSUME UniformResponses, input \in Inputs, NEW m \in Matrix
  PROVE  /\ DOMAIN m = 1..Height /\ Len(m) = Height /\ NQ(m) = Width
         /\ \A i \in 1..Height : m[i] \in Seq(Ciphertext) /\ Len(m[i]) = Width
         /\ FromBytes(ToBytes(m), LengthsOf(m)) = m
<1>1. Height \in Nat /\ Height > 0 /\ Width \in Nat
  BY GivenShape
<1>2. ASSUME NEW row \in [1..Width -> Ciphertext]
      PROVE  row \in Seq(Ciphertext) /\ Len(row) = Width
  BY <1>1, <1>2, IsASeq, LenProperties
<1>3. \A i \in 1..Height : m[i] \in [1..Width -> Ciphertext]
  BY DEF Matrix
<1>4. \A i \in 1..Height : m[i] \in Seq(Ciphertext) /\ Len(m[i]) = Width
  BY <1>2, <1>3
<1>5. m \in [1..Height -> Seq(Ciphertext)]
  BY <1>4 DEF Matrix
<1>6. m \in Seq(Seq(Ciphertext)) /\ Len(m) = Height
  BY <1>1, <1>5, IsASeq, LenProperties
<1>7. NQ(m) = Width
  BY <1>1, <1>4 DEF NQ
<1>8. FromBytes(ToBytes(m), LengthsOf(m)) = m
  BY <1>1, <1>6, DecodeEncode
<1>. QED  BY <1>4, <1>5, <1>6, <1>7, <1>8

(* Rerandomization with a multiple of the collective key.                  *)
LEMMA RerandomizeKeeps ==
  ASSUME NEW ct \in Ciphertext, NEW b \in Int, NEW h \in Int, Collective \in Int
  PROVE  /\ Rerandomize(ct, b, h) \in Ciphertext
         /\ h = Collective => PlaintextOf(Rerandomize(ct, b, h)) = PlaintextOf(ct)
<1>1. ct.K \in Int /\ ct.C \in Int /\ b * h \in Int
  BY DEF Ciphertext
<1>2. ASSUME NEW c \in Int, NEW k \in Int
      PROVE  (c + b * Collective) - Collective * (k + b) = c - Collective * k
  OBVIOUS
<1>3. Rerandomize(ct, b, h) \in Ciphertext
  <2>1. ct.K + b \in Int /\ ct.C + b * h \in Int
    BY <1>1
  <2>. QED  BY <2>1, Zenon DEF Rerandomize, Ciphertext
<1>4. PlaintextOf(Rerandomize(ct, b, h)) = (ct.C + b * h) - Collective * (ct.K + b)
  BY DEF Rerandomize, PlaintextOf
<1>. QED  BY <1>1, <1>2, <1>3, <1>4 DEF PlaintextOf

LEMMA Composed ==
  ASSUME NEW k, NEW pi \in Permutation(k), NEW rho \in Permutation(k)
  PROVE  [i \in 1..k |-> rho[pi[i]]] \in Permutation(k)
BY DEF Permutation

LEMMA ShuffleGood ==
  ASSUME UniformResponses, input \in Inputs, NEW m, Good(m),
         NEW pi \in Permutation(Len(m)), NEW b \in Blinding(m), NEW h \in Int,
         SameRosterFiles => h = Collective
  PROVE  Good(ShuffleWith(m, pi, b, h))
<1>. DEFINE out == ShuffleWith(m, pi, b, h)
<1>1. m \in Matrix /\ Collective \in Int
  BY SurveyType DEF Good
<1>2. DOMAIN m = 1..Height /\ Len(m) = Height /\ NQ(m) = Width
  BY <1>1, MatrixShape
<1>3. pi \in Permutation(Height) /\ b \in [1..Height -> [1..Width -> Int]]
  BY <1>2, BetaAssumption DEF Blinding
<1>4. pi \in [1..Height -> 1..Height]
  BY <1>3 DEF Permutation
<1>5. out = [i \in 1..Height |->
               [j \in 1..Width |-> Rerandomize(m[pi[i]][j], b[pi[i]][j], h)]]
  BY <1>2 DEF ShuffleWith
<1>. HIDE DEF out
<1>6. ASSUME NEW i \in 1..Height, NEW j \in 1..Width
      PROVE  /\ m[pi[i]][j] \in Ciphertext /\ b[pi[i]][j] \in Int
             /\ out[i][j] = Rerandomize(m[pi[i]][j], b[pi[i]][j], h)
             /\ out[i][j] \in Ciphertext
             /\ h = Collective => PlaintextOf(out[i][j]) = PlaintextOf(m[pi[i]][j])
  <2>1. pi[i] \in 1..Height
    BY <1>4
  <2>2. m[pi[i]][j] \in Ciphertext /\ b[pi[i]][j] \in Int
    BY <1>1, <1>3, <2>1 DEF Matrix
  <2>3. out[i][j] = Rerandomize(m[pi[i]][j], b[pi[i]][j], h)
    BY <1>5
  <2>. QED  BY <1>1, <2>2, <2>3, RerandomizeKeeps
<1>7. out \in Matrix
  <2>1. \A i \in 1..Height : out[i] \in [1..Width -> Ciphertext]
    BY <1>5, <1>6
  <2>. QED  BY <1>5, <2>1 DEF Matrix
<1>8. ASSUME SameRosterFiles
      PROVE  \E tau \in Permutation(Height) : SamePlaintexts(out, tau)
  <2>1. PICK rho \in Permutation(Height) : SamePlaintexts(m, rho)
    BY <1>8 DEF Good
  <2>. DEFINE tau == [i \in 1..Height |-> rho[pi[i]]]
  <2>2. tau \in Permutation(Height)
    BY <1>3, Composed
  <2>3. ASSUME NEW i \in 1..Height, NEW j \in 1..Width
        PROVE  PlaintextOf(out[i][j]) = PlaintextOf(ToMatrix(Given)[tau[i]][j])
    <3>1. PlaintextOf(out[i][j]) = PlaintextOf(m[pi[i]][j])
      BY <1>6, <1>8
    <3>2. pi[i] \in 1..Height
      BY <1>4
    <3>3. PlaintextOf(m[pi[i]][j]) = PlaintextOf(ToMatrix(Given)[rho[pi[i]]][j])
      BY <2>1, <3>2 DEF SamePlaintexts
    <3>. QED  BY <3>1, <3>3
  <2>4. SamePlaintexts(out, tau)
    BY <2>3 DEF SamePlaintexts
  <2>. QED  BY <2>2, <2>4
<1>9. Good(out)
  BY <1>7, <1>8 DEF Good
<1>. QED  BY <1>9 DEF out

LEMMA GivenGood ==
  ASSUME UniformResponses, input \in Inputs
  PROVE  Good(ToMatrix(Given))
<1>1. [i \in 1..Height |-> i] \in Permutation(Height)
  BY DEF Permutation
<1>2. SamePlaintexts(ToMatrix(Given), [i \in 1..Height |-> i])
  BY DEF SamePlaintexts
<1>. QED  BY <1>1, <1>2, MatrixGiven DEF Good

-----------------------------------------------------------------------------
(* Precomputed values.                                                     *)
LEMMA PairsOf ==
  ASSUME UniformResponses, input \in Inputs, FilesInv,
         NEW s \in Server, NEW m \in Matrix
  PROVE  /\ Pairs(s, m).key \in Int
         /\ SameRosterFiles => Pairs(s, m).key = Collective
         /\ WideFiles => ~ (Pairs(s, m).width < NQ(m))
<1>1. NQ(m) = Width /\ Width \in Nat /\ Collective \in Int
  BY MatrixShape, GivenShape, SurveyType
<1>2. CASE precomputed[s] = <<>>
  BY <1>1, <1>2 DEF Pairs
<1>3. CASE precomputed[s] # <<>>
  <2>. DEFINE values == precomputed[s]
  <2>1. /\ values \in Seq(Precomputation) /\ values # <<>>
        /\ \A i \in DOMAIN values : /\ SameRosterFiles => values[i].key = Collective
                                    /\ WideFiles => Width <= values[i].width
    BY <1>3 DEF FilesInv, PairsInv
  <2>. HIDE DEF values
  <2>2. 1 \in DOMAIN values /\ values[1] \in Precomputation
    <3>1. Len(values) \in Nat /\ Len(values) # 0 /\ DOMAIN values = 1..Len(values)
      BY <2>1, EmptySeq, LenProperties
    <3>. QED  BY <2>1, <3>1, ElementOfSeq
  <2>3. Pairs(s, m) = values[1]
    BY <1>3 DEF Pairs, values
  <2>4. values[1].key \in Int /\ values[1].width \in Nat
    BY <2>2 DEF Precomputation
  <2>. QED  BY <1>1, <2>1, <2>2, <2>3, <2>4
<1>. QED  BY <1>2, <1>3

LEMMA FilesInit == Init => FilesInv
<1>. SUFFICES ASSUME Init  PROVE FilesInv
  OBVIOUS
<1>1. input \in Inputs /\ file = input.OldFile /\ precomputed = [s \in Server |-> <<>>]
  BY DEF Init
<1>2. file \in [Server -> Seq(Precomputation)]
  BY <1>1, SurveyType
<1>3. ASSUME NEW s \in Server
      PROVE  /\ SameRosterFiles => \A i \in DOMAIN file[s] : file[s][i].key = Collective
             /\ WideFiles => \A i \in DOMAIN file[s] : Width <= file[s][i].width
  BY <1>1 DEF SameRosterFiles, WideFiles, Width
<1>4. \A s \in Server : precomputed[s] = <<>> /\ DOMAIN precomputed[s] = {}
  BY <1>1
<1>. QED  BY <1>1, <1>2, <1>3, <1>4 DEF FilesInv, PairsInv

LEMMA FilesStep ==
  ASSUME UniformResponses, TypeInv, FilesInv, [Next]_vars
  PROVE  FilesInv'
<1>1. CASE UNCHANGED <<input, file, precomputed>>
  BY <1>1 DEF FilesInv, PairsInv, Width
<1>2. ASSUME NEW s \in Server, Precompute(s)
      PROVE  FilesInv'
  <2>. DEFINE values == Precomputed(s)
              Fits(vs) == /\ vs \in Seq(Precomputation)
                          /\ \A i \in DOMAIN vs :
                               /\ SameRosterFiles => vs[i].key = Collective
                               /\ WideFiles => Width <= vs[i].width
  <2>1. /\ input' = input /\ precomputed' = [precomputed EXCEPT ![s] = values]
        /\ file' = [file EXCEPT ![s] = values] \/ file' = file
    BY <1>2 DEF Precompute
  <2>2. \A t \in Server : Fits(file[t]) /\ Fits(precomputed[t])
    BY DEF FilesInv, PairsInv
  <2>3. Fits(<<NewPrecomputation>>)
    <3>. DEFINE v == NewPrecomputation
    <3>1. input \in Inputs
      BY DEF TypeInv
    <3>2. input.LineSize \in Nat /\ Collective \in Int
      BY <3>1, SurveyType
    <3>3. v \in Precomputation /\ v.key = Collective /\ v.width = 2 * input.LineSize
      BY <3>2 DEF NewPrecomputation, Precomputation
    <3>4. WideFiles => Width <= v.width
      BY <3>1, <3>3 DEF WideFiles, Width
    <3>. HIDE DEF v
    <3>5. <<v>> \in Seq(Precomputation) /\ \A i \in DOMAIN <<v>> : <<v>>[i] = v
      BY <3>3
    <3>. QED  BY <3>3, <3>4, <3>5 DEF v
  <2>4. Fits(values)
    BY <2>2, <2>3 DEF Precomputed
  <2>. HIDE DEF values, Fits
  <2>5. /\ DOMAIN file' = Server /\ DOMAIN precomputed' = Server
        /\ \A t \in Server : /\ file'[t] = file[t] \/ file'[t] = values
                             /\ precomputed'[t] = precomputed[t] \/ precomputed'[t] = values
    BY <2>1 DEF FilesInv
  <2>6. \A t \in Server : Fits(file'[t]) /\ Fits(precomputed'[t])
    BY <2>2, <2>4, <2>5
  <2>7. Width' = Width
    BY <2>1 DEF Width
  <2>. QED  BY <2>5, <2>6, <2>7 DEF FilesInv, PairsInv, Fits
<1>. QED  BY <1>1, <1>2
           DEF Next, vars, Start, Report, ReceiveLength, ShuffleOn, TimeOut

-----------------------------------------------------------------------------
(* The matrices on their way.                                              *)
LEMMA GoodSame ==
  ASSUME input' = input
  PROVE  /\ Given' = Given /\ Height' = Height /\ Width' = Width /\ Matrix' = Matrix
         /\ \A m : Good(m)' <=> Good(m)
BY DEF Given, Height, Width, Matrix, Good, SamePlaintexts

LEMMA MatrixSame ==
  ASSUME MatrixInv, input' = input, lengths' = lengths, datas' = datas
  PROVE  MatrixInv'
BY GoodSame DEF MatrixInv

(* The next server gets a matrix made from the root's, or no matrix.       *)
LEMMA MatrixSent ==
  ASSUME TypeInv, NEW h \in 0..N, Hops(h), NEW s \in Server, Sender(s, h),
         MatrixInv, input' = input, NEW m, Good(m), Send(s, m) \/ SendFails(s, m)
  PROVE  MatrixInv'
<1>. DEFINE t == NextInCircuit(List, s)
<1>1. t \in Server /\ lengths[t] = <<>> /\ datas[t] = <<>>
  BY NextIsFree
<1>2. \A u \in Server \ {t} : lengths'[u] = lengths[u] /\ datas'[u] = datas[u]
  BY <1>1 DEF Send, SendFails, TypeInv
<1>3. CASE Send(s, m)
  <2>1. datas'[t] = <<ToBytes(m)>> /\ lengths'[t] = <<LengthsOf(m)>>
    BY <1>1, <1>3, AppendToEmpty DEF Send, TypeInv
  <2>2. m \in Matrix /\ m \in Matrix' /\ Good(m)'
    BY GoodSame DEF Good
  <2>3. ASSUME NEW u \in Server, datas'[u] # <<>>
        PROVE  \E n \in Matrix' : Good(n)' /\ datas'[u] = <<ToBytes(n)>>
                                           /\ lengths'[u] = <<LengthsOf(n)>>
    <3>1. CASE u = t
      BY <2>1, <2>2, <3>1
    <3>2. CASE u # t
      BY <1>2, <2>3, <3>2, GoodSame DEF MatrixInv
    <3>. QED  BY <3>1, <3>2
  <2>. QED  BY <2>3 DEF MatrixInv
<1>4. CASE SendFails(s, m)
  <2>1. datas' = datas
    BY <1>4 DEF SendFails
  <2>2. ASSUME NEW u \in Server, datas'[u] # <<>>
        PROVE  \E n \in Matrix' : Good(n)' /\ datas'[u] = <<ToBytes(n)>>
                                           /\ lengths'[u] = <<LengthsOf(n)>>
    <3>1. u # t /\ datas[u] # <<>>
      BY <1>1, <2>1, <2>2
    <3>. QED  BY <1>2, <2>1, <3>1, GoodSame DEF MatrixInv
  <2>. QED  BY <2>2 DEF MatrixInv
<1>. QED  BY <1>3, <1>4

LEMMA ReceivedGood ==
  ASSUME UniformResponses, TypeInv, MatrixInv, NEW s \in Server, datas[s] # <<>>
  PROVE  Received(s) \in Matrix /\ Good(Received(s))
<1>1. PICK m \in Matrix : Good(m) /\ datas[s] = <<ToBytes(m)>> /\ lengths[s] = <<LengthsOf(m)>>
  BY DEF MatrixInv
<1>2. Head(datas[s]) = ToBytes(m) /\ Head(lengths[s]) = LengthsOf(m)
  BY <1>1
<1>3. Received(s) = m
  BY <1>2, MatrixShape DEF Received, TypeInv
<1>. QED  BY <1>1, <1>3

LEMMA MatrixStep ==
  ASSUME UniformResponses, TypeInv, HopInv, FilesInv, MatrixInv, [Next]_vars
  PROVE  MatrixInv'
<1>1. PICK h \in 0..N : Hops(h)
  BY DEF HopInv
<1>2. input \in Inputs /\ Collective \in Int
  BY SurveyType DEF TypeInv
<1>3. CASE UNCHANGED <<input, lengths, datas>>
  BY <1>3, MatrixSame
<1>4. ASSUME NEW s \in Server, Sender(s, h), input' = input,
             NEW m \in Matrix, Good(m),
             NEW pi \in Permutation(Len(m)), NEW b \in Blinding(m),
             \/ Send(s, Shuffled(s, m, pi, b)) \/ SendFails(s, Shuffled(s, m, pi, b))
      PROVE  MatrixInv'
  <2>1. Good(Shuffled(s, m, pi, b))
    BY <1>2, <1>4, PairsOf, ShuffleGood DEF Shuffled
  <2>. QED  BY <1>1, <1>4, <2>1, MatrixSent
<1>5. CASE Start
  <2>1. input' = input /\ begun = "no" /\ TheRoot \in Server
    BY <1>5, DueType DEF Start
  <2>2. Sender(TheRoot, h)
    BY <1>1, <2>1 DEF Hops, Sender
  <2>. DEFINE m == ToMatrix(Given)
  <2>3. m \in Matrix /\ Good(m)
    BY <1>2, GivenGood, MatrixGiven
  <2>4. \/ UNCHANGED <<lengths, datas>>
        \/ \E pi \in Permutation(Len(m)), b \in Blinding(m) :
             \/ Send(TheRoot, Shuffled(TheRoot, m, pi, b))
             \/ SendFails(TheRoot, Shuffled(TheRoot, m, pi, b))
    BY <1>5 DEF Start, TheRoot, Given
  <2>. HIDE DEF m
  <2>. QED  BY <1>3, <1>4, <2>1, <2>2, <2>3, <2>4
<1>6. ASSUME NEW s \in Server, ShuffleOn(s)
      PROVE  MatrixInv'
  <2>1. input' = input /\ pc[s] = "data" /\ datas[s] # <<>> /\ s # TheRoot
    BY <1>6 DEF ShuffleOn, TheRoot
  <2>2. lengths[s] # <<>> /\ Due(s) \in 1..N /\ Due(s) <= h /\ ~ (Due(s) < h) /\ N \in Nat
    BY <1>1, <2>1, DueType DEF Hops
  <2>3. Sender(s, h)
    BY <2>1, <2>2 DEF Sender
  <2>. DEFINE m == Received(s)
  <2>4. m \in Matrix /\ Good(m)
    BY <2>1, ReceivedGood
  <2>5. \/ UNCHANGED <<lengths, datas>>
        \/ \E pi \in Permutation(Len(m)), b \in Blinding(m) :
             \/ Send(s, Shuffled(s, m, pi, b))
             \/ SendFails(s, Shuffled(s, m, pi, b))
    BY <1>6 DEF ShuffleOn
  <2>. HIDE DEF m
  <2>. QED  BY <1>3, <1>4, <2>1, <2>3, <2>4, <2>5
<1>. QED  BY <1>3, <1>5, <1>6
           DEF Next, vars, Report, Precompute, ReceiveLength, TimeOut

-----------------------------------------------------------------------------
(* The responses that are rebuilt from a matrix decrypt to those that the  *)
(* root's matrix was made from, in the order of the permutation.           *)
LEMMA CutRow ==
  ASSUME NEW row \in Seq(Ciphertext), NEW k \in Nat, NEW a \in Nat, Len(row) = k + a
  PROVE  /\ DecryptVector(SubSeq(row, 1, k)) = [j \in 1..k |-> PlaintextOf(row[j])]
         /\ DecryptVector(SubSeq(row, k + 1, Len(row))) =
              [j \in 1..a |-> PlaintextOf(row[k + j])]
<1>. DEFINE key == SubSeq(row, 1, k)
            agg == SubSeq(row, k + 1, k + a)
<1>1. key \in Seq(Ciphertext) /\ Len(key) = k /\ \A j \in 1..k : key[j] = row[j]
  <2>1. \A i \in 1..k : i \in 1..Len(row)
    OBVIOUS
  <2>2. /\ SubSeq(row, 1, k) \in Seq(Ciphertext)
        /\ Len(SubSeq(row, 1, k)) = IF 1 <= k THEN k - 1 + 1 ELSE 0
        /\ \A i \in 1..(k - 1 + 1) : SubSeq(row, 1, k)[i] = row[1 + i - 1]
    BY <2>1, SubSeqProperties
  <2>. QED  BY <2>2
<1>2. agg \in Seq(Ciphertext) /\ Len(agg) = a /\ \A j \in 1..a : agg[j] = row[k + j]
  <2>1. \A i \in (k + 1)..(k + a) : i \in 1..Len(row)
    OBVIOUS
  <2>2. /\ SubSeq(row, k + 1, k + a) \in Seq(Ciphertext)
        /\ Len(SubSeq(row, k + 1, k + a)) =
             IF k + 1 <= k + a THEN (k + a) - (k + 1) + 1 ELSE 0
        /\ \A i \in 1..((k + a) - (k + 1) + 1) :
             SubSeq(row, k + 1, k + a)[i] = row[(k + 1) + i - 1]
    BY <2>1, SubSeqProperties
  <2>. QED  BY <2>2
<1>. HIDE DEF key, agg
<1>3. DOMAIN key = 1..k /\ DOMAIN agg = 1..a
  BY <1>1, <1>2, LenProperties
<1>4. DecryptVector(key) = [j \in 1..k |-> PlaintextOf(row[j])]
  BY <1>1, <1>3 DEF DecryptVector, PlaintextOf
<1>5. DecryptVector(agg) = [j \in 1..a |-> PlaintextOf(row[k + j])]
  BY <1>2, <1>3 DEF DecryptVector, PlaintextOf
<1>. QED  BY <1>4, <1>5 DEF key, agg

LEMMA DecryptGiven ==
  ASSUME UniformResponses, input \in Inputs
  PROVE  Decrypt(Given) =
           [i \in 1..Height |->
              [key |-> [j \in 1..KeyLen |-> PlaintextOf(ToMatrix(Given)[i][j])],
               agg |-> [j \in 1..AggLen |-> PlaintextOf(ToMatrix(Given)[i][KeyLen + j])]]]
<1>1. ASSUME NEW i \in 1..Height
      PROVE  /\ DecryptVector(Given[i].key) =
                  [j \in 1..KeyLen |-> PlaintextOf(ToMatrix(Given)[i][j])]
             /\ DecryptVector(Given[i].agg) =
                  [j \in 1..AggLen |-> PlaintextOf(ToMatrix(Given)[i][KeyLen + j])]
  <2>1. Given[i] \in Response /\ Len(Given[i].key) = KeyLen /\ Len(Given[i].agg) = AggLen
    BY GivenShape
  <2>2. DOMAIN Given[i].key = 1..KeyLen /\ DOMAIN Given[i].agg = 1..AggLen
    BY <2>1, LenProperties DEF Response
  <2>. QED  BY <2>2, MatrixGiven DEF DecryptVector, PlaintextOf
<1>. QED  BY <1>1, GivenShape DEF Decrypt

LEMMA RebuiltKeeps ==
  ASSUME UniformResponses, input \in Inputs,
         NEW m \in Matrix, NEW pi \in Permutation(Height), SamePlaintexts(m, pi)
  PROVE  Decrypt(FromMatrix(m, Shape(Given))) = [i \in 1..Height |-> Decrypt(Given)[pi[i]]]
<1>. DEFINE shape == Shape(Given)
            rebuilt == FromMatrix(m, shape)
<1>1. /\ KeyLen \in Nat /\ AggLen \in Nat /\ Width = KeyLen + AggLen
      /\ \A i \in 1..Height : shape[i] = KeyLen
  BY GivenShape DEF Shape
<1>2. /\ DOMAIN m = 1..Height
      /\ \A i \in 1..Height : m[i] \in Seq(Ciphertext) /\ Len(m[i]) = Width
  BY MatrixShape
<1>3. pi \in [1..Height -> 1..Height]
  BY DEF Permutation
<1>. HIDE DEF shape
<1>4. rebuilt = [i \in 1..Height |->
                   [key |-> SubSeq(m[i], 1, KeyLen),
                    agg |-> SubSeq(m[i], KeyLen + 1, Len(m[i]))]]
  BY <1>1, <1>2 DEF FromMatrix
<1>5. ASSUME NEW i \in 1..Height
      PROVE  /\ DecryptVector(rebuilt[i].key) = Decrypt(Given)[pi[i]].key
             /\ DecryptVector(rebuilt[i].agg) = Decrypt(Given)[pi[i]].agg
  <2>1. /\ DecryptVector(rebuilt[i].key) = [j \in 1..KeyLen |-> PlaintextOf(m[i][j])]
        /\ DecryptVector(rebuilt[i].agg) = [j \in 1..AggLen |-> PlaintextOf(m[i][KeyLen + j])]
    <3>1. m[i] \in Seq(Ciphertext) /\ Len(m[i]) = KeyLen + AggLen
      BY <1>1, <1>2
    <3>. DEFINE row == m[i]
    <3>2. /\ rebuilt[i].key = SubSeq(row, 1, KeyLen)
          /\ rebuilt[i].agg = SubSeq(row, KeyLen + 1, Len(row))
      BY <1>4
    <3>. HIDE DEF rebuilt, row
    <3>3. /\ DecryptVector(SubSeq(row, 1, KeyLen)) = [j \in 1..KeyLen |-> PlaintextOf(row[j])]
          /\ DecryptVector(SubSeq(row, KeyLen + 1, Len(row))) =
               [j \in 1..AggLen |-> PlaintextOf(row[KeyLen + j])]
      BY <1>1, <3>1, CutRow DEF row
    <3>. QED  BY <3>2, <3>3 DEF row
  <2>2. pi[i] \in 1..Height
    BY <1>3
  <2>3. /\ \A j \in 1..KeyLen : PlaintextOf(m[i][j]) = PlaintextOf(ToMatrix(Given)[pi[i]][j])
        /\ \A j \in 1..AggLen : PlaintextOf(m[i][KeyLen + j]) =
                                  PlaintextOf(ToMatrix(Given)[pi[i]][KeyLen + j])
    <3>1. \A j \in 1..Width : PlaintextOf(m[i][j]) = PlaintextOf(ToMatrix(Given)[pi[i]][j])
      BY DEF SamePlaintexts
    <3>2. /\ \A j \in 1..KeyLen : j \in 1..Width
          /\ \A j \in 1..AggLen : KeyLen + j \in 1..Width
      BY <1>1
    <3>. QED  BY <3>1, <3>2
  <2>. DEFINE k == pi[i]
  <2>4. /\ Decrypt(Given)[k].key = [j \in 1..KeyLen |-> PlaintextOf(ToMatrix(Given)[k][j])]
        /\ Decrypt(Given)[k].agg =
             [j \in 1..AggLen |-> PlaintextOf(ToMatrix(Given)[k][KeyLen + j])]
    <3>1. ASSUME NEW n \in 1..Height
          PROVE  Decrypt(Given)[n] =
                   [key |-> [j \in 1..KeyLen |-> PlaintextOf(ToMatrix(Given)[n][j])],
                    agg |-> [j \in 1..AggLen |-> PlaintextOf(ToMatrix(Given)[n][KeyLen + j])]]
      BY DecryptGiven
    <3>2. Decrypt(Given)[k] =
            [key |-> [j \in 1..KeyLen |-> PlaintextOf(ToMatrix(Given)[k][j])],
             agg |-> [j \in 1..AggLen |-> PlaintextOf(ToMatrix(Given)[k][KeyLen + j])]]
      BY <2>2, <3>1, Zenon
    <3>. QED  BY <3>2
  <2>. QED  BY <2>1, <2>3, <2>4
<1>6. ASSUME NEW k \in 1..Height
      PROVE  Decrypt(Given)[k] = [key |-> Decrypt(Given)[k].key, agg |-> Decrypt(Given)[k].agg]
  BY DecryptGiven
<1>7. Decrypt(rebuilt) = [i \in 1..Height |-> [key |-> DecryptVector(rebuilt[i].key),
                                              agg |-> DecryptVector(rebuilt[i].agg)]]
  BY <1>4 DEF Decrypt
<1>. HIDE DEF rebuilt
<1>8. \A i \in 1..Height :
        [key |-> DecryptVector(rebuilt[i].key), agg |-> DecryptVector(rebuilt[i].agg)] =
          Decrypt(Given)[pi[i]]
  BY <1>3, <1>5, <1>6
<1>9. Decrypt(rebuilt) = [i \in 1..Height |-> Decrypt(Given)[pi[i]]]
  BY <1>7, <1>8
<1>. QED  BY <1>9 DEF rebuilt, shape

(* What PlaintextsPreserved expects.                                       *)
Expected ==
  LET given == Decrypt(input.Responses)
      zeros == [given[1] EXCEPT !.agg = [i \in DOMAIN @ |-> 0]]
  IN  IF Len(given) = 1 THEN Append(given, zeros) ELSE given

LEMMA LenByDomain ==
  ASSUME NEW n \in Nat, NEW f, f = [i \in 1..n |-> f[i]]
  PROVE  f \in Seq({f[i] : i \in 1..n}) /\ Len(f) = n
<1>1. f \in [1..n -> {f[i] : i \in 1..n}]
  <2>. DEFINE S == {f[i] : i \in 1..n}
  <2>1. \A i \in 1..n : f[i] \in S
    OBVIOUS
  <2>. HIDE DEF S
  <2>. QED  BY <2>1
<1>. QED  BY <1>1, IsASeq, LenProperties

LEMMA ExpectedGiven ==
  ASSUME UniformResponses, input \in Inputs
  PROVE  Expected = Decrypt(Given) /\ Len(Expected) = Height /\ DOMAIN Expected = 1..Height
<1>. DEFINE rs == input.Responses
            given == Decrypt(rs)
            zeros == [given[1] EXCEPT !.agg = [i \in DOMAIN @ |-> 0]]
            dummy == [rs[1] EXCEPT !.agg = [i \in DOMAIN @ |-> Zero]]
            Plain(r) == [key |-> DecryptVector(r.key), agg |-> DecryptVector(r.agg)]
<1>1. /\ rs \in Seq(Response) /\ Len(rs) \in Nat /\ Len(rs) > 0 /\ DOMAIN rs = 1..Len(rs)
      /\ rs[1] \in Response /\ Collective \in Int
  <2>1. rs \in Seq(Response) /\ rs # <<>> /\ Collective \in Int
    BY SurveyType
  <2>. HIDE DEF rs
  <2>2. Len(rs) \in Nat /\ Len(rs) # 0 /\ DOMAIN rs = 1..Len(rs)
    BY <2>1, EmptySeq, LenProperties
  <2>. QED  BY <2>1, <2>2, ElementOfSeq
<1>2. /\ Given = IF Len(rs) = 1 THEN Append(rs, dummy) ELSE rs
      /\ Expected = IF Len(given) = 1 THEN Append(given, zeros) ELSE given
  BY DEF Given, WithDummy, Expected
<1>3. Height \in Nat /\ DOMAIN Given = 1..Height
  BY GivenShape
<1>4. Decrypt(Given) = [i \in 1..Height |-> Plain(Given[i])]
  BY <1>3 DEF Decrypt
<1>5. given = [i \in 1..Len(rs) |-> Plain(rs[i])]
  BY <1>1 DEF Decrypt
<1>6. Plain(dummy) = zeros
  <2>1. /\ dummy.key = rs[1].key /\ DOMAIN dummy.agg = DOMAIN rs[1].agg
        /\ \A i \in DOMAIN rs[1].agg : dummy.agg[i] = Zero
    BY <1>1, DummyShape
  <2>2. 0 - Collective * 0 = 0
    BY <1>1
  <2>. DEFINE none == [i \in DOMAIN rs[1].agg |-> 0]
  <2>3. DecryptVector(dummy.agg) = none
    <3>1. \A i \in DOMAIN rs[1].agg : dummy.agg[i].C - Collective * dummy.agg[i].K = 0
      BY <2>1, <2>2 DEF Zero
    <3>. HIDE DEF dummy, rs
    <3>. QED  BY <2>1, <3>1 DEF DecryptVector
  <2>4. given[1] = Plain(rs[1])
    BY <1>1, <1>5
  <2>5. DOMAIN DecryptVector(rs[1].agg) = DOMAIN rs[1].agg
    BY DEF DecryptVector
  <2>6. zeros = [key |-> DecryptVector(rs[1].key), agg |-> none]
    BY <2>4, <2>5
  <2>. QED  BY <2>1, <2>3, <2>6
<1>7. given \in Seq({given[i] : i \in 1..Len(rs)}) /\ Len(given) = Len(rs)
  <2>. HIDE DEF Plain, rs
  <2>1. given = [i \in 1..Len(rs) |-> given[i]]
    BY <1>5
  <2>. HIDE DEF given
  <2>. QED  BY <1>1, <2>1, LenByDomain
<1>. HIDE DEF given, zeros, dummy, rs, Plain
<1>8. Expected = Decrypt(Given)
  <2>1. CASE Len(rs) # 1
    <3>1. Given = rs /\ Expected = given
      BY <1>2, <1>7, <2>1
    <3>2. Height = Len(rs)
      BY <3>1 DEF Height
    <3>. QED  BY <1>4, <1>5, <3>1, <3>2
  <2>2. CASE Len(rs) = 1
    <3>. DEFINE X == {given[i] : i \in 1..Len(rs)} \cup {zeros}
    <3>1. /\ Given = Append(rs, dummy) /\ Expected = Append(given, zeros)
          /\ Height = 2
          /\ Given[1] = rs[1] /\ Given[2] = dummy
      <4>1. Given = Append(rs, dummy) /\ Expected = Append(given, zeros)
        BY <1>2, <1>7, <2>2
      <4>2. /\ Len(Append(rs, dummy)) = Len(rs) + 1
            /\ \A i \in 1..Len(rs) : Append(rs, dummy)[i] = rs[i]
            /\ Append(rs, dummy)[Len(rs) + 1] = dummy
        <5>1. dummy \in Response
          BY <1>1, DummyShape DEF dummy
        <5>. QED  BY <1>1, <5>1, AppendProperties
      <4>3. 1 \in 1..Len(rs) /\ Len(rs) + 1 = 2
        BY <2>2
      <4>. QED  BY <4>1, <4>2, <4>3 DEF Height
    <3>2. DOMAIN Expected = 1..2 /\ Expected[1] = given[1] /\ Expected[2] = zeros
          /\ Expected = [i \in 1..2 |-> Expected[i]]
      <4>1. given \in Seq(X) /\ zeros \in X
        <5>1. \A i \in 1..Len(given) : given[i] \in X
          BY <1>7
        <5>2. given = [i \in 1..Len(given) |-> given[i]] /\ Len(given) \in Nat
          BY <1>5, <1>7, <1>1
        <5>. HIDE DEF X
        <5>3. given \in [1..Len(given) -> X]
          BY <5>1, <5>2
        <5>4. given \in Seq(X)
          BY <5>2, <5>3, IsASeq
        <5>. QED  BY <5>4 DEF X
      <4>. HIDE DEF X
      <4>2. /\ Append(given, zeros) \in Seq(X)
            /\ Len(Append(given, zeros)) = Len(given) + 1
            /\ \A i \in 1..Len(given) : Append(given, zeros)[i] = given[i]
            /\ Append(given, zeros)[Len(given) + 1] = zeros
        BY <4>1, AppendProperties
      <4>3. 1 \in 1..Len(given) /\ Len(given) + 1 = 2
        BY <1>7, <2>2
      <4>4. Expected \in Seq(X) /\ Len(Expected) = 2
        BY <3>1, <4>2, <4>3
      <4>5. Expected \in [1..2 -> X]
        BY <4>4, LenProperties, ElementOfSeq
      <4>. QED  BY <3>1, <4>2, <4>3, <4>5
    <3>3. given[1] = Plain(rs[1]) /\ Decrypt(Given) = [i \in 1..2 |-> Plain(Given[i])]
      <4>1. 1 \in 1..Len(rs)
        BY <2>2
      <4>2. given[1] = Plain(rs[1])
        BY <1>5, <4>1, Zenon
      <4>. QED  BY <1>4, <3>1, <4>2
    <3>4. \A i \in 1..2 : Expected[i] = Plain(Given[i])
      <4>1. \A i \in 1..2 : i = 1 \/ i = 2
        OBVIOUS
      <4>2. Expected[1] = Plain(Given[1]) /\ Expected[2] = Plain(Given[2])
        BY <1>6, <3>1, <3>2, <3>3
      <4>. QED  BY <4>1, <4>2
    <3>. QED  BY <3>2, <3>3, <3>4
  <2>. QED  BY <2>1, <2>2
<1>9. Len(Expected) = Height /\ DOMAIN Expected = 1..Height
  <2>1. DOMAIN Expected = 1..Height
    BY <1>4, <1>8
  <2>2. Expected = [i \in 1..Height |-> Expected[i]]
    BY <1>4, <1>8
  <2>. QED  BY <1>3, <2>1, <2>2, LenByDomain
<1>. QED  BY <1>8, <1>9

-----------------------------------------------------------------------------
LEMMA PlaintextsStep ==
  ASSUME UniformResponses, SameRosterFiles, TypeInv, MatrixInv, PlaintextsPreserved,
         [Next]_vars
  PROVE  PlaintextsPreserved'
<1>1. PlaintextsPreserved <=>
        \A rs \in feedback : \E pi \in Permutation(Len(Expected)) :
          Decrypt(rs) = [i \in DOMAIN Expected |-> Expected[pi[i]]]
  BY DEF PlaintextsPreserved, Expected
<1>2. input' = input => Expected' = Expected
  BY DEF Expected
<1>3. PlaintextsPreserved' <=>
        \A rs \in feedback' : \E pi \in Permutation(Len(Expected')) :
          Decrypt(rs) = [i \in DOMAIN Expected' |-> Expected'[pi[i]]]
  BY DEF PlaintextsPreserved, Expected
<1>4. CASE UNCHANGED <<input, feedback>>
  BY <1>1, <1>2, <1>3, <1>4
<1>5. CASE Report
  <2>. DEFINE rebuilt == FromMatrix(Received(TheRoot), Shape(Given))
  <2>1. /\ TheRoot \in Server /\ datas[TheRoot] # <<>> /\ input \in Inputs
        /\ input' = input /\ feedback' = feedback \cup {rebuilt}
    BY <1>5, DueType DEF Report, TheRoot, Given, TypeInv
  <2>2. Received(TheRoot) \in Matrix /\ Good(Received(TheRoot))
    BY <2>1, ReceivedGood
  <2>3. PICK pi \in Permutation(Height) : SamePlaintexts(Received(TheRoot), pi)
    BY <2>2 DEF Good
  <2>4. Decrypt(rebuilt) = [i \in 1..Height |-> Decrypt(Given)[pi[i]]]
    BY <2>1, <2>2, <2>3, RebuiltKeeps
  <2>5. Expected = Decrypt(Given) /\ Len(Expected) = Height /\ DOMAIN Expected = 1..Height
    BY <2>1, ExpectedGiven
  <2>. HIDE DEF rebuilt
  <2>6. Decrypt(rebuilt) = [i \in DOMAIN Expected |-> Expected[pi[i]]]
    BY <2>4, <2>5
  <2>. QED  BY <1>1, <1>2, <1>3, <2>1, <2>5, <2>6
<1>. QED  BY <1>4, <1>5
           DEF Next, vars, Start, Precompute, ReceiveLength, ShuffleOn, TimeOut

LEMMA FitsStep ==
  ASSUME UniformResponses, WideFiles, TypeInv, FilesInv, MatrixInv, PrecomputationFits,
         [Next]_vars
  PROVE  PrecomputationFits'
<1>1. input \in Inputs
  BY DEF TypeInv
<1>2. CASE UNCHANGED <<pc, begun>>
  BY <1>2 DEF PrecomputationFits
<1>3. ASSUME begun' = begun,
             NEW s \in Server, NEW next, next # "panicked", pc' = [pc EXCEPT ![s] = next]
      PROVE  PrecomputationFits'
  BY <1>3 DEF PrecomputationFits, TypeInv
<1>4. CASE Start
  <2>1. TheRoot \in Server /\ ToMatrix(Given) \in Matrix
    BY <1>1, DueType, MatrixGiven
  <2>2. ~ (Pairs(TheRoot, ToMatrix(Given)).width < NQ(ToMatrix(Given)))
    BY <1>1, <2>1, PairsOf
  <2>3. pc' = pc /\ begun' \in {"done", "failed"}
    BY <1>4, <2>2 DEF Start, TheRoot, Given
  <2>. QED  BY <2>3 DEF PrecomputationFits
<1>5. ASSUME NEW s \in Server, ShuffleOn(s)
      PROVE  PrecomputationFits'
  <2>1. datas[s] # <<>> /\ begun' = begun
    BY <1>5 DEF ShuffleOn
  <2>2. Received(s) \in Matrix
    BY <2>1, ReceivedGood
  <2>3. ~ (Pairs(s, Received(s)).width < NQ(Received(s)))
    BY <1>1, <2>2, PairsOf
  <2>4. pc' = [pc EXCEPT ![s] = "done"] \/ pc' = [pc EXCEPT ![s] = "failed"]
    BY <1>5, <2>3 DEF ShuffleOn
  <2>. QED  BY <1>3, <2>1, <2>4
<1>6. CASE Report
  <2>1. TheRoot \in Server /\ begun' = begun /\ pc' = [pc EXCEPT ![TheRoot] = "done"]
    BY <1>6, DueType DEF Report, TheRoot
  <2>. QED  BY <1>3, <2>1
<1>7. ASSUME NEW s \in Server, ReceiveLength(s) \/ TimeOut(s)
      PROVE  PrecomputationFits'
  <2>1. /\ begun' = begun
        /\ pc' = [pc EXCEPT ![s] = "data"] \/ pc' = [pc EXCEPT ![s] = "failed"]
    BY <1>7 DEF ReceiveLength, TimeOut
  <2>. QED  BY <1>3, <2>1
<1>8. ASSUME NEW s \in Server, Precompute(s)
      PROVE  PrecomputationFits'
  BY <1>2, <1>8 DEF Precompute
<1>. QED  BY <1>2, <1>4, <1>5, <1>6, <1>7, <1>8 DEF Next, vars

(* The invariant that the two theorems below need, for uniform responses.  *)
LEMMA Inductive ==
  ASSUME UniformResponses
  PROVE  /\ Init => IInv
         /\ IInv /\ [Next]_vars => IInv'
<1>1. ASSUME Init
      PROVE  IInv
  <2>1. MatrixInv
    BY <1>1 DEF Init, MatrixInv
  <2>2. PrecomputationFits /\ PlaintextsPreserved
    BY <1>1 DEF Init, PrecomputationFits, PlaintextsPreserved
  <2>. QED  BY <1>1, <2>1, <2>2, HopInit, FilesInit DEF IInv
<1>2. ASSUME IInv, [Next]_vars
      PROVE  IInv'
  <2>1. TypeInv /\ HopInv /\ FilesInv /\ MatrixInv
    BY <1>2 DEF IInv
  <2>2. TypeInv' /\ HopInv'
    BY <1>2, <2>1, HopStep
  <2>3. FilesInv' /\ MatrixInv'
    BY <1>2, <2>1, FilesStep, MatrixStep
  <2>4. WideFiles => PrecomputationFits'
    BY <1>2, <2>1, FitsStep DEF IInv
  <2>5. SameRosterFiles => PlaintextsPreserved'
    BY <1>2, <2>1, PlaintextsStep DEF IInv
  <2>6. (WideFiles' <=> WideFiles) /\ (SameRosterFiles' <=> SameRosterFiles)
    BY DEF WideFiles, SameRosterFiles
  <2>. QED  BY <2>2, <2>3, <2>4, <2>5, <2>6 DEF IInv
<1>. QED  BY <1>1, <1>2

(* If the responses have the same attributes, and the files of earlier     *)
(* surveys hold values for rows as long as theirs, no server, neither in   *)
(* Start nor in Dispatch, cuts a row of precomputed values beyond its end. *)
THEOREM NothingPanics ==
  ASSUME UniformResponses, WideFiles
  PROVE  Spec => []PrecomputationFits
<1>1. IInv => PrecomputationFits
  BY DEF IInv
<1>. QED  BY <1>1, Inductive, PTL DEF Spec

(* If the responses have the same attributes, and the files of earlier     *)
(* surveys hold multiples of the collective key: whatever permutations and *)
(* factors the servers choose, and whatever is lost, the responses that    *)
(* ShufflingPhase takes back are, in some order, encryptions of the root's *)
(* and of the one it added.                                                *)
THEOREM ShufflingKeepsPlaintexts ==
  ASSUME UniformResponses, SameRosterFiles
  PROVE  Spec => []PlaintextsPreserved
<1>1. IInv => PlaintextsPreserved
  BY DEF IInv
<1>. QED  BY <1>1, Inductive, PTL DEF Spec

-----------------------------------------------------------------------------
(* The round of ShufflingPlusDDT.  The shares are added along the roster.  *)
Share(S, i) == IF List[i] \in S THEN Priv[List[i]] ELSE 0
ShareSums(sums, S) ==
  /\ sums \in [0..N -> Int] /\ sums[0] = 0
  /\ \A i \in 1..N : sums[i] = sums[i - 1] + Share(S, i)

LEMMA ShareType == \A s \in Server : Priv[s] \in Int
BY TargetAssumption

LEMMA SharesAdded ==
  ASSUME NEW S
  PROVE  \E sums : ShareSums(sums, S) /\ SumOfShares(S) = sums[N]
<1>. DEFINE step == [p \in (1..N) \X Int |-> p[2] + Share(S, p[1])]
<1>1. N \in Nat /\ \A i \in 1..N : Share(S, i) \in Int
  BY ListType, ShareType DEF Share
<1>2. IsStep(step, N, Int)
  BY <1>1 DEF IsStep
<1>3. PICK sums \in [0..N -> Int] :
        sums[0] = 0 /\ \A i \in 1..N : sums[i] = step[<<i, sums[i - 1]>>]
  <2>. HIDE DEF step
  <2>1. \E f : IsRecursion(f, N, Int, 0, step)
    BY <1>1, <1>2, RecursionExists
  <2>. QED  BY <2>1 DEF IsRecursion
<1>4. ShareSums(sums, S)
  <2>1. ASSUME NEW i \in 1..N
        PROVE  step[<<i, sums[i - 1]>>] = sums[i - 1] + Share(S, i)
    <3>1. i - 1 \in 0..N
      BY <1>1
    <3>2. sums[i - 1] \in Int
      BY <3>1
    <3>. QED  BY <3>2
  <2>. HIDE DEF step
  <2>. QED  BY <1>3, <2>1 DEF ShareSums
<1>. DEFINE sum[i \in 0..N] == IF i = 0 THEN 0 ELSE sum[i - 1] + Share(S, i)
<1>5. sum = [i \in 0..N |-> IF i = 0 THEN 0 ELSE sum[i - 1] + Share(S, i)]
  <2>1. sums = [i \in 0..N |-> IF i = 0 THEN 0 ELSE sums[i - 1] + Share(S, i)]
    <3>1. \A i \in 0..N : sums[i] = IF i = 0 THEN 0 ELSE sums[i - 1] + Share(S, i)
      BY <1>1, <1>3, <1>4 DEF ShareSums
    <3>. QED  BY <3>1
  <2>2. \E f : f = [i \in 0..N |-> IF i = 0 THEN 0 ELSE f[i - 1] + Share(S, i)]
    BY <2>1
  <2>. QED  BY <2>2, Zenon
<1>6. SumOfShares(S) = sum[N]
  BY DEF SumOfShares, Share, N
<1>. HIDE DEF sum
<1>7. sum[N] = sums[N]
  <2>. DEFINE T == {i \in 0..N : sum[i] = sums[i]}
  <2>1. 0 \in T
    BY <1>1, <1>3, <1>5
  <2>2. ASSUME NEW i \in 0..N, i \in T, i < N
        PROVE  i + 1 \in T
    <3>1. i + 1 \in 1..N /\ i + 1 \in 0..N /\ (i + 1) - 1 = i /\ i + 1 # 0
      BY <1>1, <2>2
    <3>2. sum[i + 1] = sum[i] + Share(S, i + 1)
      BY <1>5, <3>1
    <3>3. sums[i + 1] = sums[i] + Share(S, i + 1)
      BY <1>4, <3>1 DEF ShareSums
    <3>. QED  BY <2>2, <3>1, <3>2, <3>3
  <2>. HIDE DEF T
  <2>3. N \in T
    BY <1>1, <2>1, <2>2, BoundedInduct
  <2>. QED  BY <2>3 DEF T
<1>. QED  BY <1>4, <1>6, <1>7

LEMMA SumType == \A S : SumOfShares(S) \in Int
<1>1. ASSUME NEW S
      PROVE  SumOfShares(S) \in Int
  <2>1. PICK sums : ShareSums(sums, S) /\ SumOfShares(S) = sums[N]
    BY SharesAdded
  <2>2. N \in 0..N
    BY ListType
  <2>. QED  BY <2>1, <2>2 DEF ShareSums
<1>. QED  BY <1>1

LEMMA SumOfNone == SumOfShares({}) = 0
<1>1. PICK sums : ShareSums(sums, {}) /\ SumOfShares({}) = sums[N]
  BY SharesAdded
<1>. DEFINE T == {i \in 0..N : sums[i] = 0}
<1>2. N \in Nat /\ 0 \in T
  BY <1>1, ListType DEF ShareSums
<1>3. ASSUME NEW i \in 0..N, i \in T, i < N
      PROVE  i + 1 \in T
  <2>1. i + 1 \in 1..N /\ i + 1 \in 0..N /\ (i + 1) - 1 = i
    BY <1>2, <1>3
  <2>2. sums[i + 1] = sums[i] + 0
    BY <1>1, <2>1 DEF ShareSums, Share
  <2>. QED  BY <1>3, <2>1, <2>2
<1>. HIDE DEF T
<1>4. N \in T
  BY <1>2, <1>3, BoundedInduct
<1>. QED  BY <1>1, <1>4 DEF T

(* One server less.                                                        *)
LEMMA SumWithout ==
  ASSUME NEW S, NEW s \in Server, s \in S
  PROVE  SumOfShares(S \ {s}) = SumOfShares(S) - Priv[s]
<1>. DEFINE rest == S \ {s}
            p == PositionOf(List, s)
<1>1. PICK sums : ShareSums(sums, S) /\ SumOfShares(S) = sums[N]
  BY SharesAdded
<1>2. PICK less : ShareSums(less, rest) /\ SumOfShares(rest) = less[N]
  BY SharesAdded
<1>3. /\ N \in Nat /\ p \in 1..N /\ List[p] = s /\ Priv[s] \in Int
      /\ \A i \in 1..N : List[i] = s => i = p
  BY ListType, Position, ShareType
<1>. HIDE DEF p
<1>. DEFINE T == {i \in 0..N : sums[i] = less[i] + (IF i < p THEN 0 ELSE Priv[s])}
<1>4. 0 \in T
  BY <1>1, <1>2, <1>3 DEF ShareSums
<1>5. ASSUME NEW i \in 0..N, i \in T, i < N
      PROVE  i + 1 \in T
  <2>1. i + 1 \in 1..N /\ i + 1 \in 0..N /\ (i + 1) - 1 = i /\ List[i + 1] \in Server
    BY <1>3, <1>5, ListType
  <2>2. /\ sums[i + 1] = sums[i] + Share(S, i + 1)
        /\ less[i + 1] = less[i] + Share(rest, i + 1)
        /\ sums[i] \in Int /\ less[i] \in Int
    BY <1>1, <1>2, <2>1 DEF ShareSums
  <2>3. Share(S, i + 1) \in Int /\ Share(rest, i + 1) \in Int
    BY <2>1, ShareType DEF Share
  <2>4. CASE i + 1 = p
    <3>1. Share(S, i + 1) = Priv[s] /\ Share(rest, i + 1) = 0
      BY <1>3, <2>4 DEF Share
    <3>2. i < p /\ ~ (i + 1 < p)
      BY <2>4
    <3>3. sums[i] = less[i]
      BY <1>5, <2>2, <3>2
    <3>. QED  BY <1>3, <2>1, <2>2, <3>1, <3>2, <3>3
  <2>5. CASE i + 1 # p
    <3>1. List[i + 1] # s
      BY <1>3, <2>1, <2>5
    <3>2. Share(S, i + 1) = Share(rest, i + 1)
      BY <3>1 DEF Share
    <3>3. i < p <=> i + 1 < p
      BY <1>3, <2>5
    <3>. QED  BY <1>3, <1>5, <2>1, <2>2, <2>3, <3>2, <3>3
  <2>. QED  BY <2>4, <2>5
<1>. HIDE DEF T
<1>6. N \in T
  BY <1>3, <1>4, <1>5, BoundedInduct
<1>7. sums[N] = less[N] + Priv[s]
  BY <1>3, <1>6 DEF T
<1>8. sums[N] \in Int /\ less[N] \in Int
  BY <1>1, <1>2, SumType
<1>. QED  BY <1>1, <1>2, <1>3, <1>7, <1>8

(* The servers that have not worked on matrix d, and their common key.     *)
Remaining(d) == {t \in Server : Due(t) >= d}
KeyFrom(d) == SumOfShares(Remaining(d))

LEMMA KeysOfLayers ==
  /\ \A d : KeyFrom(d) \in Int
  /\ KeyFrom(1) = SumOfShares(Server) /\ KeyFrom(N + 1) = 0
  /\ \A s \in Server : KeyFrom(Due(s)) - Priv[s] = KeyFrom(Due(s) + 1)
<1>1. \A d : KeyFrom(d) \in Int
  BY SumType DEF KeyFrom
<1>2. KeyFrom(1) = SumOfShares(Server)
  <2>1. Remaining(1) = Server
    BY DueType DEF Remaining
  <2>. QED  BY <2>1 DEF KeyFrom
<1>3. KeyFrom(N + 1) = 0
  <2>1. Remaining(N + 1) = {}
    BY DueType DEF Remaining
  <2>. QED  BY <2>1, SumOfNone DEF KeyFrom
<1>4. ASSUME NEW s \in Server
      PROVE  KeyFrom(Due(s)) - Priv[s] = KeyFrom(Due(s) + 1)
  <2>1. Remaining(Due(s) + 1) = Remaining(Due(s)) \ {s} /\ s \in Remaining(Due(s))
    <3>1. \A t \in Server : Due(t) \in 1..N /\ (Due(t) = Due(s) => t = s)
      BY DueType
    <3>2. N \in Nat /\ Due(s) \in 1..N
      BY DueType
    <3>3. \A t \in Server : Due(t) >= Due(s) + 1 <=> Due(t) >= Due(s) /\ t # s
      BY <3>1, <3>2
    <3>4. Due(s) >= Due(s)
      BY <3>2
    <3>. QED  BY <3>3, <3>4 DEF Remaining
  <2>. QED  BY <2>1, SumWithout DEF KeyFrom
<1>. QED  BY <1>1, <1>2, <1>3, <1>4

-----------------------------------------------------------------------------
(* The matrix of the round: what is left of the encryption after some      *)
(* servers have worked on it is a multiple of the plaintext plus the same  *)
(* number for all elements.                                                *)
Rows == Len(TargetData)
Columns == Len(TargetData[1])
Rectangle == [1..Rows -> [1..Columns -> Ciphertext]]

(* Assumption: the rows of the root's matrix are of one length.            *)
UniformTarget == \A i \in DOMAIN TargetData : Len(TargetData[i]) = Columns

Scaled(m, k, pi, p, a) ==
  \A i \in 1..Rows : \A j \in 1..Columns :
    m[i][j].C - k * m[i][j].K = p * DecryptElement(TargetData[pi[i]][j]) + a

Kept(m, k) ==
  UniformTarget =>
    /\ m \in Rectangle
    /\ \E pi \in Permutation(Rows), p \in Int \ {0}, a \in Int : Scaled(m, k, pi, p, a)

(* What a server has received.                                             *)
HasReceived(s, m) ==
  /\ previousNode[s] = <<[Data |-> ToBytes(m), ShuffKey |-> KeyFrom(Due(s))]>>
  /\ lengthNode[s] = <<LengthsOf(m)>>
  /\ Kept(m, KeyFrom(Due(s)))

RoundTypes ==
  /\ started \in {"no", "done", "failed"}
  /\ at \in [Server -> {"length", "data", "done", "failed"}]
  /\ DOMAIN lengthNode = Server /\ DOMAIN previousNode = Server

RoundSenderFailed(h) ==
  IF h = 0 THEN started = "failed"
  ELSE \A s \in Server \ {TheRoot} : Due(s) = h => at[s] = "failed"

(* As Hops, for this protocol.                                             *)
RoundHops(h) ==
  /\ started = "done" <=> h # 0
  /\ \A s \in Server :
       /\ previousNode[s] # <<>> <=> Due(s) <= h
       /\ Due(s) <= h => lengthNode[s] # <<>>
       /\ Due(s) > h /\ lengthNode[s] # <<>> => Due(s) = h + 1 /\ RoundSenderFailed(h)
       /\ at[s] \in {"data", "done"} => lengthNode[s] # <<>>
       /\ s # TheRoot => (at[s] = "done" <=> Due(s) < h)
  /\ at[TheRoot] = "done" => h = N

RoundMatrices == \A s \in Server : previousNode[s] # <<>> => \E m : HasReceived(s, m)

RoundTags == \A tags \in tagged : \E m : Kept(m, 0) /\ tags = TagsOf(m)

RoundHopInv == \E h \in 0..N : RoundHops(h)

RoundInv == RoundTypes /\ RoundHopInv /\ RoundMatrices /\ RoundTags

-----------------------------------------------------------------------------
LEMMA TargetType ==
  /\ Rows \in Nat /\ Rows > 0 /\ TargetData \in Seq(Seq(Ciphertext))
  /\ DOMAIN TargetData = 1..Rows /\ Columns \in Nat
  /\ \A i \in 1..Rows : TargetData[i] \in Seq(Ciphertext)
<1>1. TargetData \in Seq(Seq(Ciphertext)) /\ TargetData # <<>>
  BY TargetAssumption
<1>2. Len(TargetData) \in Nat /\ Len(TargetData) # 0 /\ DOMAIN TargetData = 1..Len(TargetData)
  BY <1>1, EmptySeq, LenProperties
<1>3. \A i \in 1..Rows : TargetData[i] \in Seq(Ciphertext)
  BY <1>1, <1>2, ElementOfSeq DEF Rows
<1>4. Columns \in Nat
  BY <1>2, <1>3, LenProperties DEF Rows, Columns
<1>. QED  BY <1>1, <1>2, <1>3, <1>4 DEF Rows

LEMMA RectangleShape ==
  ASSUME NEW m \in Rectangle
  PROVE  /\ DOMAIN m = 1..Rows /\ Len(m) = Rows /\ NQ(m) = Columns
         /\ \A i \in 1..Rows : DOMAIN m[i] = 1..Columns
         /\ FromBytes(ToBytes(m), LengthsOf(m)) = m
<1>1. Rows \in Nat /\ Rows > 0 /\ Columns \in Nat
  BY TargetType
<1>2. ASSUME NEW row \in [1..Columns -> Ciphertext]
      PROVE  row \in Seq(Ciphertext) /\ Len(row) = Columns
  BY <1>1, <1>2, IsASeq, LenProperties
<1>3. \A i \in 1..Rows : m[i] \in [1..Columns -> Ciphertext]
  BY DEF Rectangle
<1>4. \A i \in 1..Rows : m[i] \in Seq(Ciphertext) /\ Len(m[i]) = Columns
  BY <1>2, <1>3
<1>5. m \in [1..Rows -> Seq(Ciphertext)]
  BY <1>4 DEF Rectangle
<1>6. m \in Seq(Seq(Ciphertext)) /\ Len(m) = Rows
  BY <1>1, <1>5, IsASeq, LenProperties
<1>7. NQ(m) = Columns
  BY <1>1, <1>4 DEF NQ
<1>8. FromBytes(ToBytes(m), LengthsOf(m)) = m
  BY <1>1, <1>6, DecodeEncode
<1>. QED  BY <1>3, <1>5, <1>6, <1>7, <1>8

LEMMA TargetKept == Kept(TargetData, KeyFrom(1))
<1>. SUFFICES ASSUME UniformTarget
              PROVE  /\ TargetData \in Rectangle
                     /\ \E pi \in Permutation(Rows), p \in Int \ {0}, a \in Int :
                          Scaled(TargetData, KeyFrom(1), pi, p, a)
  BY DEF Kept
<1>. DEFINE k == KeyFrom(1)
<1>1. k \in Int /\ k = SumOfShares(Server)
  BY KeysOfLayers
<1>2. \A i \in 1..Rows : TargetData[i] \in [1..Columns -> Ciphertext]
  <2>1. ASSUME NEW i \in 1..Rows
        PROVE  TargetData[i] \in [1..Columns -> Ciphertext]
    <3>1. TargetData[i] \in Seq(Ciphertext) /\ Len(TargetData[i]) = Columns
      BY TargetType DEF UniformTarget
    <3>. QED  BY <3>1, LenProperties, ElementOfSeq
  <2>. QED  BY <2>1
<1>3. TargetData \in Rectangle
  <2>1. TargetData = [i \in 1..Rows |-> TargetData[i]]
    BY TargetType
  <2>. QED  BY <1>2, <2>1 DEF Rectangle
<1>. DEFINE pi == [i \in 1..Rows |-> i]
<1>4. pi \in Permutation(Rows)
  BY DEF Permutation
<1>5. ASSUME NEW i \in 1..Rows, NEW j \in 1..Columns
      PROVE  TargetData[i][j].C - k * TargetData[i][j].K =
               1 * DecryptElement(TargetData[pi[i]][j]) + 0
  <2>. DEFINE ct == TargetData[i][j]
  <2>1. ct \in Ciphertext /\ pi[i] = i
    BY <1>2
  <2>2. ct.C - k * ct.K \in Int
    BY <1>1, <2>1 DEF Ciphertext
  <2>3. DecryptElement(ct) = ct.C - k * ct.K
    BY <1>1 DEF DecryptElement
  <2>. HIDE DEF ct, k
  <2>4. \A x \in Int : x = 1 * x + 0
    OBVIOUS
  <2>5. ct.C - k * ct.K = 1 * DecryptElement(ct) + 0
    BY <2>2, <2>3, <2>4
  <2>. QED  BY <2>1, <2>5 DEF ct
<1>. HIDE DEF k, pi
<1>6. Scaled(TargetData, k, pi, 1, 0)
  BY <1>5 DEF Scaled
<1>. QED  BY <1>3, <1>4, <1>6 DEF k

(* The work of one server on one element.                                  *)
LEMMA OneElement ==
  ASSUME NEW s \in Server, NEW ct \in Ciphertext, NEW b \in Int, NEW k \in Int,
         NEW p \in Int, NEW a \in Int, NEW d \in Int, ct.C - k * ct.K = p * d + a
  PROVE  LET out == DeterministicTag(AddContribution(Rerandomize(ct, b, k), s), s)
         IN  /\ out \in Ciphertext
             /\ out.C - (k - Priv[s]) * out.K = (Contrib[s] * p) * d + Contrib[s] * (a + Contrib[s])
<1>. DEFINE out == DeterministicTag(AddContribution(Rerandomize(ct, b, k), s), s)
<1>1. Priv[s] \in Int /\ Contrib[s] \in Int /\ ct.K \in Int /\ ct.C \in Int
  BY TargetAssumption DEF Ciphertext
<1>2. /\ out.K = Contrib[s] * (ct.K + b)
      /\ out.C = Contrib[s] * (((ct.C + b * k) + Contrib[s]) - Priv[s] * (ct.K + b))
      /\ out = [K |-> out.K, C |-> out.C]
  BY DEF DeterministicTag, AddContribution, Rerandomize
<1>3. ASSUME NEW x \in Int, NEW y \in Int, NEW c \in Int, NEW v \in Int,
             y - k * x = p * d + a
      PROVE  /\ c * (x + b) \in Int
             /\ c * (((y + b * k) + c) - v * (x + b)) \in Int
             /\ c * (((y + b * k) + c) - v * (x + b)) - (k - v) * (c * (x + b)) =
                  (c * p) * d + c * (a + c)
  <2>1. y = k * x + (p * d + a)
    <3>. DEFINE kx == k * x
                pd == p * d + a
    <3>1. kx \in Int /\ pd \in Int /\ y - kx = pd
      BY <1>3
    <3>. HIDE DEF kx, pd
    <3>2. y = kx + pd
      BY <3>1
    <3>. QED  BY <3>2 DEF kx, pd
  <2>2. c * ((((k * x + (p * d + a)) + b * k) + c) - v * (x + b)) - (k - v) * (c * (x + b)) =
          (c * p) * d + c * (a + c)
    OBVIOUS
  <2>. QED  BY <2>1, <2>2
<1>. HIDE DEF out
<1>4. out.K \in Int /\ out.C \in Int
  BY <1>1, <1>2, <1>3
<1>5. out \in Ciphertext
  BY <1>2, <1>4, Zenon DEF Ciphertext
<1>6. out.C - (k - Priv[s]) * out.K = (Contrib[s] * p) * d + Contrib[s] * (a + Contrib[s])
  BY <1>1, <1>2, <1>3
<1>. QED  BY <1>5, <1>6 DEF out

LEMMA StepKeeps ==
  ASSUME NEW s \in Server, NEW m, NEW k \in Int, Kept(m, k),
         NEW pi \in Permutation(Len(m)), NEW b \in Blinding(m)
  PROVE  Kept(Processed(ShuffleWith(m, pi, b, k), s), k - Priv[s])
<1>. DEFINE mixed == ShuffleWith(m, pi, b, k)
            out == Processed(mixed, s)
            c == Contrib[s]
            after == k - Priv[s]
<1>. SUFFICES ASSUME UniformTarget
              PROVE  /\ out \in Rectangle
                     /\ \E tau \in Permutation(Rows), p \in Int \ {0}, a \in Int :
                          Scaled(out, after, tau, p, a)
  BY DEF Kept
<1>1. m \in Rectangle
  BY DEF Kept
<1>2. PICK rho \in Permutation(Rows), p \in Int \ {0}, a \in Int : Scaled(m, k, rho, p, a)
  BY DEF Kept
<1>3. DOMAIN m = 1..Rows /\ Len(m) = Rows /\ NQ(m) = Columns
  BY <1>1, RectangleShape
<1>4. /\ pi \in Permutation(Rows) /\ b \in [1..Rows -> [1..Columns -> Int]]
      /\ pi \in [1..Rows -> 1..Rows] /\ rho \in [1..Rows -> 1..Rows]
  <2>1. pi \in Permutation(Rows) /\ b \in [1..Rows -> [1..Columns -> Int]]
    <3>1. b \in [1..Rows -> [1..Columns -> Beta]]
      BY <1>3 DEF Blinding
    <3>2. \A i \in 1..Rows : b[i] \in [1..Columns -> Int]
      BY <3>1, BetaAssumption
    <3>. QED  BY <1>3, <3>1, <3>2
  <2>. QED  BY <2>1 DEF Permutation
<1>5. mixed = [i \in 1..Rows |->
                [j \in 1..Columns |-> Rerandomize(m[pi[i]][j], b[pi[i]][j], k)]]
  BY <1>3 DEF ShuffleWith
<1>. HIDE DEF mixed
<1>6. out = [i \in 1..Rows |->
              [j \in 1..Columns |-> DeterministicTag(AddContribution(mixed[i][j], s), s)]]
  <2>1. DOMAIN mixed = 1..Rows /\ \A i \in 1..Rows : DOMAIN mixed[i] = 1..Columns
    BY <1>5
  <2>. QED  BY <2>1 DEF Processed
<1>. HIDE DEF out
<1>. DEFINE tau == [i \in 1..Rows |-> rho[pi[i]]]
            Plain(i, j) == DecryptElement(TargetData[i][j])
<1>7. tau \in Permutation(Rows)
  BY <1>4, Composed
<1>8. c \in Int \ {0} /\ Priv[s] \in Int
  BY TargetAssumption
<1>9. \A i \in 1..Rows : \A j \in 1..Columns : Plain(i, j) \in Int
  <2>1. ASSUME NEW i \in 1..Rows, NEW j \in 1..Columns
        PROVE  Plain(i, j) \in Int
    <3>1. TargetData[i] \in Seq(Ciphertext) /\ Len(TargetData[i]) = Columns
      BY TargetType DEF UniformTarget
    <3>2. TargetData[i][j] \in Ciphertext
      BY <3>1, ElementOfSeq
    <3>3. TargetData[i][j].K \in Int /\ TargetData[i][j].C \in Int /\ SumOfShares(Server) \in Int
      BY <3>2, SumType DEF Ciphertext
    <3>. QED  BY <3>3 DEF DecryptElement
  <2>. QED  BY <2>1
<1>10. ASSUME NEW i \in 1..Rows, NEW j \in 1..Columns
       PROVE  /\ out[i][j] \in Ciphertext
              /\ out[i][j].C - after * out[i][j].K = (c * p) * Plain(tau[i], j) + c * (a + c)
  <2>. DEFINE ct == m[pi[i]][j]
              r == b[pi[i]][j]
              d == Plain(rho[pi[i]], j)
  <2>1. pi[i] \in 1..Rows /\ rho[pi[i]] \in 1..Rows /\ tau[i] = rho[pi[i]]
    BY <1>4
  <2>2. ct \in Ciphertext /\ r \in Int /\ d \in Int
    BY <1>1, <1>4, <1>9, <2>1 DEF Rectangle
  <2>3. ct.C - k * ct.K = p * d + a
    BY <1>2, <2>1 DEF Scaled
  <2>4. out[i][j] = DeterministicTag(AddContribution(Rerandomize(ct, r, k), s), s)
    BY <1>5, <1>6
  <2>. HIDE DEF ct, r, d
  <2>5. /\ out[i][j] \in Ciphertext
        /\ out[i][j].C - (k - Priv[s]) * out[i][j].K =
             (Contrib[s] * p) * d + Contrib[s] * (a + Contrib[s])
    BY <2>2, <2>3, <2>4, OneElement
  <2>. QED  BY <2>1, <2>5 DEF d
<1>11. out \in Rectangle
  <2>1. \A i \in 1..Rows : out[i] \in [1..Columns -> Ciphertext]
    BY <1>6, <1>10
  <2>. QED  BY <1>6, <2>1 DEF Rectangle
<1>12. c * p \in Int \ {0} /\ c * (a + c) \in Int
  BY <1>8
<1>13. Scaled(out, after, tau, c * p, c * (a + c))
  <2>. HIDE DEF tau, c, after
  <2>. QED  BY <1>10 DEF Scaled
<1>. QED  BY <1>7, <1>11, <1>12, <1>13

-----------------------------------------------------------------------------
(* The course of the round.                                                *)
LEMMA RoundStarts == RoundInit => RoundInv
<1>. SUFFICES ASSUME RoundInit  PROVE RoundInv
  OBVIOUS
<1>1. RoundTypes /\ RoundMatrices /\ RoundTags
  BY DEF RoundInit, RoundTypes, RoundMatrices, RoundTags
<1>2. N \in Nat \ {0} /\ 0 \in 0..N /\ TheRoot \in Server
  BY DueType
<1>3. RoundHops(0)
  BY <1>2, DueType DEF RoundInit, RoundHops
<1>. QED  BY <1>1, <1>2, <1>3 DEF RoundInv, RoundHopInv

(* Whoever may send the next matrix.                                       *)
RoundSender(s, h) ==
  \/ h = 0 /\ s = TheRoot /\ started = "no"
  \/ h # 0 /\ s # TheRoot /\ s \in Server /\ Due(s) = h /\ at[s] = "data" /\ lengthNode[s] # <<>>

LEMMA RoundNextIsFree ==
  ASSUME RoundTypes, NEW h \in 0..N, RoundHops(h), NEW s \in Server, RoundSender(s, h)
  PROVE  LET t == NextInCircuit(List, s)
         IN  /\ t \in Server /\ Due(t) = h + 1 /\ h < N
             /\ lengthNode[t] = <<>> /\ previousNode[t] = <<>>
<1>. DEFINE t == NextInCircuit(List, s)
<1>1. t \in Server /\ Due(t) = h + 1 /\ h < N
  <2>1. CASE h = 0 /\ s = TheRoot
    BY <2>1, NextDue, DueType
  <2>2. CASE s # TheRoot /\ Due(s) = h
    BY <2>2, NextDue, DueType
  <2>. QED  BY <2>1, <2>2 DEF RoundSender
<1>2. previousNode[t] = <<>>
  BY <1>1 DEF RoundHops
<1>3. lengthNode[t] = <<>>
  <2>1. SUFFICES ASSUME lengthNode[t] # <<>>
                 PROVE  FALSE
    OBVIOUS
  <2>2. RoundSenderFailed(h)
    BY <1>1, <2>1 DEF RoundHops
  <2>. QED  BY <2>2 DEF RoundSenderFailed, RoundSender
<1>. QED  BY <1>1, <1>2, <1>3

LEMMA RoundSent ==
  ASSUME RoundTypes, NEW h \in 0..N, RoundHops(h), NEW s \in Server, RoundSender(s, h),
         RoundMatrices, NEW m, Kept(m, KeyFrom(h + 1)), SendOn(s, m, KeyFrom(h + 1)),
         \/ h = 0 /\ started' = "done" /\ at' = at
         \/ h # 0 /\ started' = started /\ at' = [at EXCEPT ![s] = "done"]
  PROVE  RoundTypes' /\ RoundHopInv' /\ RoundMatrices'
<1>. DEFINE t == NextInCircuit(List, s)
<1>1. /\ t \in Server /\ Due(t) = h + 1 /\ h < N
      /\ lengthNode[t] = <<>> /\ previousNode[t] = <<>>
  BY RoundNextIsFree
<1>. DEFINE sent == [Data |-> ToBytes(m), ShuffKey |-> KeyFrom(h + 1)]
<1>2. /\ DOMAIN lengthNode' = Server /\ DOMAIN previousNode' = Server
      /\ lengthNode'[t] = <<LengthsOf(m)>> /\ previousNode'[t] = <<sent>>
      /\ \A u \in Server \ {t} : lengthNode'[u] = lengthNode[u] /\ previousNode'[u] = previousNode[u]
  BY <1>1, AppendToEmpty DEF SendOn, RoundTypes
<1>3. RoundTypes'
  BY <1>2 DEF RoundTypes
<1>4. /\ h + 1 \in 0..N /\ h + 1 # 0 /\ N \in Nat
      /\ \A u \in Server : Due(u) \in 1..N
      /\ \A u \in Server \ {t} : Due(u) # h + 1
  BY <1>1, DueType
<1>5. started' = "done"
  BY DEF RoundHops
<1>6. lengthNode'[t] # <<>> /\ previousNode'[t] # <<>>
  BY <1>2
<1>7. ASSUME NEW u \in Server
      PROVE  /\ previousNode'[u] # <<>> <=> Due(u) <= h + 1
             /\ Due(u) <= h + 1 => lengthNode'[u] # <<>>
             /\ Due(u) > h + 1 => lengthNode'[u] = <<>>
             /\ at'[u] \in {"data", "done"} => lengthNode'[u] # <<>>
             /\ u # TheRoot => (at'[u] = "done" <=> Due(u) < h + 1)
  <2>1. CASE u = t
    <3>1. u # TheRoot => at[u] # "done"
      BY <1>1, <2>1 DEF RoundHops
    <3>2. h # 0 => u # s
      BY <1>1, <2>1 DEF RoundSender
    <3>3. u # TheRoot => at'[u] # "done"
      BY <3>1, <3>2 DEF RoundTypes
    <3>. QED  BY <1>1, <1>4, <1>6, <2>1, <3>3
  <2>2. CASE u # t
    <3>1. lengthNode'[u] = lengthNode[u] /\ previousNode'[u] = previousNode[u]
      BY <1>2, <2>2
    <3>2. Due(u) \in 1..N /\ Due(u) # h + 1
      BY <1>4, <2>2
    <3>3. Due(u) = h /\ u # TheRoot => u = s
      BY <3>2, DueType DEF RoundSender
    <3>4. u = s /\ h # 0 => at'[u] = "done" /\ lengthNode[u] # <<>> /\ Due(u) = h
      BY DEF RoundSender, RoundTypes
    <3>5. u # s \/ h = 0 => at'[u] = at[u]
      BY DEF RoundTypes
    <3>. QED  BY <3>1, <3>2, <3>3, <3>4, <3>5 DEF RoundHops
  <2>. QED  BY <2>1, <2>2
<1>8. at'[TheRoot] # "done"
  <2>1. at[TheRoot] # "done"
    BY <1>1 DEF RoundHops
  <2>2. at'[TheRoot] = at[TheRoot]
    BY DueType DEF RoundSender, RoundTypes
  <2>. QED  BY <2>1, <2>2
<1>9. RoundHops(h + 1)'
  BY <1>4, <1>5, <1>7, <1>8 DEF RoundHops
<1>10. ASSUME NEW u \in Server, previousNode'[u] # <<>>
       PROVE  \E n : HasReceived(u, n)'
  <2>1. CASE u = t
    BY <1>1, <1>2, <2>1 DEF HasReceived
  <2>2. CASE u # t
    <3>1. previousNode'[u] = previousNode[u] /\ lengthNode'[u] = lengthNode[u]
      BY <1>2, <2>2
    <3>2. PICK n : HasReceived(u, n)
      BY <1>10, <3>1 DEF RoundMatrices
    <3>. QED  BY <3>1, <3>2 DEF HasReceived
  <2>. QED  BY <2>1, <2>2
<1>. QED  BY <1>3, <1>4, <1>9, <1>10 DEF RoundHopInv, RoundMatrices

LEMMA RoundLost ==
  ASSUME RoundTypes, NEW h \in 0..N, RoundHops(h), NEW s \in Server, RoundSender(s, h),
         RoundMatrices, NEW m, SendOnFails(s, m),
         \/ h = 0 /\ started' = "failed" /\ at' = at
         \/ h # 0 /\ started' = started /\ at' = [at EXCEPT ![s] = "failed"]
  PROVE  RoundTypes' /\ RoundHopInv' /\ RoundMatrices'
<1>. DEFINE t == NextInCircuit(List, s)
<1>1. /\ t \in Server /\ Due(t) = h + 1 /\ h < N
      /\ lengthNode[t] = <<>> /\ previousNode[t] = <<>>
  BY RoundNextIsFree
<1>2. /\ DOMAIN lengthNode' = Server /\ previousNode' = previousNode
      /\ \A u \in Server \ {t} : lengthNode'[u] = lengthNode[u]
  BY <1>1 DEF SendOnFails, RoundTypes
<1>3. RoundTypes'
  BY <1>2 DEF RoundTypes
<1>4. N \in Nat /\ \A u \in Server : Due(u) \in 1..N /\ (u # t => Due(u) # h + 1)
  BY <1>1, DueType
<1>5. started' = "done" <=> h # 0
  BY DEF RoundHops
<1>6. RoundSenderFailed(h)'
  BY DueType DEF RoundSenderFailed, RoundSender, RoundTypes
<1>7. ASSUME NEW u \in Server
      PROVE  /\ at'[u] = "done" <=> at[u] = "done"
             /\ at'[u] = "data" => at[u] = "data"
  <2>1. h # 0 => at[s] # "done"
    BY DEF RoundSender
  <2>. QED  BY <2>1 DEF RoundTypes
<1>8. ASSUME NEW u \in Server
      PROVE  /\ previousNode'[u] # <<>> <=> Due(u) <= h
             /\ Due(u) <= h => lengthNode'[u] # <<>>
             /\ Due(u) > h /\ lengthNode'[u] # <<>> => Due(u) = h + 1
             /\ at'[u] \in {"data", "done"} => lengthNode'[u] # <<>>
             /\ u # TheRoot => (at'[u] = "done" <=> Due(u) < h)
  <2>1. CASE u = t
    BY <1>1, <1>2, <1>4, <1>7, <2>1 DEF RoundHops
  <2>2. CASE u # t
    BY <1>2, <1>7, <2>2 DEF RoundHops
  <2>. QED  BY <2>1, <2>2
<1>9. at'[TheRoot] # "done"
  BY <1>1, <1>7, DueType DEF RoundHops
<1>10. RoundHops(h)'
  BY <1>5, <1>6, <1>8, <1>9 DEF RoundHops
<1>11. ASSUME NEW u \in Server, previousNode'[u] # <<>>
       PROVE  \E n : HasReceived(u, n)'
  <2>1. u # t
    BY <1>1, <1>2, <1>11
  <2>2. PICK n : HasReceived(u, n)
    BY <1>2, <1>11 DEF RoundMatrices
  <2>3. lengthNode'[u] = lengthNode[u]
    BY <1>2, <2>1
  <2>. QED  BY <1>2, <2>2, <2>3 DEF HasReceived
<1>. QED  BY <1>3, <1>10, <1>11 DEF RoundHopInv, RoundMatrices

(* Steps that send nothing.                                                *)
LEMMA RoundKept ==
  ASSUME RoundTypes, NEW h \in 0..N, RoundHops(h), RoundMatrices,
         lengthNode' = lengthNode, previousNode' = previousNode, started' = started,
         \/ at' = at
         \/ \E s \in Server, next \in {"data", "done", "failed"} :
              /\ at' = [at EXCEPT ![s] = next]
              /\ at[s] \notin {"done", "failed"}
              /\ next \in {"data", "done"} => lengthNode[s] # <<>>
              /\ next = "done" => s = TheRoot /\ previousNode[s] # <<>>
  PROVE  RoundTypes' /\ RoundHopInv' /\ RoundMatrices'
<1>1. RoundMatrices'
  <2>1. \A u, n : HasReceived(u, n)' <=> HasReceived(u, n)
    BY DEF HasReceived
  <2>. QED  BY <2>1 DEF RoundMatrices
<1>2. CASE at' = at
  <2>1. RoundTypes'
    BY <1>2 DEF RoundTypes
  <2>2. RoundSenderFailed(h)' <=> RoundSenderFailed(h)
    BY <1>2 DEF RoundSenderFailed
  <2>3. RoundHops(h)'
    BY <1>2, <2>2 DEF RoundHops
  <2>. QED  BY <1>1, <2>1, <2>3 DEF RoundHopInv
<1>3. ASSUME NEW s \in Server, NEW next \in {"data", "done", "failed"},
             at' = [at EXCEPT ![s] = next], at[s] \notin {"done", "failed"},
             next \in {"data", "done"} => lengthNode[s] # <<>>,
             next = "done" => s = TheRoot /\ previousNode[s] # <<>>
      PROVE  RoundTypes' /\ RoundHopInv' /\ RoundMatrices'
  <2>1. RoundTypes'
    BY <1>3 DEF RoundTypes
  <2>2. at'[s] = next /\ \A u \in Server \ {s} : at'[u] = at[u]
    BY <1>3 DEF RoundTypes
  <2>3. RoundSenderFailed(h) => RoundSenderFailed(h)'
    BY <1>3, <2>2 DEF RoundSenderFailed
  <2>4. \A u \in Server :
          /\ at'[u] \in {"data", "done"} => lengthNode'[u] # <<>>
          /\ u # TheRoot => (at'[u] = "done" <=> Due(u) < h)
    BY <1>3, <2>2 DEF RoundHops
  <2>5. at'[TheRoot] = "done" => h = N
    <3>1. CASE s = TheRoot
      <4>1. next = "done" => Due(TheRoot) <= h
        BY <1>3, <3>1 DEF RoundHops
      <4>. QED  BY <2>2, <3>1, <4>1, DueType
    <3>2. CASE s # TheRoot
      BY <2>2, <3>2, DueType DEF RoundHops
    <3>. QED  BY <3>1, <3>2
  <2>6. RoundHops(h)'
    BY <1>3, <2>3, <2>4, <2>5 DEF RoundHops
  <2>. QED  BY <1>1, <2>1, <2>6 DEF RoundHopInv
<1>. QED  BY <1>2, <1>3

(* What a server finds when the matrix comes.                              *)
LEMMA RoundReceived ==
  ASSUME NEW s \in Server, NEW m, HasReceived(s, m), UniformTarget
  PROVE  ReceivedMatrix(s) = m
<1>1. m \in Rectangle
  BY DEF HasReceived, Kept
<1>2. Head(previousNode[s]).Data = ToBytes(m) /\ Head(lengthNode[s]) = LengthsOf(m)
  BY DEF HasReceived
<1>. QED  BY <1>1, <1>2, RectangleShape DEF ReceivedMatrix

LEMMA RoundSteps == RoundInv /\ [RoundNext]_roundVars => RoundInv'
<1>. SUFFICES ASSUME RoundInv, [RoundNext]_roundVars
              PROVE  RoundInv'
  OBVIOUS
<1>1. PICK h \in 0..N : RoundHops(h)
  BY DEF RoundInv, RoundHopInv
<1>2. RoundTypes /\ RoundMatrices /\ RoundTags
  BY DEF RoundInv
<1>3. tagged' = tagged => RoundTags'
  BY <1>2 DEF RoundTags
<1>4. CASE UNCHANGED roundVars
  BY <1>1, <1>2, <1>3, <1>4, RoundKept DEF roundVars, RoundInv
<1>5. CASE StartRound
  <2>1. /\ started = "no" /\ at' = at /\ tagged' = tagged /\ TheRoot \in Server
        /\ \/ SendOn(TheRoot, TargetData, KeyFrom(1)) /\ started' = "done"
           \/ SendOnFails(TheRoot, TargetData) /\ started' = "failed"
    BY <1>5, DueType, KeysOfLayers DEF StartRound, TheRoot
  <2>2. h = 0 /\ h + 1 = 1
    BY <1>1, <2>1 DEF RoundHops
  <2>3. RoundSender(TheRoot, h)
    BY <2>1, <2>2 DEF RoundSender
  <2>4. CASE SendOn(TheRoot, TargetData, KeyFrom(1)) /\ started' = "done"
    BY <1>1, <1>2, <1>3, <2>1, <2>2, <2>3, <2>4, TargetKept, RoundSent DEF RoundInv
  <2>5. CASE SendOnFails(TheRoot, TargetData) /\ started' = "failed"
    BY <1>1, <1>2, <1>3, <2>1, <2>2, <2>3, <2>5, RoundLost DEF RoundInv
  <2>. QED  BY <2>1, <2>4, <2>5
<1>6. ASSUME NEW s \in Server, TakeLength(s)
      PROVE  RoundInv'
  <2>1. /\ lengthNode' = lengthNode /\ previousNode' = previousNode /\ started' = started
        /\ tagged' = tagged /\ at' = [at EXCEPT ![s] = "data"]
        /\ at[s] \notin {"done", "failed"} /\ lengthNode[s] # <<>>
    BY <1>6 DEF TakeLength
  <2>. QED  BY <1>1, <1>2, <1>3, <2>1, RoundKept DEF RoundInv
<1>7. ASSUME NEW s \in Server, StopWaiting(s)
      PROVE  RoundInv'
  <2>1. /\ lengthNode' = lengthNode /\ previousNode' = previousNode /\ started' = started
        /\ tagged' = tagged /\ at' = [at EXCEPT ![s] = "failed"]
        /\ at[s] \notin {"done", "failed"}
    BY <1>7 DEF StopWaiting
  <2>. QED  BY <1>1, <1>2, <1>3, <2>1, RoundKept DEF RoundInv
<1>8. ASSUME NEW s \in Server, ShuffleAndTag(s)
      PROVE  RoundInv'
  <2>. DEFINE got == ReceivedMatrix(s)
              k == KeyFrom(Due(s))
              Out(pi, b) == Processed(ShuffleWith(got, pi, b, k), s)
  <2>1. at[s] = "data" /\ previousNode[s] # <<>> /\ started' = started
    BY <1>8 DEF ShuffleAndTag
  <2>2. PICK m : HasReceived(s, m)
    BY <1>2, <2>1 DEF RoundMatrices
  <2>3. ShuffKey(s) = k /\ k \in Int
    BY <2>2, KeysOfLayers DEF HasReceived, ShuffKey
  <2>4. Due(s) \in 1..N /\ Due(s) <= h /\ lengthNode[s] # <<>> /\ N \in Nat
    BY <1>1, <2>1, DueType DEF RoundHops
  <2>5. KeyAfter(k, s) = KeyFrom(Due(s) + 1)
    BY KeysOfLayers DEF KeyAfter
  <2>6. PICK pi \in Permutation(Len(got)), b \in Blinding(got) :
          IF s = TheRoot
          THEN /\ tagged' = tagged \cup {TagsOf(Out(pi, b))}
               /\ at' = [at EXCEPT ![s] = "done"]
               /\ UNCHANGED <<lengthNode, previousNode>>
          ELSE /\ tagged' = tagged
               /\ \/ /\ SendOn(s, Out(pi, b), KeyFrom(Due(s) + 1))
                     /\ at' = [at EXCEPT ![s] = "done"]
                  \/ /\ SendOnFails(s, Out(pi, b))
                     /\ at' = [at EXCEPT ![s] = "failed"]
    BY <1>8, <2>3, <2>5 DEF ShuffleAndTag, TheRoot
  <2>7. Kept(Out(pi, b), KeyFrom(Due(s) + 1))
    <3>1. SUFFICES ASSUME UniformTarget
                   PROVE  Kept(Out(pi, b), KeyFrom(Due(s) + 1))
      BY DEF Kept
    <3>2. got = m
      BY <2>2, <3>1, RoundReceived
    <3>3. Kept(got, k)
      BY <2>2, <3>2 DEF HasReceived
    <3>. HIDE DEF got, k
    <3>4. Kept(Out(pi, b), k - Priv[s])
      BY <2>3, <3>3, StepKeeps
    <3>. QED  BY <2>5, <3>4 DEF KeyAfter
  <2>. DEFINE out == Out(pi, b)
  <2>. HIDE DEF got, k, out
  <2>8. CASE s = TheRoot
    <3>1. RoundTypes' /\ RoundHopInv' /\ RoundMatrices'
      BY <1>1, <1>2, <2>1, <2>4, <2>6, <2>8, RoundKept
    <3>2. Kept(out, 0)
      BY <2>7, <2>8, KeysOfLayers, DueType DEF out
    <3>3. RoundTags'
      <4>1. tagged' = tagged \cup {TagsOf(out)}
        BY <2>6, <2>8 DEF out
      <4>. QED  BY <1>2, <3>2, <4>1 DEF RoundTags
    <3>. QED  BY <3>1, <3>3 DEF RoundInv
  <2>9. CASE s # TheRoot
    <3>1. Due(s) = h /\ h # 0
      BY <1>1, <2>1, <2>4, <2>9 DEF RoundHops
    <3>2. RoundSender(s, h)
      BY <2>1, <2>4, <2>9, <3>1 DEF RoundSender
    <3>3. Kept(out, KeyFrom(h + 1))
      BY <2>7, <3>1 DEF out
    <3>4. CASE SendOn(s, out, KeyFrom(h + 1)) /\ at' = [at EXCEPT ![s] = "done"]
      BY <1>1, <1>2, <1>3, <2>1, <2>6, <2>9, <3>1, <3>2, <3>3, <3>4, RoundSent DEF RoundInv
    <3>5. CASE SendOnFails(s, out) /\ at' = [at EXCEPT ![s] = "failed"]
      BY <1>1, <1>2, <1>3, <2>1, <2>6, <2>9, <3>1, <3>2, <3>5, RoundLost DEF RoundInv
    <3>. QED  BY <2>6, <2>9, <3>1, <3>4, <3>5 DEF out
  <2>. QED  BY <2>8, <2>9
<1>. QED  BY <1>4, <1>5, <1>6, <1>7, <1>8 DEF RoundNext

(* For every roster and every matrix, whatever is lost or times out: the   *)
(* key that has come with a matrix is the sum of the shares of the servers *)
(* that have not worked on it, so that each server rerandomizes with the   *)
(* key that the elements are encrypted under.                              *)
THEOREM KeyTravelsWithLayers == RoundSpec => []KeyOfRemainingLayers
<1>1. RoundInv => KeyOfRemainingLayers
  <2>1. SUFFICES ASSUME RoundInv, NEW s \in Server, at[s] # "done", previousNode[s] # <<>>
                 PROVE  ShuffKey(s) = SumOfShares({t \in Server : at[t] # "done"})
    BY DEF KeyOfRemainingLayers
  <2>2. PICK h \in 0..N : RoundHops(h)
    BY <2>1 DEF RoundInv, RoundHopInv
  <2>3. PICK m : HasReceived(s, m)
    BY <2>1 DEF RoundInv, RoundMatrices
  <2>4. ShuffKey(s) = KeyFrom(Due(s))
    BY <2>3 DEF HasReceived, ShuffKey
  <2>5. Due(s) = h
    <3>1. Due(s) \in 1..N /\ Due(s) <= h /\ N \in Nat
      BY <2>1, <2>2, DueType DEF RoundHops
    <3>2. CASE s = TheRoot
      BY <3>1, <3>2, DueType
    <3>3. CASE s # TheRoot
      BY <2>1, <2>2, <3>1, <3>3 DEF RoundHops
    <3>. QED  BY <3>2, <3>3
  <2>6. ASSUME NEW t \in Server
        PROVE  at[t] # "done" <=> Due(t) >= h
    <3>1. Due(t) \in 1..N /\ N \in Nat /\ h \in 0..N
      BY DueType
    <3>2. CASE t = TheRoot
      <4>1. Due(t) = N
        BY <3>2, DueType
      <4>2. at[t] # "done"
        <5>1. CASE s = TheRoot
          BY <2>1, <3>2, <5>1
        <5>2. CASE s # TheRoot
          BY <2>2, <2>5, <3>2, <5>2, DueType DEF RoundHops
        <5>. QED  BY <5>1, <5>2
      <4>. QED  BY <3>1, <4>1, <4>2
    <3>3. CASE t # TheRoot
      BY <2>2, <3>1, <3>3 DEF RoundHops
    <3>. QED  BY <3>2, <3>3
  <2>7. {t \in Server : at[t] # "done"} = Remaining(h)
    BY <2>6 DEF Remaining
  <2>. QED  BY <2>4, <2>5, <2>7 DEF KeyFrom
<1>. QED  BY <1>1, RoundStarts, RoundSteps, PTL DEF RoundSpec

LEMMA TagsCompare ==
  ASSUME UniformTarget, NEW m, Kept(m, 0)
  PROVE  \E pi \in Permutation(Rows) :
           /\ Len(TagsOf(m)) = Rows
           /\ \A i, k \in DOMAIN TagsOf(m) :
                /\ Len(TagsOf(m)[i]) = Len(TargetData[pi[i]])
                /\ \A j \in DOMAIN TagsOf(m)[i], l \in DOMAIN TagsOf(m)[k] :
                     TagsOf(m)[i][j] = TagsOf(m)[k][l]
                       <=> DecryptElement(TargetData[pi[i]][j]) = DecryptElement(TargetData[pi[k]][l])
<1>. DEFINE tags == TagsOf(m)
<1>1. m \in Rectangle
  BY DEF Kept
<1>2. PICK pi \in Permutation(Rows), p \in Int \ {0}, a \in Int : Scaled(m, 0, pi, p, a)
  BY DEF Kept
<1>3. /\ Rows \in Nat /\ Columns \in Nat /\ DOMAIN m = 1..Rows
      /\ \A i \in 1..Rows : DOMAIN m[i] = 1..Columns
  BY <1>1, TargetType, RectangleShape
<1>4. tags = [i \in 1..Rows |-> [j \in 1..Columns |-> m[i][j].C]]
  BY <1>3 DEF TagsOf
<1>. HIDE DEF tags
<1>5. Len(tags) = Rows
  <2>1. tags = [i \in 1..Rows |-> tags[i]]
    BY <1>4
  <2>. QED  BY <1>3, <2>1, LenByDomain
<1>6. \A i \in 1..Rows : pi[i] \in 1..Rows
  BY DEF Permutation
<1>7. ASSUME NEW i \in 1..Rows
      PROVE  DOMAIN tags[i] = 1..Columns /\ Len(tags[i]) = Len(TargetData[pi[i]])
  <2>1. tags[i] = [j \in 1..Columns |-> m[i][j].C]
    BY <1>4
  <2>2. tags[i] = [j \in 1..Columns |-> tags[i][j]]
    BY <2>1
  <2>3. Len(tags[i]) = Columns
    BY <1>3, <2>2, LenByDomain
  <2>4. Len(TargetData[pi[i]]) = Columns
    BY <1>6, TargetType DEF UniformTarget
  <2>. QED  BY <2>1, <2>3, <2>4
<1>. DEFINE Plain(i, j) == DecryptElement(TargetData[pi[i]][j])
<1>8. ASSUME NEW i \in 1..Rows, NEW j \in 1..Columns
      PROVE  tags[i][j] = p * Plain(i, j) + a /\ Plain(i, j) \in Int
  <2>. DEFINE ct == m[i][j]
  <2>1. ct \in Ciphertext /\ tags[i][j] = ct.C
    BY <1>1, <1>4 DEF Rectangle
  <2>2. ct.C - 0 * ct.K = ct.C
    BY <2>1 DEF Ciphertext
  <2>3. ct.C - 0 * ct.K = p * Plain(i, j) + a
    BY <1>2 DEF Scaled
  <2>4. Plain(i, j) \in Int
    <3>1. TargetData[pi[i]] \in Seq(Ciphertext) /\ Len(TargetData[pi[i]]) = Columns
      BY <1>6, TargetType DEF UniformTarget
    <3>2. TargetData[pi[i]][j] \in Ciphertext
      BY <3>1, ElementOfSeq
    <3>. QED  BY <3>2, SumType DEF DecryptElement, Ciphertext
  <2>. QED  BY <2>1, <2>2, <2>3, <2>4
<1>9. ASSUME NEW x \in Int, NEW y \in Int
      PROVE  p * x + a = p * y + a <=> x = y
  <2>1. p * x + a = p * y + a => p * (x - y) = 0
    OBVIOUS
  <2>2. \A z \in Int : p * z = 0 => z = 0
    OBVIOUS
  <2>3. x - y \in Int /\ (x - y = 0 => x = y)
    OBVIOUS
  <2>. QED  BY <2>1, <2>2, <2>3
<1>10. ASSUME NEW i \in DOMAIN tags, NEW k \in DOMAIN tags
       PROVE  /\ Len(tags[i]) = Len(TargetData[pi[i]])
              /\ \A j \in DOMAIN tags[i], l \in DOMAIN tags[k] :
                   tags[i][j] = tags[k][l] <=> Plain(i, j) = Plain(k, l)
  <2>1. i \in 1..Rows /\ k \in 1..Rows
    BY <1>4
  <2>. HIDE DEF Plain
  <2>2. ASSUME NEW j \in DOMAIN tags[i], NEW l \in DOMAIN tags[k]
        PROVE  tags[i][j] = tags[k][l] <=> Plain(i, j) = Plain(k, l)
    <3>1. j \in 1..Columns /\ l \in 1..Columns
      BY <1>7, <2>1, <2>2
    <3>2. /\ tags[i][j] = p * Plain(i, j) + a /\ Plain(i, j) \in Int
          /\ tags[k][l] = p * Plain(k, l) + a /\ Plain(k, l) \in Int
      BY <1>8, <2>1, <3>1
    <3>3. p * Plain(i, j) + a = p * Plain(k, l) + a <=> Plain(i, j) = Plain(k, l)
      BY <1>9, <3>2
    <3>. QED  BY <3>2, <3>3
  <2>. QED  BY <1>7, <2>1, <2>2
<1>. QED  BY <1>5, <1>10 DEF tags

(* For every matrix with rows of one length, every roster and whatever     *)
(* permutations and factors the servers choose, the root's tags are equal  *)
(* exactly where the plaintexts are, row by row in some order.             *)
THEOREM RoundTagsMatch ==
  ASSUME UniformTarget
  PROVE  RoundSpec => []TagsMatchPlaintexts
<1>1. RoundInv => TagsMatchPlaintexts
  <2>1. SUFFICES ASSUME RoundInv, NEW tags \in tagged
                 PROVE  \E pi \in Permutation(Rows) :
                          /\ Len(tags) = Rows
                          /\ \A i, k \in DOMAIN tags :
                               /\ Len(tags[i]) = Len(TargetData[pi[i]])
                               /\ \A j \in DOMAIN tags[i], l \in DOMAIN tags[k] :
                                    tags[i][j] = tags[k][l]
                                      <=> DecryptElement(TargetData[pi[i]][j]) =
                                            DecryptElement(TargetData[pi[k]][l])
    BY DEF TagsMatchPlaintexts, Rows
  <2>2. PICK m : Kept(m, 0) /\ tags = TagsOf(m)
    BY <2>1 DEF RoundInv, RoundTags
  <2>. QED  BY <2>2, TagsCompare
<1>. QED  BY <1>1, RoundStarts, RoundSteps, PTL DEF RoundSpec

LEMMA RectangleTypes ==
  ASSUME NEW m \in Rectangle
  PROVE  /\ LengthsOf(m) \in Seq(Nat) /\ ToBytes(m) \in Seq(Ciphertext)
         /\ TagsOf(m) \in Seq(Seq(Int))
<1>1. Rows \in Nat /\ Rows > 0 /\ Columns \in Nat
  BY TargetType
<1>2. ASSUME NEW row \in [1..Columns -> Ciphertext]
      PROVE  row \in Seq(Ciphertext) /\ Len(row) = Columns
  BY <1>1, <1>2, IsASeq, LenProperties
<1>3. DOMAIN m = 1..Rows /\ \A i \in 1..Rows : m[i] \in [1..Columns -> Ciphertext]
  BY DEF Rectangle
<1>4. \A i \in 1..Rows : m[i] \in Seq(Ciphertext) /\ Len(m[i]) = Columns
  BY <1>2, <1>3
<1>5. LengthsOf(m) \in Seq(Nat)
  <2>1. LengthsOf(m) \in [1..Rows -> Nat]
    BY <1>1, <1>3, <1>4 DEF LengthsOf
  <2>. QED  BY <1>1, <2>1, IsASeq
<1>6. ToBytes(m) \in Seq(Ciphertext)
  <2>1. m \in [1..Rows -> Seq(Ciphertext)]
    BY <1>4 DEF Rectangle
  <2>2. m \in Seq(Seq(Ciphertext)) /\ Len(m) = Rows
    BY <1>1, <2>1, IsASeq, LenProperties
  <2>3. PICK parts \in [0..Len(m) -> Seq(Ciphertext)] : ToBytes(m) = parts[Len(m)]
    BY <1>1, <2>2, FlattenPrefixes
  <2>. QED  BY <1>1, <2>2, <2>3
<1>7. TagsOf(m) \in Seq(Seq(Int))
  <2>1. ASSUME NEW i \in 1..Rows
        PROVE  [j \in DOMAIN m[i] |-> m[i][j].C] \in Seq(Int)
    <3>1. [j \in DOMAIN m[i] |-> m[i][j].C] \in [1..Columns -> Int]
      BY <1>3 DEF Ciphertext
    <3>. QED  BY <1>1, <3>1, IsASeq
  <2>2. TagsOf(m) \in [1..Rows -> Seq(Int)]
    BY <1>3, <2>1 DEF TagsOf
  <2>. QED  BY <1>1, <2>2, IsASeq
<1>. QED  BY <1>5, <1>6, <1>7

LEMMA RoundTypesStep ==
  ASSUME UniformTarget, RoundInv, RoundTypeOK, [RoundNext]_roundVars
  PROVE  RoundTypeOK'
<1>1. ASSUME NEW s \in Server, NEW m \in Rectangle, NEW k \in Int, SendOn(s, m, k) \/ SendOnFails(s, m)
      PROVE  /\ lengthNode' \in [Server -> Seq(Seq(Nat))]
             /\ previousNode' \in [Server -> Seq(Message)]
  <2>. DEFINE t == NextInCircuit(List, s)
              sent == [Data |-> ToBytes(m), ShuffKey |-> k]
  <2>1. t \in Server /\ LengthsOf(m) \in Seq(Nat) /\ sent \in Message
    BY NextDue, RectangleTypes DEF Message
  <2>2. /\ lengthNode \in [Server -> Seq(Seq(Nat))] /\ previousNode \in [Server -> Seq(Message)]
    BY DEF RoundTypeOK
  <2>3. /\ Append(lengthNode[t], LengthsOf(m)) \in Seq(Seq(Nat))
        /\ Append(previousNode[t], sent) \in Seq(Message)
    BY <2>1, <2>2, AppendProperties
  <2>4. \/ lengthNode' = lengthNode
        \/ lengthNode' = [lengthNode EXCEPT ![t] = Append(lengthNode[t], LengthsOf(m))]
    BY <1>1 DEF SendOn, SendOnFails
  <2>5. \/ previousNode' = previousNode
        \/ previousNode' = [previousNode EXCEPT ![t] = Append(previousNode[t], sent)]
    BY <1>1 DEF SendOn, SendOnFails
  <2>. HIDE DEF t, sent
  <2>. QED  BY <2>2, <2>3, <2>4, <2>5
<1>2. CASE UNCHANGED roundVars
  BY <1>2 DEF roundVars, RoundTypeOK
<1>3. CASE StartRound
  <2>1. TargetData \in Rectangle /\ TheRoot \in Server /\ SumOfShares(Server) \in Int
    BY TargetKept, DueType, SumType DEF Kept
  <2>2. /\ SendOn(TheRoot, TargetData, SumOfShares(Server)) \/ SendOnFails(TheRoot, TargetData)
        /\ started' \in {"done", "failed"} /\ at' = at /\ tagged' = tagged
    BY <1>3 DEF StartRound, TheRoot
  <2>. QED  BY <1>1, <2>1, <2>2 DEF RoundTypeOK
<1>4. ASSUME NEW s \in Server, TakeLength(s) \/ StopWaiting(s)
      PROVE  RoundTypeOK'
  BY <1>4 DEF TakeLength, StopWaiting, RoundTypeOK
<1>5. ASSUME NEW s \in Server, ShuffleAndTag(s)
      PROVE  RoundTypeOK'
  <2>. DEFINE got == ReceivedMatrix(s)
              Out(pi, b) == Processed(ShuffleWith(got, pi, b, ShuffKey(s)), s)
  <2>1. previousNode[s] # <<>> /\ started' = started
    BY <1>5 DEF ShuffleAndTag
  <2>2. PICK m : HasReceived(s, m)
    BY <2>1 DEF RoundInv, RoundMatrices
  <2>3. ShuffKey(s) = KeyFrom(Due(s)) /\ ShuffKey(s) \in Int
    BY <2>2, KeysOfLayers DEF HasReceived, ShuffKey
  <2>4. Kept(got, ShuffKey(s))
    BY <2>2, <2>3, RoundReceived DEF HasReceived
  <2>5. PICK pi \in Permutation(Len(got)), b \in Blinding(got) :
          \/ /\ tagged' = tagged \cup {TagsOf(Out(pi, b))}
             /\ at' = [at EXCEPT ![s] = "done"]
             /\ UNCHANGED <<lengthNode, previousNode>>
          \/ /\ tagged' = tagged
             /\ \/ SendOn(s, Out(pi, b), KeyAfter(ShuffKey(s), s)) \/ SendOnFails(s, Out(pi, b))
             /\ \/ at' = [at EXCEPT ![s] = "done"]
                \/ at' = [at EXCEPT ![s] = "failed"]
    BY <1>5 DEF ShuffleAndTag
  <2>. DEFINE out == Out(pi, b)
  <2>6. out \in Rectangle
    <3>. HIDE DEF got
    <3>1. Kept(Out(pi, b), ShuffKey(s) - Priv[s])
      BY <2>3, <2>4, StepKeeps
    <3>. QED  BY <3>1 DEF Kept
  <2>7. KeyAfter(ShuffKey(s), s) \in Int
    BY <2>3, TargetAssumption DEF KeyAfter
  <2>8. TagsOf(out) \in Seq(Seq(Int))
    BY <2>6, RectangleTypes
  <2>9. /\ lengthNode' \in [Server -> Seq(Seq(Nat))]
        /\ previousNode' \in [Server -> Seq(Message)]
    <3>1. CASE UNCHANGED <<lengthNode, previousNode>>
      BY <3>1 DEF RoundTypeOK
    <3>2. CASE SendOn(s, out, KeyAfter(ShuffKey(s), s)) \/ SendOnFails(s, out)
      <4>. HIDE DEF out
      <4>. QED  BY <1>1, <2>6, <2>7, <3>2
    <3>. QED  BY <2>5, <3>1, <3>2
  <2>10. at' \in [Server -> {"length", "data", "done", "failed"}]
    BY <2>5 DEF RoundTypeOK
  <2>11. tagged' \subseteq Seq(Seq(Int))
    <3>. HIDE DEF out
    <3>1. tagged' = tagged \/ tagged' = tagged \cup {TagsOf(out)}
      BY <2>5 DEF out
    <3>. QED  BY <2>8, <3>1 DEF RoundTypeOK
  <2>. QED  BY <2>1, <2>9, <2>10, <2>11 DEF RoundTypeOK
<1>. QED  BY <1>2, <1>3, <1>4, <1>5 DEF RoundNext

(* What is sent, received and reported in the round has its type, for      *)
(* every matrix with rows of one length: no row is cut short on the way.   *)
THEOREM RoundTypesCorrect ==
  ASSUME UniformTarget
  PROVE  RoundSpec => []RoundTypeOK
<1>1. RoundInit => RoundTypeOK
  BY DEF RoundInit, RoundTypeOK
<1>2. RoundInv /\ RoundTypeOK /\ [RoundNext]_roundVars => RoundTypeOK'
  BY RoundTypesStep
<1>. QED  BY <1>1, <1>2, RoundStarts, RoundSteps, PTL DEF RoundSpec
=============================================================================
