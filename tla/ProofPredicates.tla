---------------------------- MODULE ProofPredicates ----------------------------
(* What the zero-knowledge proofs of lib/ say.  A point is represented by  *)
(* its discrete logarithm, so that the base point is 1; a proof consists   *)
(* of the secrets and the bases it was made with.                          *)
EXTENDS CipherMatrix

(* proof.Rep: the point P is the sum of secret times base over the terms.  *)
Rep(P, terms) == [P |-> P, terms |-> terms]

(* proof.HashProve does not look at the points P: it makes a proof, which  *)
(* does not verify, of what is not so.  sval and pval are the secrets and  *)
(* the points by name.                                                     *)
TermsOf(rep, sval, pval) ==
  [j \in DOMAIN rep.terms |-> [x |-> sval[rep.terms[j][1]], B |-> pval[rep.terms[j][2]]]]

HashProve(predicate, sval, pval) == [i \in DOMAIN predicate |-> TermsOf(predicate[i], sval, pval)]

(* A representation has one term or two.                                   *)
SumOfTerms(terms) ==
  IF 2 \in DOMAIN terms THEN terms[1].x * terms[1].B + terms[2].x * terms[2].B
                        ELSE terms[1].x * terms[1].B

(* proof.HashVerify: the same bases, and every representation holds.       *)
RepHolds(rep, pval, terms) ==
  /\ \A j \in DOMAIN terms : terms[j].B = pval[rep.terms[j][2]]
  /\ SumOfTerms(terms) = pval[rep.P]

HashVerify(predicate, pval, prf) == \A i \in DOMAIN predicate : RepHolds(predicate[i], pval, prf[i])

-----------------------------------------------------------------------------
(* Key switching.  c holds the arguments for the whole list (K, Q, k), x   *)
(* those of one ciphertext; the first loop of the list computes viB.       *)
KeySwitchPredicate ==
  << Rep("viB", << <<"vi", "B">> >>),
     Rep("K", << <<"k", "B">> >>),
     Rep("ks2", << <<"k", "rBNeg">>, <<"vi", "Q">> >>) >>

KeySwitchPoints(p) ==
  [K |-> p.K, viB |-> p.ViB, ks2 |-> p.Ks2, rBNeg |-> p.RbNeg, Q |-> p.Q, B |-> 1]

KeySwitchProofCreation(c, x, viB) ==
  LET p == [K |-> c.K, ViB |-> viB, Ks2 |-> x.ks2, RbNeg |-> x.rBNeg, Q |-> c.Q]
  IN  [Proof |-> HashProve(KeySwitchPredicate, [vi |-> x.vi, k |-> c.k], KeySwitchPoints(p)),
       K |-> p.K, ViB |-> p.ViB, Ks2 |-> p.Ks2, RbNeg |-> p.RbNeg, Q |-> p.Q]

KeySwitchProofVerification(p) ==
  HashVerify(KeySwitchPredicate, KeySwitchPoints(p), p.Proof)

(* Mutant of KeySwitchToBytes: two of the points change places.            *)
PointsSwapped(p) ==
  [Proof |-> p.Proof, KVibKs2RbNegQ |-> <<p.K, p.ViB, p.RbNeg, p.Ks2, p.Q>>]

(* The points travel as one array of bytes, in this order.                 *)
KeySwitchToBytes(p) ==
  [Proof |-> p.Proof, KVibKs2RbNegQ |-> <<p.K, p.ViB, p.Ks2, p.RbNeg, p.Q>>]

KeySwitchFromBytes(b) ==
  [Proof |-> b.Proof, K |-> b.KVibKs2RbNegQ[1], ViB |-> b.KVibKs2RbNegQ[2],
   Ks2 |-> b.KVibKs2RbNegQ[3], RbNeg |-> b.KVibKs2RbNegQ[4], Q |-> b.KVibKs2RbNegQ[5]]

-----------------------------------------------------------------------------
(* Deterministic tagging, creation: c holds K, k and s, x the ciphertext   *)
(* before and after.                                                       *)
TagCrPredicate ==
  << Rep("ci1", << <<"s", "ciminus11">> >>),
     Rep("K", << <<"k", "B">> >>),
     Rep("ci2", << <<"s", "ciminus12">>, <<"k", "ciminus11Si">> >>),
     Rep("SB", << <<"s", "B">> >>) >>

TagCrPoints(K, SB, bef, aft, ciminus11Si) ==
  [B |-> 1, K |-> K, SB |-> SB, ciminus11Si |-> ciminus11Si,
   ciminus11 |-> bef.K, ciminus12 |-> bef.C, ci1 |-> aft.K, ci2 |-> aft.C]

DeterministicTagCrProofCreation(c, x) ==
  LET si == -(c.s * x.bef.K)
  IN  [Proof |-> HashProve(TagCrPredicate, [k |-> c.k, s |-> c.s],
                           TagCrPoints(c.K, c.s, x.bef, x.aft, si)),
       Ciminus11Si |-> si, CTbef |-> x.bef, CTaft |-> x.aft]

(* The list says K and SB = s B.                                           *)
DeterministicTagCrProofVerification(c, p) ==
  HashVerify(TagCrPredicate, TagCrPoints(c.K, c.s, p.CTbef, p.CTaft, p.Ciminus11Si), p.Proof)

(* Addition: c2 = s B was added to c1 and gave r.                          *)
TagAdditionPredicate == << Rep("c2", << <<"s", "B">> >>) >>

DeterministicTagAdditionProofCreation(x) ==
  [Proof |-> HashProve(TagAdditionPredicate, [s |-> x.s], [c2 |-> x.c2, B |-> 1]),
   C1 |-> x.c1, C2 |-> x.c2, R |-> x.r]

DeterministicTagAdditionProofVerification(p) ==
  /\ HashVerify(TagAdditionPredicate, [c2 |-> p.C2, B |-> 1], p.Proof)
  /\ p.C1 + p.C2 = p.R

-----------------------------------------------------------------------------
(* Adding or removing a server: c holds K, k and toAdd.                    *)
AddRmPredicate == << Rep("Krm", << <<"k", "B">> >>), Rep("c2", << <<"k", "rB">> >>) >>

AddRmPoints(c, bef, aft) ==
  [B |-> 1, Krm |-> c.K, rB |-> bef.K,
   c2 |-> IF c.toAdd THEN aft.C - bef.C ELSE bef.C - aft.C]

AddRmProofCreation(c, x) ==
  [Proof |-> HashProve(AddRmPredicate, [k |-> c.k], AddRmPoints(c, x.bef, x.aft)),
   CtBef |-> x.bef, CtAft |-> x.aft]

AddRmProofVerification(c, p) == HashVerify(AddRmPredicate, AddRmPoints(c, p.CtBef, p.CtAft), p.Proof)

-----------------------------------------------------------------------------
(* Aggregation: the proof is the data.                                     *)
AddCt(a, b) == [K |-> a.K + b.K, C |-> a.C + b.C]

Acum(cv) ==
  LET acum[i \in 1..Len(cv)] == IF i = 1 THEN cv[1] ELSE AddCt(acum[i - 1], cv[i])
  IN  acum[Len(cv)]

AggregationProofCreation(x) == [Data |-> x.data, AggregationResult |-> x.result]

AggregationProofVerification(p) == Acum(p.Data) = p.AggregationResult

AggregationToBytes(p) ==
  [Data |-> [i \in 1..2 * Len(p.Data) |-> IF i % 2 = 1 THEN p.Data[(i + 1) \div 2].K
                                                       ELSE p.Data[i \div 2].C],
   DataLen |-> Len(p.Data),
   AggregationResult |-> <<p.AggregationResult.K, p.AggregationResult.C>>]

AggregationFromBytes(b) ==
  [Data |-> [i \in 1..b.DataLen |-> [K |-> b.Data[2 * i - 1], C |-> b.Data[2 * i]]],
   AggregationResult |-> [K |-> b.AggregationResult[1], C |-> b.AggregationResult[2]]]
-----------------------------------------------------------------------------
(* The scalar that SuiTe.XOF(seed) gives after the bytes of a ciphertext:  *)
(* any function of the two that mixes them.                                *)
PickScalar(seed, ct) == 1 + ((7 * seed + 3 * ct.C + 5 * ct.K) % 11)

CipherVectorComputeE(h, cv) == [j \in DOMAIN cv |-> PickScalar(h, cv[j])]

(* A row is compressed into one ciphertext with the scalars of the first   *)
(* row of the original list, which it must be as long as.                  *)
SameLength(rows, e) == \A i \in DOMAIN rows : Len(rows[i]) = Len(e)

InnerProduct(v, e) ==
  LET sum[j \in 0..Len(e)] == IF j = 0 THEN 0 ELSE sum[j - 1] + v[j] * e[j]
  IN  sum[Len(e)]

CompressCipherVector(cv, e) ==
  [K |-> InnerProduct([j \in DOMAIN cv |-> cv[j].K], e),
   C |-> InnerProduct([j \in DOMAIN cv |-> cv[j].C], e)]

CompressListCipherVector(rows, e) == [i \in DOMAIN rows |-> CompressCipherVector(rows[i], e)]

CompressBeta(beta, e) == [i \in DOMAIN beta |-> InnerProduct(beta[i], e)]

(* ShuffleProofCreation gives an error when rows differ in length.         *)
ShuffleProofFails(x) ==
  LET e == CipherVectorComputeE(x.h, x.original[1])
  IN  ~ (SameLength(x.original, e) /\ SameLength(x.shuffled, e))

(* PairShuffle.Prove: the proof knows the permutation and the factors.     *)
ShuffleProofCreation(x) ==
  LET e == CipherVectorComputeE(x.h, x.original[1])
  IN  [OriginalList |-> x.original, ShuffledList |-> x.shuffled, G |-> x.g, H |-> x.h,
       HashProof |-> [XY |-> CompressListCipherVector(x.original, e), h |-> x.h,
                      pi |-> x.pi, beta |-> CompressBeta(x.beta, e)]]

(* The scalars are computed anew, from the verifier's seed.                *)
ShuffleProofVerification(seed, p) ==
  LET e == CipherVectorComputeE(seed, p.OriginalList[1])
      XY == CompressListCipherVector(p.OriginalList, e)
  IN  /\ SameLength(p.OriginalList, e) /\ SameLength(p.ShuffledList, e)
      /\ p.HashProof.XY = XY /\ p.G = 1 /\ p.H = p.HashProof.h
      /\ CompressListCipherVector(p.ShuffledList, e) =
           [i \in DOMAIN XY |->
              Rerandomize(XY[p.HashProof.pi[i]], p.HashProof.beta[p.HashProof.pi[i]], p.H)]
=============================================================================
