-------------------------- MODULE KeySwitchingProofs --------------------------
(***************************************************************************)
(* Theorems about KeySwitching for every tree, keys, scalars and vector of *)
(* ciphertexts, with and without faults.                                   *)
(***************************************************************************)
EXTENDS KeySwitching, FiniteSetTheorems, SequenceTheorems, WellFoundedInduction, TLAPS

(* v decrypts, under the new key, to minus the shares of S times the left  *)
(* halves of the target: S has removed its shares and nobody else.         *)
Removed(v, S) ==
  \A i \in DOMAIN Target : DecryptNew(v[i]) = - KeySum[S] * Target[i].K

(* All that a node sends has the length of the root's vector.              *)
Width == Len(Target)
Message == {Length(Width)} \cup {Data(v) : v \in Vector}

TypeInv ==
  /\ start \in {"contribute", "announce", "done", "failed"}
  /\ pc \in [Node -> {"announcement", "ascend", "report", "done", "failed", "panicked"}]
  /\ down \subseteq Node \ {Root}
  /\ contribution \in [Node -> {Nil} \cup {<<v>> : v \in Vector}]
  /\ wire \in [Node -> Seq(Message)]
  /\ lengths \in [Node -> Seq({Width})]
  /\ datas \in [Node -> Seq(Vector)]
  /\ feedback \subseteq Vector

(* Before the announcement nobody but the root has begun.                  *)
QuietInv ==
  start \in {"contribute", "announce"} =>
    down = {} /\ \A n \in Node \ {Root} : pc[n] = "announcement"

(* NodeContribution before and after the contributions of the children     *)
(* have been added.  A root without children may be ahead of its Start.    *)
ContributionInv ==
  /\ start = "contribute" => contribution[Root] = Nil
  /\ start = "contribute" /\ pc[Root] # "ascend" => IsLeaf(Root)
  /\ \A n \in Node :
       /\ pc[n] = "ascend" /\ (n = Root => start # "contribute") =>
            contribution[n] # Nil /\ Removed(contribution[n][1], {n})
       /\ pc[n] = "done" /\ n # Root => contribution[n] # Nil
  /\ start # "contribute" => contribution[Root] # Nil

(* What a node has under way to its parent.                                *)
WireInv ==
  \A c \in Node \ {Root} :
    /\ pc[c] \notin {"done", "failed"} => wire[c] = <<>>
    /\ pc[c] = "failed" => wire[c] \in {<<>>, <<Length(Width)>>}
    /\ pc[c] = "done" =>
         wire[c] \in {<<>>, <<Data(contribution[c][1])>>, UpMessages(contribution[c][1])}

(* A node that has sent all it has to, and whose messages have arrived.    *)
Delivered(c) == pc[c] = "done" /\ wire[c] = <<>>

(* The vectors that have arrived at a node come from different children.   *)
IsSource(n, source) ==
  /\ source \in [DOMAIN datas[n] -> Children(n)]
  /\ \A i, j \in DOMAIN datas[n] : source[i] = source[j] => i = j
  /\ \A i \in DOMAIN datas[n] :
       Delivered(source[i]) /\ datas[n][i] = contribution[source[i]][1]

DataInv ==
  \A n \in Node : \E source \in [DOMAIN datas[n] -> Children(n)] : IsSource(n, source)

IInv ==
  /\ TypeInv /\ QuietInv /\ ContributionInv /\ WireInv /\ DataInv
  /\ SubtreeSharesRemoved /\ SwitchKeepsPlaintext

-----------------------------------------------------------------------------
(* Induction over finite sets and over an interval of numbers, for sets    *)
(* given as values.                                                        *)
LEMMA FiniteInduct ==
  ASSUME NEW S, IsFiniteSet(S), NEW T, {} \in T,
         \A X \in SUBSET S : \A x \in S \ X : X \in T => X \cup {x} \in T
  PROVE  S \in T
<1>. DEFINE U == {X \in SUBSET S : X \notin T}
<1>1. SUFFICES ASSUME S \notin T
               PROVE  FALSE
  OBVIOUS
<1>2. S \in U
  BY <1>1
<1>3. U \subseteq FiniteSubsetsOf(S)
  BY FS_Subset DEF FiniteSubsetsOf
<1>4. PICK X \in U : \A Y \in U : ~ (<<Y, X>> \in StrictSubsetOrdering(S))
  <2>. HIDE DEF U
  <2>1. IsWellFoundedOn(StrictSubsetOrdering(S), FiniteSubsetsOf(S))
    BY FS_StrictSubsetOrderingWellFounded
  <2>. QED  BY <1>2, <1>3, <2>1, WFMin, Zenon
<1>5. PICK x \in X : TRUE
  OBVIOUS
<1>. DEFINE Y == X \ {x}
<1>6. Y \in SUBSET S /\ x \in S \ Y /\ X = Y \cup {x}
  BY <1>5
<1>7. Y \notin T
  BY <1>6
<1>8. <<Y, X>> \in StrictSubsetOrdering(S)
  BY <1>5, <1>6 DEF StrictSubsetOrdering
<1>. QED  BY <1>4, <1>6, <1>7, <1>8

LEMMA BoundedInduct ==
  ASSUME NEW k \in Nat, NEW T, 0 \in T,
         \A i \in 0..k : i \in T /\ i < k => i + 1 \in T
  PROVE  k \in T
<1>. DEFINE U == {S \in SUBSET (1..k) : (0..Cardinality(S)) \cap (0..k) \subseteq T}
<1>1. IsFiniteSet(1..k) /\ Cardinality(1..k) = k
  BY FS_Interval
<1>2. {} \in U
  BY FS_EmptySet
<1>3. ASSUME NEW X \in SUBSET (1..k), NEW x \in (1..k) \ X, X \in U
      PROVE  X \cup {x} \in U
  <2>1. /\ IsFiniteSet(X) /\ Cardinality(X) \in Nat
        /\ Cardinality(X \cup {x}) = Cardinality(X) + 1
    BY <1>1, FS_Subset, FS_AddElement, FS_CardinalityType
  <2>2. ASSUME NEW i \in (0..Cardinality(X) + 1) \cap (0..k)
        PROVE  i \in T
    <3>1. CASE i <= Cardinality(X)
      BY <1>3, <2>1, <3>1
    <3>2. CASE i = Cardinality(X) + 1
      <4>1. i - 1 \in (0..Cardinality(X)) \cap (0..k) /\ i - 1 < k
        BY <2>1, <3>2
      <4>2. i - 1 \in T
        BY <1>3, <4>1
      <4>. QED  BY <4>1, <4>2
    <3>. QED  BY <2>1, <3>1, <3>2
  <2>. QED  BY <2>1, <2>2
<1>. HIDE DEF U
<1>4. 1..k \in U
  BY <1>1, <1>2, <1>3, FiniteInduct
<1>. QED  BY <1>1, <1>4 DEF U

-----------------------------------------------------------------------------
(* KeySum, of which the model assumes the recurrence only, adds up over    *)
(* sets without a common node.                                             *)
LEMMA KeySumType == \A S \in SUBSET Node : KeySum[S] \in Int
<1>. USE KeySumAssumption, DataAssumption
<1>1. SUFFICES ASSUME NEW S \in SUBSET Node
               PROVE  KeySum[S] \in Int
  OBVIOUS
<1>. DEFINE T == {X \in SUBSET Node : KeySum[X] \in Int}
<1>2. {} \in T
  OBVIOUS
<1>3. ASSUME NEW X \in SUBSET S, NEW x \in S \ X, X \in T
      PROVE  X \cup {x} \in T
  <2>1. X \in SUBSET Node /\ x \in Node \ X
    OBVIOUS
  <2>2. KeySum[X \cup {x}] = KeySum[X] + Priv[x]
    BY <2>1
  <2>. QED  BY <1>3, <2>1, <2>2
<1>4. IsFiniteSet(S)
  BY TreeAssumption, FS_Subset
<1>. HIDE DEF T
<1>5. S \in T
  BY <1>2, <1>3, <1>4, FiniteInduct
<1>. QED  BY <1>5 DEF T

LEMMA KeySumUnion ==
  ASSUME NEW A \in SUBSET Node, NEW B \in SUBSET Node, A \cap B = {}
  PROVE  KeySum[A \cup B] = KeySum[A] + KeySum[B]
<1>. DEFINE T == {X \in SUBSET Node : KeySum[A \cup X] = KeySum[A] + KeySum[X]}
<1>1. {} \in T
  <2>1. A \cup {} = A
    OBVIOUS
  <2>. QED  BY <2>1, KeySumAssumption, KeySumType
<1>2. ASSUME NEW X \in SUBSET B, NEW x \in B \ X, X \in T
      PROVE  X \cup {x} \in T
  <2>1. x \in Node \ (A \cup X) /\ A \cup X \in SUBSET Node /\ X \in SUBSET Node /\ x \in Node \ X
    OBVIOUS
  <2>2. A \cup (X \cup {x}) = (A \cup X) \cup {x}
    OBVIOUS
  <2>3. KeySum[A \cup (X \cup {x})] = KeySum[A \cup X] + Priv[x]
    BY <2>1, <2>2, KeySumAssumption
  <2>4. KeySum[X \cup {x}] = KeySum[X] + Priv[x]
    BY <2>1, KeySumAssumption
  <2>5. KeySum[A] \in Int /\ KeySum[X] \in Int /\ Priv[x] \in Int
    BY <2>1, KeySumType, DataAssumption
  <2>6. KeySum[A \cup X] = KeySum[A] + KeySum[X]
    BY <1>2
  <2>7. KeySum[A \cup (X \cup {x})] = KeySum[A] + KeySum[X \cup {x}]
    BY <2>3, <2>4, <2>5, <2>6
  <2>. QED  BY <2>1, <2>7
<1>3. IsFiniteSet(B)
  BY TreeAssumption, FS_Subset
<1>. HIDE DEF T
<1>4. B \in T
  BY <1>1, <1>2, <1>3, FiniteInduct
<1>. QED  BY <1>4 DEF T

LEMMA KeySumOne ==
  ASSUME NEW n \in Node
  PROVE  KeySum[{n}] = Priv[n]
<1>1. {} \cup {n} = {n} /\ n \in Node \ {} /\ {} \in SUBSET Node
  OBVIOUS
<1>2. KeySum[{} \cup {n}] = KeySum[{}] + Priv[n]
  BY <1>1, KeySumAssumption
<1>. QED  BY <1>1, <1>2, KeySumAssumption, DataAssumption

-----------------------------------------------------------------------------
(* The own contribution of a node, and what adding contributions does.     *)
LEMMA TargetType ==
  /\ Width \in Nat
  /\ DOMAIN Target = 1..Width
  /\ \A i \in DOMAIN Target : Target[i].K \in Int /\ Target[i].C \in Int
<1>1. Target \in Seq([K : Int, C : Int])
  BY DataAssumption
<1>2. \A i \in DOMAIN Target : Target[i] \in [K : Int, C : Int]
  <2>1. DOMAIN Target = 1..Len(Target)
    BY <1>1, LenProperties, Zenon
  <2>. QED  BY <1>1, <2>1, ElementOfSeq, Zenon
<1>. QED  BY <1>1, <1>2 DEF Width

LEMMA OwnShare ==
  ASSUME NEW n \in Node, NEW vs \in Scalars
  PROVE  /\ KeySwitchSequence(n, vs) \in Vector
         /\ Removed(KeySwitchSequence(n, vs), {n})
<1>1. ASSUME NEW i \in DOMAIN Target
      PROVE  /\ KeySwitch(Target[i].K, n, vs[i]) \in [K : Int, C : Int]
             /\ DecryptNew(KeySwitch(Target[i].K, n, vs[i])) = - Priv[n] * Target[i].K
  <2>1. vs[i] \in Int /\ Priv[n] \in Int /\ NewPriv \in Int /\ Target[i].K \in Int
    BY DataAssumption, TargetType DEF Scalars
  <2>. DEFINE x == vs[i]
              p == Priv[n]
              k == Target[i].K
  <2>2. x \in Int /\ p \in Int /\ k \in Int /\ NewPriv \in Int
    BY <2>1
  <2>3. KeySwitch(k, n, x) = [K |-> x, C |-> p * (- k) + x * NewPriv]
    BY DEF KeySwitch, NewKey
  <2>. HIDE DEF x, p, k
  <2>4. p * (- k) + x * NewPriv \in Int
    BY <2>2
  <2>5. p * (- k) + x * NewPriv - NewPriv * x = - p * k
    BY <2>2
  <2>6. /\ KeySwitch(k, n, x) \in [K : Int, C : Int]
        /\ DecryptNew(KeySwitch(k, n, x)) = - p * k
    BY <2>2, <2>3, <2>4, <2>5 DEF DecryptNew
  <2>. QED  BY <2>6 DEF x, p, k
<1>2. KeySwitchSequence(n, vs) \in Vector
  BY <1>1 DEF KeySwitchSequence, Vector
<1>. QED  BY <1>1, <1>2, KeySumOne DEF Removed, KeySwitchSequence

LEMMA AddRemoved ==
  ASSUME NEW u \in Vector, NEW v \in Vector,
         NEW A \in SUBSET Node, NEW B \in SUBSET Node, A \cap B = {},
         Removed(u, A), Removed(v, B)
  PROVE  /\ AddVector(u, FromBytes(v, Width)) \in Vector
         /\ Removed(AddVector(u, FromBytes(v, Width)), A \cup B)
<1>1. FromBytes(v, Width) = v /\ DOMAIN v = DOMAIN Target
  BY TargetType DEF FromBytes, Vector
<1>2. AddVector(u, v) = [i \in DOMAIN Target |-> AddCt(u[i], v[i])]
  BY <1>1 DEF AddVector
<1>3. ASSUME NEW i \in DOMAIN Target
      PROVE  /\ AddCt(u[i], v[i]) \in [K : Int, C : Int]
             /\ DecryptNew(AddCt(u[i], v[i])) = - KeySum[A \cup B] * Target[i].K
  <2>1. /\ u[i] \in [K : Int, C : Int] /\ v[i] \in [K : Int, C : Int]
        /\ NewPriv \in Int
    BY DataAssumption DEF Vector
  <2>2. AddCt(u[i], v[i]) \in [K : Int, C : Int]
    BY <2>1 DEF AddCt
  <2>3. DecryptNew(AddCt(u[i], v[i])) = DecryptNew(u[i]) + DecryptNew(v[i])
    BY <2>1 DEF AddCt, DecryptNew
  <2>4. /\ DecryptNew(u[i]) = - KeySum[A] * Target[i].K
        /\ DecryptNew(v[i]) = - KeySum[B] * Target[i].K
    BY DEF Removed
  <2>5. KeySum[A] \in Int /\ KeySum[B] \in Int /\ Target[i].K \in Int
    BY KeySumType, TargetType
  <2>6. \A a, b, k \in Int : (- a * k) + (- b * k) = - (a + b) * k
    OBVIOUS
  <2>7. DecryptNew(u[i]) + DecryptNew(v[i]) = - (KeySum[A] + KeySum[B]) * Target[i].K
    BY <2>4, <2>5, <2>6
  <2>. QED  BY <2>2, <2>3, <2>7, KeySumUnion
<1>. QED  BY <1>1, <1>2, <1>3 DEF Vector, Removed

(* The loop over the contributions of the children, as a recursive         *)
(* function: there is one, and every further value takes off the shares of *)
(* one more child's subtree.                                               *)
LEMMA SumsExist ==
  ASSUME NEW n \in Node, NEW k \in Nat
  PROVE  \E sum : sum = [i \in 0..k |->
           IF i = 0 THEN contribution[n][1]
           ELSE AddVector(sum[i - 1], FromBytes(datas[n][i], lengths[n][i]))]
<1>. DEFINE c == contribution[n][1]
            Add(v, i) == AddVector(v, FromBytes(datas[n][i], lengths[n][i]))
            Upto(j, g) == g = [i \in 0..j |-> IF i = 0 THEN c ELSE Add(g[i - 1], i)]
            T == {j \in 0..k : \E g : Upto(j, g)}
<1>1. 0 \in T
  <2>. HIDE DEF Add, c
  <2>. DEFINE g == [i \in 0..0 |-> c]
  <2>1. g = [i \in 0..0 |-> IF i = 0 THEN c ELSE Add(g[i - 1], i)]
    OBVIOUS
  <2>2. Upto(0, g)
    BY <2>1
  <2>. HIDE DEF g, Upto
  <2>3. \E x : Upto(0, x)
    BY <2>2
  <2>. QED  BY <2>3
<1>2. ASSUME NEW j \in 0..k, j \in T, j < k
      PROVE  j + 1 \in T
  <2>. HIDE DEF Add, c
  <2>1. PICK g : Upto(j, g)
    BY <1>2
  <2>. DEFINE h == [i \in 0..(j + 1) |-> IF i = j + 1 THEN Add(g[j], j + 1) ELSE g[i]]
  <2>2. ASSUME NEW i \in 0..(j + 1)
        PROVE  h[i] = IF i = 0 THEN c ELSE Add(h[i - 1], i)
    <3>1. CASE i = j + 1
      <4>1. i - 1 = j /\ j \in 0..(j + 1) /\ j # j + 1 /\ i # 0
        BY <3>1
      <4>2. h[i - 1] = g[j] /\ h[i] = Add(g[j], j + 1)
        BY <3>1, <4>1
      <4>. QED  BY <3>1, <4>1, <4>2
    <3>2. CASE i # j + 1 /\ i # 0
      <4>1. i \in 0..j /\ i - 1 \in 0..(j + 1) /\ i - 1 # j + 1
        BY <3>2
      <4>2. h[i] = g[i] /\ h[i - 1] = g[i - 1]
        BY <3>2, <4>1
      <4>3. g[i] = Add(g[i - 1], i)
        BY <2>1, <3>2, <4>1
      <4>. QED  BY <3>2, <4>2, <4>3
    <3>3. CASE i = 0
      <4>1. 0 \in 0..j /\ 0 # j + 1 /\ 0 \in 0..(j + 1)
        OBVIOUS
      <4>2. h[0] = g[0] /\ g[0] = c
        BY <2>1, <4>1
      <4>. QED  BY <3>3, <4>2
    <3>. QED  BY <3>1, <3>2, <3>3
  <2>3. h = [i \in 0..(j + 1) |-> h[i]]
    OBVIOUS
  <2>4. Upto(j + 1, h)
    <3>. HIDE DEF h
    <3>. QED  BY <2>2, <2>3
  <2>. HIDE DEF h, Upto
  <2>5. \E x : Upto(j + 1, x)
    BY <2>4
  <2>. QED  BY <1>2, <2>5
<1>. HIDE DEF T
<1>3. k \in T
  BY <1>1, <1>2, BoundedInduct
<1>. QED  BY <1>3 DEF T

LEMMA CollectedRemoved ==
  ASSUME TypeInv, NEW n \in Node, AllChildrenSent(n),
         contribution[n] # Nil, Removed(contribution[n][1], {n}),
         NEW source, IsSource(n, source),
         \A i \in DOMAIN datas[n] : Removed(datas[n][i], Below[source[i]])
  PROVE  Collected(n) \in Vector /\ Removed(Collected(n), Below[n])
<1>. DEFINE k == Len(lengths[n])
            Reached(i) == {n} \cup UNION {Below[source[m]] : m \in 1..i}
<1>1. /\ k \in Nat /\ k = Cardinality(Children(n)) /\ DOMAIN datas[n] = 1..k
      /\ \A i \in 1..k : lengths[n][i] = Width /\ datas[n][i] \in Vector
  <2>1. lengths[n] \in Seq({Width}) /\ datas[n] \in Seq(Vector)
    BY DEF TypeInv
  <2>2. DOMAIN lengths[n] = 1..k /\ DOMAIN datas[n] = 1..k /\ k \in Nat
    BY <2>1 DEF AllChildrenSent
  <2>. QED  BY <2>1, <2>2, ElementOfSeq DEF AllChildrenSent
<1>2. contribution[n][1] \in Vector
  BY DEF TypeInv, Nil
<1>3. /\ source \in [1..k -> Children(n)]
      /\ \A i, j \in 1..k : source[i] = source[j] => i = j
      /\ Children(n) \subseteq Node \ {Root}
  BY <1>1 DEF IsSource, Children
<1>. DEFINE sum[i \in 0..k] ==
              IF i = 0 THEN contribution[n][1]
              ELSE AddVector(sum[i - 1], FromBytes(datas[n][i], lengths[n][i]))
<1>4. sum = [i \in 0..k |->
               IF i = 0 THEN contribution[n][1]
               ELSE AddVector(sum[i - 1], FromBytes(datas[n][i], lengths[n][i]))]
  BY <1>1, SumsExist, Zenon
<1>5. Collected(n) = sum[k]
  BY DEF Collected
<1>. HIDE DEF sum
<1>. DEFINE T == {i \in 0..k : sum[i] \in Vector /\ Removed(sum[i], Reached(i))}
<1>6. 0 \in T
  <2>1. Reached(0) = {n} /\ 0 \in 0..k
    BY <1>1
  <2>2. sum[0] = contribution[n][1]
    BY <1>4, <2>1
  <2>. HIDE DEF k, Reached
  <2>. QED  BY <1>2, <2>1, <2>2
<1>7. ASSUME NEW i \in 0..k, i \in T, i < k
      PROVE  i + 1 \in T
  <2>1. i + 1 \in 1..k /\ i + 1 \in 0..k /\ i + 1 # 0 /\ (i + 1) - 1 = i
    BY <1>1, <1>7
  <2>2. sum[i + 1] = AddVector(sum[i], FromBytes(datas[n][i + 1], Width))
    BY <1>1, <1>4, <2>1
  <2>3. Reached(i + 1) = Reached(i) \cup Below[source[i + 1]]
    <3>1. 1..(i + 1) = (1..i) \cup {i + 1}
      BY <1>1
    <3>. QED  BY <3>1
  <2>4. Reached(i) \cap Below[source[i + 1]] = {}
    <3>1. source[i + 1] \in Children(n)
      BY <1>3, <2>1
    <3>2. n \notin Below[source[i + 1]]
      BY <3>1, BelowAssumption
    <3>3. ASSUME NEW m \in 1..i
          PROVE  Below[source[m]] \cap Below[source[i + 1]] = {}
      <4>1. m \in 1..k /\ m # i + 1
        BY <1>1, <2>1
      <4>2. source[m] \in Children(n) /\ source[m] # source[i + 1]
        BY <1>3, <2>1, <4>1
      <4>. QED  BY <3>1, <4>2, BelowAssumption
    <3>. QED  BY <3>2, <3>3
  <2>5. Reached(i) \in SUBSET Node /\ Below[source[i + 1]] \in SUBSET Node
    <3>1. \A m \in 1..k : Below[source[m]] \in SUBSET Node
      BY <1>3, BelowAssumption
    <3>2. 1..i \subseteq 1..k
      BY <1>1
    <3>. QED  BY <2>1, <3>1, <3>2
  <2>6. /\ sum[i] \in Vector /\ Removed(sum[i], Reached(i))
        /\ datas[n][i + 1] \in Vector
        /\ Removed(datas[n][i + 1], Below[source[i + 1]])
    BY <1>1, <1>7, <2>1
  <2>. HIDE DEF k, Reached
  <2>7. /\ sum[i + 1] \in Vector
        /\ Removed(sum[i + 1], Reached(i) \cup Below[source[i + 1]])
    BY <2>2, <2>4, <2>5, <2>6, AddRemoved
  <2>. QED  BY <2>1, <2>3, <2>7
<1>. HIDE DEF T
<1>8. k \in T
  BY <1>1, <1>6, <1>7, BoundedInduct
<1>9. Reached(k) = Below[n]
  <2>1. source \in Injection(1..k, Children(n))
    BY <1>3 DEF Injection, IsInjective
  <2>2. IsFiniteSet(Children(n)) /\ Cardinality(1..k) = Cardinality(Children(n))
    <3>1. Children(n) \in SUBSET Node
      BY <1>3
    <3>2. Cardinality(1..k) = k
      BY <1>1, FS_Interval
    <3>. QED  BY <1>1, <3>1, <3>2, TreeAssumption, FS_Subset
  <2>3. source \in Surjection(1..k, Children(n))
    BY <2>1, <2>2, FS_Injection
  <2>4. \A c \in Children(n) : \E m \in 1..k : source[m] = c
    BY <2>3 DEF Surjection
  <2>5. Below[n] = {n} \cup UNION {Below[c] : c \in Children(n)}
    BY BelowAssumption
  <2>. QED  BY <1>3, <2>4, <2>5
<1>. QED  BY <1>5, <1>8, <1>9 DEF T

-----------------------------------------------------------------------------
(* The invariant holds initially and is preserved by every step.           *)
LEMMA InitInv == Init => IInv
<1>. SUFFICES ASSUME Init
              PROVE  IInv
  OBVIOUS
<1>1. TypeInv
  BY TreeAssumption DEF Init, TypeInv, Nil
<1>2. QuietInv /\ WireInv
  BY DEF Init, QuietInv, WireInv
<1>3. ContributionInv
  BY TreeAssumption DEF Init, ContributionInv, Nil
<1>4. DataInv
  <2>1. SUFFICES ASSUME NEW n \in Node
                 PROVE  \E source \in [DOMAIN datas[n] -> Children(n)] : IsSource(n, source)
    BY DEF DataInv
  <2>2. DOMAIN datas[n] = {}
    BY DEF Init
  <2>. DEFINE none == [i \in {} |-> i]
  <2>3. none \in [DOMAIN datas[n] -> Children(n)]
    BY <2>2
  <2>4. IsSource(n, none)
    BY <2>2, <2>3 DEF IsSource
  <2>. QED  BY <2>3, <2>4
<1>5. SubtreeSharesRemoved /\ SwitchKeepsPlaintext
  BY DEF Init, SubtreeSharesRemoved, SwitchKeepsPlaintext
<1>. QED  BY <1>1, <1>2, <1>3, <1>4, <1>5 DEF IInv

(* What has arrived stays where it is from, as long as those who are done  *)
(* do nothing more.                                                        *)
LEMMA DataKept ==
  ASSUME DataInv, datas' = datas,
         \A c \in Node \ {Root} :
           Delivered(c) => Delivered(c)' /\ contribution'[c] = contribution[c]
  PROVE  DataInv'
<1>1. SUFFICES ASSUME NEW n \in Node
               PROVE  \E source \in [DOMAIN datas'[n] -> Children(n)] : IsSource(n, source)'
  BY DEF DataInv
<1>2. PICK source \in [DOMAIN datas[n] -> Children(n)] : IsSource(n, source)
  BY DEF DataInv
<1>3. \A i \in DOMAIN datas[n] : source[i] \in Node \ {Root}
  BY DEF Children
<1>4. IsSource(n, source)'
  BY <1>2, <1>3 DEF IsSource
<1>. QED  BY <1>4

(* The sources of the vectors have removed the shares of their subtrees.   *)
LEMMA SourceRemoved ==
  ASSUME IInv, NEW n \in Node, NEW source, IsSource(n, source), NEW i \in DOMAIN datas[n]
  PROVE  Removed(datas[n][i], Below[source[i]])
<1>1. /\ source[i] \in Node \ {Root} /\ pc[source[i]] = "done"
      /\ datas[n][i] = contribution[source[i]][1]
  BY DEF IsSource, Children, Delivered
<1>2. contribution[source[i]] # Nil
  BY <1>1 DEF IInv, ContributionInv
<1>. QED  BY <1>1, <1>2 DEF IInv, SubtreeSharesRemoved, Removed

(* What a node has when it sends or reports.                               *)
LEMMA LeafBelow ==
  ASSUME NEW n \in Node, IsLeaf(n)
  PROVE  Below[n] = {n}
BY BelowAssumption DEF IsLeaf

LEMMA ReadyToSend ==
  ASSUME IInv, NEW n \in Node, pc[n] = "ascend", IsLeaf(n) \/ AllChildrenSent(n)
  PROVE  /\ contribution[n] = Nil => n = Root /\ IsLeaf(n) /\ start = "contribute"
         /\ IsLeaf(n) /\ contribution[n] # Nil => Removed(contribution[n][1], Below[n])
         /\ ~ IsLeaf(n) => Collected(n) \in Vector /\ Removed(Collected(n), Below[n])
<1>1. n = Root /\ start = "contribute" => IsLeaf(n)
  <2>1. SUFFICES ASSUME n = Root, start = "contribute", ~ IsLeaf(n)
                 PROVE  FALSE
    OBVIOUS
  <2>2. \A c \in Children(Root) : pc[c] = "announcement"
    BY <2>1 DEF IInv, QuietInv, Children
  <2>3. PICK source \in [DOMAIN datas[n] -> Children(n)] : IsSource(n, source)
    BY DEF IInv, DataInv
  <2>4. IsFiniteSet(Children(n)) /\ Children(n) # {}
    <3>1. Children(n) \in SUBSET Node
      BY DEF Children
    <3>. QED  BY <2>1, <3>1, TreeAssumption, FS_Subset DEF IsLeaf
  <2>5. Cardinality(Children(n)) \in Nat /\ Cardinality(Children(n)) # 0
    BY <2>4, FS_CardinalityType, FS_EmptySet
  <2>6. datas[n] \in Seq(Vector) /\ Len(datas[n]) = Cardinality(Children(n))
    BY <2>1 DEF IInv, TypeInv, AllChildrenSent
  <2>7. 1 \in DOMAIN datas[n]
    BY <2>5, <2>6
  <2>8. source[1] \in Children(Root) /\ pc[source[1]] = "done"
    BY <2>1, <2>3, <2>7 DEF IsSource, Delivered
  <2>. QED  BY <2>2, <2>8
<1>2. contribution[n] = Nil => n = Root /\ start = "contribute"
  BY DEF IInv, ContributionInv
<1>3. contribution[n] # Nil => Removed(contribution[n][1], {n})
  BY DEF IInv, ContributionInv
<1>4. ASSUME ~ IsLeaf(n)
      PROVE  Collected(n) \in Vector /\ Removed(Collected(n), Below[n])
  <2>1. PICK source \in [DOMAIN datas[n] -> Children(n)] : IsSource(n, source)
    BY DEF IInv, DataInv
  <2>2. contribution[n] # Nil
    BY <1>1, <1>2, <1>4
  <2>3. \A i \in DOMAIN datas[n] : Removed(datas[n][i], Below[source[i]])
    BY <2>1, SourceRemoved
  <2>. QED  BY <1>3, <1>4, <2>1, <2>2, <2>3, CollectedRemoved DEF IInv
<1>. QED  BY <1>1, <1>2, <1>3, <1>4, LeafBelow

LEMMA StartContributionStep ==
  ASSUME IInv, StartContribution
  PROVE  IInv'
<1>. USE TreeAssumption DEF IInv
<1>1. PICK vs \in Scalars :
        contribution' = [contribution EXCEPT ![Root] = <<KeySwitchSequence(Root, vs)>>]
  BY DEF StartContribution
<1>. DEFINE own == KeySwitchSequence(Root, vs)
<1>2. own \in Vector /\ Removed(own, {Root})
  BY OwnShare
<1>. HIDE DEF own
<1>3. /\ start = "contribute" /\ start' = "announce"
      /\ UNCHANGED <<pc, down, wire, lengths, datas, feedback>>
  BY DEF StartContribution
<1>4. /\ contribution'[Root] = <<own>> /\ contribution'[Root] # Nil
      /\ contribution'[Root][1] = own
      /\ \A n \in Node \ {Root} : contribution'[n] = contribution[n]
      /\ contribution' \in [Node -> {Nil} \cup {<<v>> : v \in Vector}]
  <2>1. contribution' = [contribution EXCEPT ![Root] = <<own>>]
    BY <1>1 DEF own
  <2>. QED  BY <1>2, <2>1 DEF TypeInv, Nil
<1>5. TypeInv'
  BY <1>3, <1>4 DEF TypeInv
<1>6. QuietInv'
  BY <1>3 DEF QuietInv
<1>7. ContributionInv'
  BY <1>2, <1>3, <1>4 DEF ContributionInv, Removed
<1>8. WireInv'
  BY <1>3, <1>4 DEF WireInv
<1>9. DataInv'
  BY <1>3, <1>4, DataKept DEF Delivered
<1>10. SubtreeSharesRemoved'
  <2>1. pc[Root] \in {"report", "done"} => Below[Root] = {Root}
    BY <1>3, LeafBelow DEF ContributionInv
  <2>. QED  BY <1>2, <1>3, <1>4, <2>1 DEF SubtreeSharesRemoved, Removed
<1>11. SwitchKeepsPlaintext'
  BY <1>3 DEF SwitchKeepsPlaintext
<1>. QED  BY <1>5, <1>6, <1>7, <1>8, <1>9, <1>10, <1>11

(* Steps that touch neither contributions nor arrived messages.            *)
LEMMA AnnouncementSent ==
  ASSUME IInv, StartAnnouncement
  PROVE  IInv'
<1>. USE DEF IInv
<1>1. /\ start = "announce" /\ start' \in {"done", "failed"}
      /\ down' \subseteq Children(Root)
      /\ UNCHANGED <<pc, wire, lengths, datas, contribution, feedback>>
  BY DEF StartAnnouncement, MayAnnounce
<1>2. TypeInv'
  BY <1>1 DEF TypeInv, Children
<1>3. QuietInv' /\ WireInv'
  BY <1>1 DEF QuietInv, WireInv
<1>4. ContributionInv'
  BY <1>1 DEF ContributionInv
<1>5. DataInv'
  BY <1>1, DataKept DEF Delivered
<1>6. SubtreeSharesRemoved' /\ SwitchKeepsPlaintext'
  BY <1>1 DEF SubtreeSharesRemoved, SwitchKeepsPlaintext
<1>. QED  BY <1>2, <1>3, <1>4, <1>5, <1>6

LEMMA AnnouncementStep ==
  ASSUME IInv, NEW n \in Node, AnnouncementKSPhase(n)
  PROVE  IInv'
<1>. USE DEF IInv
<1>1. /\ pc[n] = "announcement" /\ n \in down /\ n \in Node \ {Root}
      /\ start \notin {"contribute", "announce"}
      /\ down' \subseteq Node \ {Root}
      /\ UNCHANGED <<start, wire, lengths, datas, feedback>>
  BY DEF AnnouncementKSPhase, TypeInv, QuietInv, Children
<1>2. QuietInv' /\ SwitchKeepsPlaintext'
  BY <1>1 DEF QuietInv, SwitchKeepsPlaintext
<1>3. CASE \E vs \in Scalars :
             contribution' = [contribution EXCEPT ![n] = <<KeySwitchSequence(n, vs)>>]
             /\ pc' = [pc EXCEPT ![n] = "ascend"]
  <2>1. PICK vs \in Scalars :
             contribution' = [contribution EXCEPT ![n] = <<KeySwitchSequence(n, vs)>>]
             /\ pc' = [pc EXCEPT ![n] = "ascend"]
    BY <1>3
  <2>. DEFINE own == KeySwitchSequence(n, vs)
  <2>2. own \in Vector /\ Removed(own, {n})
    BY OwnShare
  <2>3. contribution' = [contribution EXCEPT ![n] = <<own>>]
    BY <2>1
  <2>. HIDE DEF own
  <2>4. /\ contribution'[n] = <<own>> /\ contribution'[n] # Nil
        /\ contribution'[n][1] = own /\ pc'[n] = "ascend"
        /\ \A m \in Node \ {n} : contribution'[m] = contribution[m] /\ pc'[m] = pc[m]
        /\ contribution' \in [Node -> {Nil} \cup {<<v>> : v \in Vector}]
    BY <2>1, <2>2, <2>3 DEF TypeInv, Nil
  <2>5. TypeInv'
    BY <1>1, <2>1, <2>4 DEF TypeInv
  <2>6. ContributionInv'
    <3>1. Root \in Node \ {n}
      BY <1>1, TreeAssumption
    <3>2. /\ start' = "contribute" => contribution'[Root] = Nil
          /\ start' = "contribute" /\ pc'[Root] # "ascend" => IsLeaf(Root)
          /\ start' # "contribute" => contribution'[Root] # Nil
      BY <1>1, <2>4, <3>1 DEF ContributionInv
    <3>3. Removed(contribution'[n][1], {n})
      BY <2>2, <2>4
    <3>4. \A m \in Node \ {n} :
            /\ pc'[m] = "ascend" /\ (m = Root => start' # "contribute") =>
                 contribution'[m] # Nil /\ Removed(contribution'[m][1], {m})
            /\ pc'[m] = "done" /\ m # Root => contribution'[m] # Nil
      BY <1>1, <2>4 DEF ContributionInv
    <3>. QED  BY <2>4, <3>2, <3>3, <3>4 DEF ContributionInv, Removed
  <2>7. WireInv'
    BY <1>1, <2>4 DEF WireInv
  <2>8. DataInv'
    BY <1>1, <2>4, DataKept DEF Delivered
  <2>9. SubtreeSharesRemoved'
    BY <1>1, <2>4 DEF SubtreeSharesRemoved
  <2>. QED  BY <1>2, <2>5, <2>6, <2>7, <2>8, <2>9
<1>4. CASE pc' = [pc EXCEPT ![n] = "failed"] /\ contribution' = contribution
  <2>1. TypeInv'
    BY <1>1, <1>4 DEF TypeInv
  <2>2. pc'[n] = "failed" /\ \A m \in Node \ {n} : pc'[m] = pc[m]
    BY <1>4 DEF TypeInv
  <2>3. ContributionInv'
    BY <1>1, <1>4, <2>2 DEF ContributionInv
  <2>4. WireInv'
    BY <1>1, <1>4, <2>2 DEF WireInv
  <2>5. DataInv'
    BY <1>1, <1>4, <2>2, DataKept DEF Delivered
  <2>6. SubtreeSharesRemoved'
    BY <1>1, <1>4, <2>2 DEF SubtreeSharesRemoved
  <2>. QED  BY <1>2, <2>1, <2>3, <2>4, <2>5, <2>6
<1>. QED  BY <1>3, <1>4 DEF AnnouncementKSPhase

LEMMA AnnouncementTimeoutStep ==
  ASSUME IInv, NEW n \in Node, AnnouncementTimeout(n)
  PROVE  IInv'
<1>. USE DEF IInv
<1>1. /\ pc[n] = "announcement" /\ n \in Node \ {Root}
      /\ start \notin {"contribute", "announce"}
      /\ down' \subseteq Node \ {Root} /\ pc' = [pc EXCEPT ![n] = "failed"]
      /\ UNCHANGED <<start, wire, lengths, datas, contribution, feedback>>
  BY DEF AnnouncementTimeout, TypeInv, QuietInv
<1>2. pc'[n] = "failed" /\ \A m \in Node \ {n} : pc'[m] = pc[m]
  BY <1>1 DEF TypeInv
<1>3. TypeInv'
  BY <1>1 DEF TypeInv
<1>4. QuietInv' /\ SwitchKeepsPlaintext'
  BY <1>1 DEF QuietInv, SwitchKeepsPlaintext
<1>5. ContributionInv'
  BY <1>1, <1>2 DEF ContributionInv
<1>6. WireInv'
  BY <1>1, <1>2 DEF WireInv
<1>7. DataInv'
  BY <1>1, <1>2, DataKept DEF Delivered
<1>8. SubtreeSharesRemoved'
  BY <1>1, <1>2 DEF SubtreeSharesRemoved
<1>. QED  BY <1>3, <1>4, <1>5, <1>6, <1>7, <1>8

(* A message arrives: a length, which is that of the root's vector, or the *)
(* vector of a child whose vector had not arrived before.                  *)
LEMMA DeliverStep ==
  ASSUME IInv, NEW c \in Node, Deliver(c)
  PROVE  IInv'
<1>. USE DEF IInv
<1>. DEFINE n == Parent[c]
            m == Head(wire[c])
<1>1. /\ c \in Node \ {Root} /\ wire[c] # <<>> /\ n \in Node /\ c \in Children(n)
      /\ wire' = [wire EXCEPT ![c] = Tail(@)]
      /\ UNCHANGED <<start, pc, down, contribution, feedback>>
  BY TreeAssumption DEF Deliver, Children
<1>2. /\ wire' \in [Node -> Seq(Message)]
      /\ wire'[c] = Tail(wire[c])
      /\ \A d \in Node \ {c} : wire'[d] = wire[d]
  <2>1. wire[c] \in Seq(Message)
    BY DEF TypeInv
  <2>2. Tail(wire[c]) \in Seq(Message)
    BY <1>1, <2>1
  <2>. QED  BY <1>1, <2>2 DEF TypeInv
<1>3. QuietInv' /\ ContributionInv' /\ SubtreeSharesRemoved' /\ SwitchKeepsPlaintext'
  BY <1>1 DEF QuietInv, ContributionInv, SubtreeSharesRemoved, SwitchKeepsPlaintext
<1>4. pc[c] = "failed" \/ pc[c] = "done"
  BY <1>1 DEF WireInv
<1>. DEFINE v == contribution[c][1]
<1>5. pc[c] = "done" => v \in Vector
  <2>1. contribution[c] \in {Nil} \cup {<<u>> : u \in Vector}
    BY DEF TypeInv
  <2>2. pc[c] = "done" => contribution[c] # Nil
    BY <1>1 DEF ContributionInv
  <2>. QED  BY <2>1, <2>2
<1>6. CASE /\ m = Length(Width)
           /\ wire'[c] = <<>> \/ (pc[c] = "done" /\ wire'[c] = <<Data(v)>>)
           /\ pc[c] = "failed" \/ wire'[c] # <<>>
  <2>1. lengths' = [lengths EXCEPT ![n] = Append(@, Width)] /\ datas' = datas
    BY <1>6 DEF Deliver, Length
  <2>2. lengths' \in [Node -> Seq({Width})]
    <3>1. lengths[n] \in Seq({Width})
      BY <1>1 DEF TypeInv
    <3>2. Append(lengths[n], Width) \in Seq({Width})
      BY <3>1
    <3>. QED  BY <1>1, <2>1, <3>2 DEF TypeInv
  <2>3. TypeInv'
    BY <1>1, <1>2, <2>1, <2>2 DEF TypeInv
  <2>4. WireInv'
    BY <1>1, <1>2, <1>4, <1>6 DEF WireInv
  <2>5. DataInv'
    BY <1>1, <1>2, <2>1, DataKept DEF Delivered
  <2>. QED  BY <1>3, <2>3, <2>4, <2>5
<1>7. CASE m = Data(v) /\ pc[c] = "done" /\ wire'[c] = <<>>
  <2>1. datas' = [datas EXCEPT ![n] = Append(@, v)] /\ lengths' = lengths
    BY <1>7 DEF Deliver, Data
  <2>2. datas' \in [Node -> Seq(Vector)]
    <3>1. datas[n] \in Seq(Vector)
      BY <1>1 DEF TypeInv
    <3>2. Append(datas[n], v) \in Seq(Vector)
      BY <1>5, <1>7, <3>1
    <3>. QED  BY <1>1, <2>1, <3>2 DEF TypeInv
  <2>3. TypeInv'
    BY <1>1, <1>2, <2>1, <2>2 DEF TypeInv
  <2>4. WireInv'
    BY <1>1, <1>2, <1>7 DEF WireInv
  <2>5. \A d \in Node \ {Root} : Delivered(d) => Delivered(d)'
    BY <1>1, <1>2 DEF Delivered
  <2>6. ASSUME NEW p \in Node \ {n}
        PROVE  \E source \in [DOMAIN datas'[p] -> Children(p)] : IsSource(p, source)'
    <3>1. PICK source \in [DOMAIN datas[p] -> Children(p)] : IsSource(p, source)
      BY DEF DataInv
    <3>2. datas'[p] = datas[p]
      BY <2>1 DEF TypeInv
    <3>3. \A i \in DOMAIN datas[p] : source[i] \in Node \ {Root}
      BY DEF Children
    <3>4. IsSource(p, source)'
      BY <1>1, <2>5, <3>1, <3>2, <3>3 DEF IsSource
    <3>. QED  BY <3>2, <3>4
  <2>7. \E source \in [DOMAIN datas'[n] -> Children(n)] : IsSource(n, source)'
    <3>1. PICK source \in [DOMAIN datas[n] -> Children(n)] : IsSource(n, source)
      BY <1>1 DEF DataInv
    <3>. DEFINE k == Len(datas[n])
    <3>2. /\ k \in Nat /\ DOMAIN datas[n] = 1..k /\ DOMAIN datas'[n] = 1..(k + 1)
          /\ datas'[n][k + 1] = v /\ \A i \in 1..k : datas'[n][i] = datas[n][i]
      <4>1. datas[n] \in Seq(Vector) /\ datas'[n] = Append(datas[n], v)
        BY <1>1, <2>1 DEF TypeInv
      <4>. QED  BY <4>1
    <3>3. \A i \in 1..k : /\ source[i] \in Node \ {Root} /\ source[i] # c
                          /\ Delivered(source[i])
                          /\ datas[n][i] = contribution[source[i]][1]
      BY <1>1, <3>1, <3>2 DEF IsSource, Delivered, Children
    <3>4. \A i \in 1..(k + 1) : i = k + 1 \/ i \in 1..k
      BY <3>2
    <3>5. [i \in 1..(k + 1) |-> IF i = k + 1 THEN c ELSE source[i]]
            \in [1..(k + 1) -> Children(n)]
      BY <1>1, <3>1, <3>2, <3>4
    <3>6. PICK new \in [1..(k + 1) -> Children(n)] :
            new[k + 1] = c /\ \A i \in 1..k : new[i] = source[i]
      <4>. DEFINE f == [i \in 1..(k + 1) |-> IF i = k + 1 THEN c ELSE source[i]]
      <4>1. f[k + 1] = c /\ \A i \in 1..k : f[i] = source[i]
        BY <3>2
      <4>2. f \in [1..(k + 1) -> Children(n)]
        BY <3>5
      <4>. HIDE DEF f, k
      <4>. QED  BY <4>1, <4>2
    <3>7. \A i, j \in 1..(k + 1) : new[i] = new[j] => i = j
      <4>. HIDE DEF k
      <4>1. \A i, j \in 1..k : source[i] = source[j] => i = j
        BY <3>1, <3>2 DEF IsSource
      <4>. QED  BY <3>3, <3>4, <3>6, <4>1
    <3>8. \A i \in 1..(k + 1) : Delivered(new[i])' /\ datas'[n][i] = contribution'[new[i]][1]
      <4>. HIDE DEF k
      <4>1. Delivered(c)' /\ datas'[n][k + 1] = contribution'[c][1]
        BY <1>1, <1>7, <3>2 DEF Delivered
      <4>2. \A i \in 1..k : /\ Delivered(source[i])'
                            /\ datas'[n][i] = contribution'[source[i]][1]
        BY <1>1, <2>5, <3>2, <3>3
      <4>3. ASSUME NEW i \in 1..(k + 1)
            PROVE  Delivered(new[i])' /\ datas'[n][i] = contribution'[new[i]][1]
        <5>1. CASE i = k + 1
          BY <3>6, <4>1, <5>1 DEF Delivered
        <5>2. CASE i \in 1..k
          BY <3>6, <4>2, <5>2 DEF Delivered
        <5>. QED  BY <3>4, <5>1, <5>2
      <4>. QED  BY <4>3
    <3>. HIDE DEF k
    <3>9. IsSource(n, new)'
      BY <3>2, <3>6, <3>7, <3>8 DEF IsSource
    <3>. QED  BY <3>2, <3>6, <3>9
  <2>8. DataInv'
    BY <2>6, <2>7 DEF DataInv
  <2>. QED  BY <1>3, <2>3, <2>4, <2>8
<1>8. \/ /\ m = Length(Width)
         /\ wire'[c] = <<>> \/ (pc[c] = "done" /\ wire'[c] = <<Data(v)>>)
         /\ pc[c] = "failed" \/ wire'[c] # <<>>
      \/ m = Data(v) /\ pc[c] = "done" /\ wire'[c] = <<>>
  <2>1. CASE pc[c] = "failed"
    <3>1. wire[c] = <<Length(Width)>>
      BY <1>1, <2>1 DEF WireInv
    <3>. QED  BY <1>2, <2>1, <3>1
  <2>2. CASE pc[c] = "done"
    <3>1. CASE wire[c] = <<Data(v)>>
      BY <1>2, <2>2, <3>1
    <3>2. CASE wire[c] = UpMessages(v)
      <4>1. Len(v) = Width
        <5>1. DOMAIN v = 1..Width /\ Width \in Nat
          BY <1>5, <2>2, TargetType DEF Vector
        <5>2. v \in [1..Width -> [K : Int, C : Int]]
          BY <1>5, <2>2, TargetType DEF Vector
        <5>. QED  BY <5>1, <5>2
      <4>2. wire[c] = <<Length(Width), Data(v)>>
        BY <3>2, <4>1 DEF UpMessages
      <4>. QED  BY <1>2, <2>2, <4>2
    <3>. QED  BY <1>1, <2>2, <3>1, <3>2 DEF WireInv
  <2>. QED  BY <1>4, <2>1, <2>2
<1>. QED  BY <1>6, <1>7, <1>8

(* A node adds what its children have sent, and sends the sum or, at the   *)
(* root, goes on to report.                                                *)
LEMMA AscendStep ==
  ASSUME IInv, NEW n \in Node, AscendingKSPhase(n)
  PROVE  IInv'
<1>. USE DEF IInv
<1>1. /\ pc[n] = "ascend" /\ (IsLeaf(n) \/ AllChildrenSent(n))
      /\ UNCHANGED <<start, down, lengths, datas, feedback>>
  BY DEF AscendingKSPhase
<1>2. ~ (~ IsLeaf(n) /\ contribution[n] = Nil)
  BY <1>1, ReadyToSend
<1>. DEFINE sum == IF IsLeaf(n) THEN contribution[n] ELSE <<Collected(n)>>
<1>3. /\ sum = Nil => n = Root /\ IsLeaf(n) /\ start = "contribute"
      /\ sum # Nil => Removed(sum[1], Below[n])
      /\ sum \in {Nil} \cup {<<v>> : v \in Vector}
  <2>1. CASE IsLeaf(n)
    BY <1>1, <2>1, ReadyToSend DEF TypeInv
  <2>2. CASE ~ IsLeaf(n)
    <3>1. Collected(n) \in Vector /\ Removed(Collected(n), Below[n])
      BY <1>1, <2>2, ReadyToSend
    <3>. QED  BY <2>2, <3>1 DEF Nil
  <2>. QED  BY <2>1, <2>2
<1>4. /\ contribution' = [contribution EXCEPT ![n] = sum]
      /\ IF n = Root THEN pc' = [pc EXCEPT ![n] = "report"] /\ UNCHANGED wire
         ELSE SendUp(n, contribution'[n][1])
  <2>1. contribution' = IF IsLeaf(n) THEN contribution
                        ELSE [contribution EXCEPT ![n] = <<Collected(n)>>]
    BY <1>2 DEF AscendingKSPhase
  <2>2. contribution = [contribution EXCEPT ![n] = contribution[n]]
    BY DEF TypeInv
  <2>. QED  BY <1>2, <2>1, <2>2 DEF AscendingKSPhase
<1>. HIDE DEF sum
<1>5. /\ contribution'[n] = sum
      /\ \A d \in Node \ {n} : contribution'[d] = contribution[d]
      /\ contribution' \in [Node -> {Nil} \cup {<<v>> : v \in Vector}]
  BY <1>3, <1>4 DEF TypeInv
<1>6. /\ pc' \in [Node -> {"announcement", "ascend", "report", "done", "failed", "panicked"}]
      /\ \A d \in Node \ {n} : pc'[d] = pc[d]
      /\ n = Root => pc'[n] = "report"
      /\ n # Root => pc'[n] \in {"done", "failed"}
  BY <1>4 DEF TypeInv, SendUp
<1>7. /\ \A d \in Node \ {n} : wire'[d] = wire[d]
      /\ wire' \in [Node -> Seq(Message)]
      /\ n # Root /\ pc'[n] = "done" => wire'[n] = UpMessages(contribution'[n][1])
      /\ n # Root /\ pc'[n] = "failed" => wire'[n] \in {<<>>, <<Length(Width)>>}
  <2>1. CASE n = Root
    BY <1>4, <2>1 DEF TypeInv
  <2>2. CASE n # Root
    <3>. DEFINE v == contribution'[n][1]
    <3>1. v \in Vector
      BY <1>3, <1>5, <2>2
    <3>2. Len(v) = Width
      <4>1. Width \in Nat /\ v \in [1..Width -> [K : Int, C : Int]]
        BY <3>1, TargetType DEF Vector
      <4>. QED  BY <4>1
    <3>3. /\ UpMessages(v) = <<Length(Width), Data(v)>>
          /\ Length(Width) \in Message /\ Data(v) \in Message
      BY <3>1, <3>2 DEF UpMessages, Message
    <3>4. /\ SubSeq(UpMessages(v), 1, 0) = <<>>
          /\ SubSeq(UpMessages(v), 1, 1) = <<Length(Width)>>
      <4>. DEFINE first == SubSeq(UpMessages(v), 1, 1)
      <4>1. \A i \in 1..1 : UpMessages(v)[i] \in {Length(Width)}
        BY <3>3
      <4>2. /\ first \in Seq({Length(Width)})
            /\ Len(first) = IF 1 <= 1 THEN 1 - 1 + 1 ELSE 0
        BY <4>1, SubSeqProperties
      <4>. HIDE DEF first
      <4>3. first = <<Length(Width)>>
        BY <4>2
      <4>. QED  BY <4>3, SubSeqEmpty DEF first
    <3>. HIDE DEF v
    <3>5. \/ wire' = [wire EXCEPT ![n] = UpMessages(v)] /\ pc'[n] = "done"
          \/ wire' = [wire EXCEPT ![n] = <<>>] /\ pc'[n] = "failed"
          \/ wire' = [wire EXCEPT ![n] = <<Length(Width)>>] /\ pc'[n] = "failed"
      BY <1>4, <2>2, <3>4 DEF SendUp, TypeInv, v
    <3>6. {UpMessages(v), <<>>, <<Length(Width)>>} \subseteq Seq(Message)
      BY <3>3
    <3>. QED  BY <2>2, <3>5, <3>6 DEF TypeInv, v
  <2>. QED  BY <2>1, <2>2
<1>8. TypeInv'
  BY <1>1, <1>5, <1>6, <1>7 DEF TypeInv
<1>9. QuietInv' /\ SwitchKeepsPlaintext'
  BY <1>1, <1>6 DEF QuietInv, SwitchKeepsPlaintext
<1>10. ContributionInv'
  <2>1. n # Root => sum # Nil
    BY <1>3
  <2>2. n = Root => (start # "contribute" => sum # Nil) /\ (start = "contribute" => IsLeaf(Root))
    <3>1. n = Root /\ start = "contribute" => IsLeaf(Root)
      BY <1>2 DEF ContributionInv
    <3>. QED  BY <1>3, <3>1
  <2>3. n = Root /\ start = "contribute" => sum = Nil
    BY <2>2 DEF ContributionInv, sum
  <2>4. Root \in Node
    BY TreeAssumption
  <2>5. /\ start' = "contribute" => contribution'[Root] = Nil
        /\ start' = "contribute" /\ pc'[Root] # "ascend" => IsLeaf(Root)
        /\ start' # "contribute" => contribution'[Root] # Nil
    BY <1>1, <1>5, <1>6, <2>2, <2>3, <2>4 DEF ContributionInv
  <2>6. ASSUME NEW d \in Node
        PROVE  /\ pc'[d] = "ascend" /\ (d = Root => start' # "contribute") =>
                    contribution'[d] # Nil /\ Removed(contribution'[d][1], {d})
               /\ pc'[d] = "done" /\ d # Root => contribution'[d] # Nil
    BY <1>1, <1>5, <1>6, <2>1 DEF ContributionInv
  <2>. QED  BY <2>5, <2>6 DEF ContributionInv, Removed
<1>11. WireInv'
  BY <1>5, <1>6, <1>7 DEF WireInv
<1>12. DataInv'
  BY <1>1, <1>5, <1>6, <1>7, DataKept DEF Delivered
<1>13. SubtreeSharesRemoved'
  <2>1. contribution'[n] # Nil => Removed(contribution'[n][1], Below[n])
    BY <1>3, <1>5
  <2>. QED  BY <1>5, <1>6, <2>1 DEF SubtreeSharesRemoved, Removed
<1>. QED  BY <1>8, <1>9, <1>10, <1>11, <1>12, <1>13

(* The right halves of the target are added to the total.                  *)
LEMMA ReportStep ==
  ASSUME IInv, ReportResult
  PROVE  IInv'
<1>. USE TreeAssumption DEF IInv
<1>1. /\ pc[Root] = "report"
      /\ UNCHANGED <<start, down, wire, lengths, datas, contribution>>
  BY DEF ReportResult
<1>. DEFINE result == [i \in DOMAIN Target |->
                        [K |-> contribution[Root][1][i].K,
                         C |-> contribution[Root][1][i].C + Target[i].C]]
<1>2. \/ pc' = [pc EXCEPT ![Root] = "panicked"] /\ UNCHANGED feedback
      \/ /\ pc' = [pc EXCEPT ![Root] = "done"] /\ feedback' = feedback \cup {result}
         /\ contribution[Root] # Nil \/ Target = <<>>
  BY DEF ReportResult
<1>3. /\ pc'[Root] \in {"panicked", "done"} /\ \A d \in Node \ {Root} : pc'[d] = pc[d]
      /\ pc' \in [Node -> {"announcement", "ascend", "report", "done", "failed", "panicked"}]
  <2>1. PICK x \in {"panicked", "done"} : pc' = [pc EXCEPT ![Root] = x]
    BY <1>2
  <2>. QED  BY <2>1 DEF TypeInv
<1>4. ASSUME contribution[Root] # Nil \/ Target = <<>>, NEW i \in DOMAIN Target
      PROVE  /\ result[i] \in [K : Int, C : Int]
             /\ DecryptNew(result[i]) = DecryptCollective(Target[i])
  <2>1. contribution[Root] # Nil
    BY <1>4
  <2>2. contribution[Root][1] \in Vector
    BY <2>1 DEF TypeInv
  <2>3. /\ contribution[Root][1][i].K \in Int /\ contribution[Root][1][i].C \in Int
        /\ Target[i].K \in Int /\ Target[i].C \in Int
        /\ NewPriv \in Int /\ KeySum[Node] \in Int
    BY <2>2, TargetType, KeySumType, DataAssumption DEF Vector
  <2>4. DecryptNew(contribution[Root][1][i]) = - KeySum[Node] * Target[i].K
    BY <1>1, <2>1, BelowAssumption DEF SubtreeSharesRemoved
  <2>5. \A a, b, c, d, p, q \in Int : a - p * b = - q * d => (a + c) - p * b = c - q * d
    OBVIOUS
  <2>6. /\ result[i].K = contribution[Root][1][i].K
        /\ result[i].C = contribution[Root][1][i].C + Target[i].C
        /\ result[i] \in [K : Int, C : Int]
    BY <2>3
  <2>. HIDE DEF result
  <2>7. contribution[Root][1][i].C - NewPriv * contribution[Root][1][i].K
          = - KeySum[Node] * Target[i].K
    BY <2>4 DEF DecryptNew
  <2>8. (contribution[Root][1][i].C + Target[i].C) - NewPriv * contribution[Root][1][i].K
          = Target[i].C - KeySum[Node] * Target[i].K
    <3>. DEFINE a == contribution[Root][1][i].C
                b == contribution[Root][1][i].K
                c == Target[i].C
                d == Target[i].K
                q == KeySum[Node]
    <3>1. a \in Int /\ b \in Int /\ c \in Int /\ d \in Int /\ q \in Int /\ NewPriv \in Int
      BY <2>3
    <3>2. a - NewPriv * b = - q * d
      BY <2>7
    <3>. HIDE DEF a, b, c, d, q
    <3>3. (a + c) - NewPriv * b = c - q * d
      BY <2>5, <3>1, <3>2
    <3>. QED  BY <3>3 DEF a, b, c, d, q
  <2>. QED  BY <2>6, <2>8 DEF DecryptNew, DecryptCollective
<1>5. contribution[Root] # Nil \/ Target = <<>> => result \in Vector
  BY <1>4 DEF Vector
<1>. HIDE DEF result
<1>6. TypeInv'
  BY <1>1, <1>2, <1>3, <1>5 DEF TypeInv
<1>7. SwitchKeepsPlaintext'
  BY <1>2, <1>4 DEF SwitchKeepsPlaintext
<1>8. QuietInv' /\ WireInv'
  BY <1>1, <1>3 DEF QuietInv, WireInv
<1>9. ContributionInv'
  BY <1>1, <1>3 DEF ContributionInv
<1>10. DataInv'
  BY <1>1, <1>3, DataKept DEF Delivered
<1>11. SubtreeSharesRemoved'
  BY <1>1, <1>3 DEF SubtreeSharesRemoved
<1>. QED  BY <1>6, <1>7, <1>8, <1>9, <1>10, <1>11

LEMMA StepInv == IInv /\ [Next]_vars => IInv'
<1>. SUFFICES ASSUME IInv, [Next]_vars
              PROVE  IInv'
  OBVIOUS
<1>1. CASE Next
  BY <1>1, StartContributionStep, AnnouncementSent, ReportStep, AnnouncementStep,
     AnnouncementTimeoutStep, DeliverStep, AscendStep DEF Next, Step
<1>2. CASE UNCHANGED vars
  <2>. USE <1>2 DEF vars, IInv
  <2>1. TypeInv' /\ QuietInv' /\ WireInv'
    BY DEF TypeInv, QuietInv, WireInv
  <2>2. ContributionInv'
    BY DEF ContributionInv, Removed
  <2>3. DataInv'
    BY DataKept DEF Delivered
  <2>4. SubtreeSharesRemoved' /\ SwitchKeepsPlaintext'
    BY DEF SubtreeSharesRemoved, SwitchKeepsPlaintext
  <2>. QED  BY <2>1, <2>2, <2>3, <2>4
<1>. QED  BY <1>1, <1>2

THEOREM Invariance == Spec => []IInv
BY InitInv, StepInv, PTL DEF Spec

-----------------------------------------------------------------------------
(* For every tree, keys, scalars and vector: the result that the root      *)
(* reports decrypts under the new key to what the target decrypts to under *)
(* the collective key.                                                     *)
THEOREM SwitchCorrect == Spec => []SwitchKeepsPlaintext
BY Invariance, PTL DEF IInv

(* What a node sends up has removed the shares of exactly its subtree.     *)
THEOREM SubtreesCorrect == Spec => []SubtreeSharesRemoved
BY Invariance, PTL DEF IInv

(* The root's Dispatch does not use NodeContribution before its Start has  *)
(* set it, if the root has a child to wait for.                            *)
THEOREM ContributionSet ==
  ASSUME Children(Root) # {}
  PROVE  Spec => []ContributionSetBeforeUse
<1>. DEFINE Calm == pc[Root] # "panicked"
<1>1. ASSUME IInv, pc[Root] # "ascend"
      PROVE  contribution[Root] # Nil
  BY <1>1 DEF IInv, ContributionInv, IsLeaf
<1>2. Init => Calm
  BY TreeAssumption DEF Init
<1>3. IInv /\ Calm /\ [Next]_vars => Calm'
  <2>. SUFFICES ASSUME IInv, Calm, [Next]_vars
                PROVE  Calm'
    OBVIOUS
  <2>. USE TreeAssumption DEF IInv, TypeInv
  <2>1. ASSUME NEW n \in Node, AnnouncementKSPhase(n) \/ AnnouncementTimeout(n)
        PROVE  Calm'
    BY <2>1 DEF AnnouncementKSPhase, AnnouncementTimeout
  <2>2. ASSUME NEW n \in Node, AscendingKSPhase(n)
        PROVE  Calm'
    <3>1. ~ (~ IsLeaf(n) /\ contribution[n] = Nil)
      BY <2>2, ReadyToSend DEF AscendingKSPhase
    <3>. QED  BY <2>2, <3>1 DEF AscendingKSPhase, SendUp
  <2>3. ASSUME ReportResult
        PROVE  Calm'
    BY <1>1, <2>3 DEF ReportResult
  <2>4. CASE StartContribution \/ StartAnnouncement \/ \E n \in Node : Deliver(n)
    BY <2>4 DEF StartContribution, StartAnnouncement, Deliver
  <2>5. CASE UNCHANGED vars
    BY <2>5 DEF vars
  <2>. QED  BY <2>1, <2>2, <2>3, <2>4, <2>5 DEF Next, Step
<1>4. IInv /\ Calm => ContributionSetBeforeUse
  BY <1>1 DEF ContributionSetBeforeUse
<1>. HIDE DEF Calm
<1>. QED  BY <1>2, <1>3, <1>4, Invariance, PTL DEF Spec
=============================================================================
