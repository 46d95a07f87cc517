---------------------- MODULE CollectiveAggregationProofs ----------------------
(***************************************************************************)
(* Theorems about CollectiveAggregation for every tree and everything its  *)
(* nodes may be given, with and without timeouts.                          *)
(***************************************************************************)
EXTENDS CollectiveAggregation, FiniteSetTheorems, SequenceTheorems,
        WellFoundedInduction, TLAPS

(* A sequence, whatever its elements are.                                  *)
IsList(s) == \E k \in Nat : s = [i \in 1..k |-> s[i]]

(* A node that has sent its sum, and whose messages have arrived.          *)
Delivered(c) == pc[c] = "done" /\ wire[c] = <<>>

(* The sum over S of what the nodes were given at one position.            *)
Total(k, i, S) == MapThenSumSet(LAMBDA n : GivenAt(n, k, i), S)

KeysOf(S) == UNION {DOMAIN OwnData(n) : n \in S}
LengthsOf(k, S) == {Len(OwnData(n)[k]) : n \in {m \in S : k \in DOMAIN OwnData(m)}}

(* The groups of every leaf below the root.                                *)
Common(k) == \A n \in Node \ {Root} : IsLeaf(n) => k \in DOMAIN OwnData(n)

(* All vectors have w entries, and no leaf is without groups.  Between the *)
(* root and the leaves a vector may be shorter if all leaves have its      *)
(* group; nothing is asked of the root.                                    *)
OfWidth(w) ==
  \A n \in Node \ {Root} :
    HasData(n) =>
      /\ IsLeaf(n) => DOMAIN OwnData(n) # {}
      /\ \A k \in DOMAIN OwnData(n) :
           \/ Len(OwnData(n)[k]) = w
           \/ (~ IsLeaf(n) /\ Common(k) /\ Len(OwnData(n)[k]) <= w)
OneWidth == \E w \in Nat \ {0} : OfWidth(w)

(* What a node other than the root sends: every vector has w entries.      *)
Full(f, w) ==
  /\ DOMAIN f # {} /\ \A k : Common(k) => k \in DOMAIN f
  /\ \A k \in DOMAIN f : Len(f[k]) = w
(* What it has before it adds the first of its children's data.            *)
Partial(f, w) ==
  \A k \in DOMAIN f : Len(f[k]) = w \/ (Common(k) /\ Len(f[k]) <= w)

TypeInv ==
  /\ input \in Inputs
  /\ pc \in [Node -> {"check", "announcement", "ascend", "report", "done", "failed"}]
  /\ trigger \subseteq Node \ {Root}
  /\ wire = [n \in Node |-> wire[n]]
  /\ lengths = [n \in Node |-> lengths[n]]
  /\ datas = [n \in Node |-> datas[n]]
  /\ grouped = [n \in Node |-> grouped[n]]
  /\ \A n \in Node : IsList(lengths[n]) /\ IsList(datas[n])

(* What a node has under way to its parent.                                *)
WireInv ==
  \A c \in Node \ {Root} :
    /\ pc[c] # "report"
    /\ pc[c] # "done" => wire[c] = <<>>
    /\ pc[c] = "done" =>
         wire[c] \in {<<>>, <<Data(grouped[c])>>, Messages(grouped[c])}

(* The lengths that have arrived at a node are those of children, and the  *)
(* data comes from different children, each of which has delivered all.    *)
LengthInv ==
  \A n \in Node : \A i \in DOMAIN lengths[n] :
    \E c \in Children(n) : pc[c] = "done" /\ lengths[n][i] = Width(grouped[c])

IsSource(n, source) ==
  /\ source \in [DOMAIN datas[n] -> Children(n)]
  /\ \A i, j \in DOMAIN datas[n] : source[i] = source[j] => i = j
  /\ \A i \in DOMAIN datas[n] :
       Delivered(source[i]) /\ datas[n][i] = grouped[source[i]]

DataInv ==
  \A n \in Node : \E source \in [DOMAIN datas[n] -> Children(n)] : IsSource(n, source)

OwnInv ==
  \A n \in Node :
    /\ pc[n] \in {"announcement", "ascend"} => HasData(n) /\ grouped[n] = OwnData(n)
    /\ pc[n] \in {"report", "done"} => \A m \in Below[n] : HasData(m)

(* A node that has sent or reports has the sum over its subtree.           *)
SumInv ==
  \A w \in Nat \ {0} : \A n \in Node :
    OfWidth(w) /\ pc[n] \in {"report", "done"} =>
      /\ grouped[n] = SumOver(Below[n])
      /\ n # Root => Full(grouped[n], w)

FeedbackInv ==
  \A result \in feedback : pc[Root] = "done" /\ result = grouped[Root]

IInv ==
  /\ TypeInv /\ WireInv /\ LengthInv /\ DataInv /\ OwnInv /\ SumInv /\ FeedbackInv
  /\ NothingLeftBehind

-----------------------------------------------------------------------------
(* Induction over finite sets and over an interval of numbers, for sets    *)
(* given as values.                                                        *)
LEMMA FiniteInduct ==
  ASSUME NEW S, IsFiniteSet(S), NEW T, {} \in T,
         \A X \in SUBSET S : \A x \in S \ X : X \in T => X \cup {x} \in T
  PROVE  S \in T
<1>. DEFINE U == {X \in SUBSET S : X \notin T}
<1>1. SUFFICES ASSUME S \notin T
               PROVE  FALSE
  OBVIOUS
<1>2. S \in U
  BY <1>1
<1>3. U \subseteq FiniteSubsetsOf(S)
  BY FS_Subset DEF FiniteSubsetsOf
<1>4. PICK X \in U : \A Y \in U : ~ (<<Y, X>> \in StrictSubsetOrdering(S))
  <2>. HIDE DEF U
  <2>1. IsWellFoundedOn(StrictSubsetOrdering(S), FiniteSubsetsOf(S))
    BY FS_StrictSubsetOrderingWellFounded
  <2>. QED  BY <1>2, <1>3, <2>1, WFMin, Zenon
<1>5. PICK x \in X : TRUE
  OBVIOUS
<1>. DEFINE Y == X \ {x}
<1>6. Y \in SUBSET S /\ x \in S \ Y /\ X = Y \cup {x}
  BY <1>5
<1>7. Y \notin T
  BY <1>6
<1>8. <<Y, X>> \in StrictSubsetOrdering(S)
  BY <1>5, <1>6 DEF StrictSubsetOrdering
<1>. QED  BY <1>4, <1>6, <1>7, <1>8

LEMMA BoundedInduct ==
  ASSUME NEW k \in Nat, NEW T, 0 \in T,
         \A i \in 0..k : i \in T /\ i < k => i + 1 \in T
  PROVE  k \in T
<1>. DEFINE U == {S \in SUBSET (1..k) : (0..Cardinality(S)) \cap (0..k) \subseteq T}
<1>1. IsFiniteSet(1..k) /\ Cardinality(1..k) = k
  BY FS_Interval
<1>2. {} \in U
  BY FS_EmptySet
<1>3. ASSUME NEW X \in SUBSET (1..k), NEW x \in (1..k) \ X, X \in U
      PROVE  X \cup {x} \in U
  <2>1. /\ IsFiniteSet(X) /\ Cardinality(X) \in Nat
        /\ Cardinality(X \cup {x}) = Cardinality(X) + 1
    BY <1>1, FS_Subset, FS_AddElement, FS_CardinalityType
  <2>2. ASSUME NEW i \in (0..Cardinality(X) + 1) \cap (0..k)
        PROVE  i \in T
    <3>1. CASE i <= Cardinality(X)
      BY <1>3, <2>1, <3>1
    <3>2. CASE i = Cardinality(X) + 1
      <4>1. i - 1 \in (0..Cardinality(X)) \cap (0..k) /\ i - 1 < k
        BY <2>1, <3>2
      <4>2. i - 1 \in T
        BY <1>3, <4>1
      <4>. QED  BY <4>1, <4>2
    <3>. QED  BY <2>1, <3>1, <3>2
  <2>. QED  BY <2>1, <2>2
<1>. HIDE DEF U
<1>4. 1..k \in U
  BY <1>1, <1>2, <1>3, FiniteInduct
<1>. QED  BY <1>1, <1>4 DEF U

-----------------------------------------------------------------------------
(* Sequences and maxima.                                                   *)
LEMMA ListFacts ==
  ASSUME NEW s, IsList(s), NEW x
  PROVE  /\ Len(s) \in Nat /\ DOMAIN s = 1..Len(s)
         /\ IsList(Append(s, x)) /\ DOMAIN Append(s, x) = 1..(Len(s) + 1)
         /\ Append(s, x)[Len(s) + 1] = x
         /\ \A i \in 1..Len(s) : Append(s, x)[i] = s[i]
<1>1. PICK k \in Nat : s = [i \in 1..k |-> s[i]]
  BY DEF IsList
<1>. DEFINE D == {s[i] : i \in 1..k} \cup {x}
<1>2. s \in Seq(D)
  <2>1. s \in [1..k -> D]
    BY <1>1
  <2>. QED  BY <2>1
<1>3. x \in D
  OBVIOUS
<1>. HIDE DEF D
<1>4. Append(s, x) \in Seq(D) /\ Len(Append(s, x)) = Len(s) + 1
  BY <1>2, <1>3
<1>5. IsList(Append(s, x))
  <2>. DEFINE t == Append(s, x)
  <2>0. t \in Seq(D)
    BY <1>4
  <2>. HIDE DEF t
  <2>1. Len(t) \in Nat /\ t = [i \in 1..Len(t) |-> t[i]]
    BY <2>0
  <2>2. IsList(t)
    BY <2>1 DEF IsList
  <2>. QED  BY <2>2 DEF t
<1>. QED  BY <1>2, <1>3, <1>4, <1>5

LEMMA EmptyList == IsList(<<>>) /\ DOMAIN <<>> = {}
BY DEF IsList

LEMMA MaxFacts ==
  ASSUME NEW S \in SUBSET Nat, IsFiniteSet(S), S # {}
  PROVE  Max(S) \in S /\ \A y \in S : Max(S) >= y
<1>. DEFINE T == {X \in SUBSET S : X # {} => \E x \in X : \A y \in X : x >= y}
<1>1. {} \in T
  OBVIOUS
<1>2. ASSUME NEW X \in SUBSET S, NEW z \in S \ X, X \in T
      PROVE  X \cup {z} \in T
  <2>1. CASE X = {}
    BY <2>1
  <2>2. CASE X # {}
    <3>1. PICK x \in X : \A y \in X : x >= y
      BY <1>2, <2>2
    <3>2. CASE x >= z
      BY <3>1, <3>2
    <3>3. CASE z >= x
      <4>1. \A y \in X \cup {z} : z >= y
        BY <3>1, <3>3
      <4>. QED  BY <4>1
    <3>. QED  BY <3>1, <3>2, <3>3
  <2>. QED  BY <2>1, <2>2
<1>. HIDE DEF T
<1>3. S \in T
  BY <1>1, <1>2, FiniteInduct
<1>4. \E x \in S : \A y \in S : x >= y
  BY <1>3 DEF T
<1>. QED  BY <1>4 DEF Max

-----------------------------------------------------------------------------

(* Sums of integers over finite sets: there is a function that has them,   *)
(* and folding over a set computes it, whatever the order.                 *)
IsSum(f, v, S) ==
  /\ f \in [SUBSET S -> Int] /\ f[{}] = 0
  /\ \A X \in SUBSET S : \A x \in S \ X : f[X \cup {x}] = f[X] + v[x]

LEMMA SumExists ==
  ASSUME NEW S, IsFiniteSet(S), NEW v \in [S -> Int]
  PROVE  \E f : IsSum(f, v, S)
<1>. DEFINE T == {R \in SUBSET S : \E f : IsSum(f, v, R)}
<1>1. {} \in T
  <2>. DEFINE f == [X \in SUBSET {} |-> 0]
  <2>1. IsSum(f, v, {})
    BY DEF IsSum
  <2>. HIDE DEF f
  <2>2. \E g : IsSum(g, v, {})
    BY <2>1
  <2>. QED  BY <2>2
<1>2. ASSUME NEW R \in SUBSET S, NEW x \in S \ R, R \in T
      PROVE  R \cup {x} \in T
  <2>1. PICK f : IsSum(f, v, R)
    BY <1>2
  <2>. DEFINE Q == R \cup {x}
              g == [X \in SUBSET Q |-> IF x \in X THEN f[X \ {x}] + v[x] ELSE f[X]]
  <2>2. f \in [SUBSET R -> Int] /\ f[{}] = 0 /\ v[x] \in Int
    BY <2>1 DEF IsSum
  <2>3. ASSUME NEW X \in SUBSET Q
        PROVE  /\ X \ {x} \in SUBSET R /\ (x \notin X => X \in SUBSET R)
               /\ g[X] \in Int
    BY <2>2
  <2>4. g \in [SUBSET Q -> Int] /\ g[{}] = 0
    BY <2>2, <2>3
  <2>5. ASSUME NEW X \in SUBSET Q, NEW s \in Q \ X
        PROVE  g[X \cup {s}] = g[X] + v[s]
    <3>1. X \cup {s} \in SUBSET Q /\ v[s] \in Int
      OBVIOUS
    <3>2. CASE s = x
      <4>1. (X \cup {s}) \ {x} = X /\ x \in X \cup {s} /\ x \notin X
        BY <3>2
      <4>. QED  BY <3>1, <3>2, <4>1
    <3>3. CASE s # x /\ x \in X
      <4>1. /\ (X \cup {s}) \ {x} = (X \ {x}) \cup {s} /\ x \in X \cup {s}
            /\ X \ {x} \in SUBSET R /\ s \in R \ (X \ {x})
        BY <3>3
      <4>2. f[(X \ {x}) \cup {s}] = f[X \ {x}] + v[s]
        BY <2>1, <4>1 DEF IsSum
      <4>3. f[X \ {x}] \in Int
        BY <2>2, <4>1
      <4>4. g[X \cup {s}] = f[(X \ {x}) \cup {s}] + v[x] /\ g[X] = f[X \ {x}] + v[x]
        BY <3>1, <3>3, <4>1
      <4>. QED  BY <2>2, <3>1, <4>2, <4>3, <4>4
    <3>4. CASE s # x /\ x \notin X
      <4>1. X \in SUBSET R /\ s \in R \ X /\ x \notin X \cup {s}
        BY <3>4
      <4>2. f[X \cup {s}] = f[X] + v[s]
        BY <2>1, <4>1 DEF IsSum
      <4>. QED  BY <3>1, <4>1, <4>2
    <3>. QED  BY <3>2, <3>3, <3>4
  <2>. HIDE DEF g
  <2>6. IsSum(g, v, Q)
    BY <2>4, <2>5 DEF IsSum
  <2>7. \E h : IsSum(h, v, Q)
    BY <2>6
  <2>. QED  BY <2>7
<1>. HIDE DEF T
<1>3. S \in T
  BY <1>1, <1>2, FiniteInduct
<1>. QED  BY <1>3 DEF T

LEMMA SumUnion ==
  ASSUME NEW S, NEW v \in [S -> Int], NEW f, IsSum(f, v, S),
         NEW A \in SUBSET S, NEW B \in SUBSET S, IsFiniteSet(B), A \cap B = {}
  PROVE  f[A \cup B] = f[A] + f[B]
<1>. DEFINE T == {X \in SUBSET B : f[A \cup X] = f[A] + f[X]}
<1>0. \A X \in SUBSET S : f[X] \in Int
  BY DEF IsSum
<1>1. {} \in T
  <2>1. A \cup {} = A /\ f[{}] = 0
    BY DEF IsSum
  <2>. QED  BY <1>0, <2>1
<1>2. ASSUME NEW X \in SUBSET B, NEW x \in B \ X, X \in T
      PROVE  X \cup {x} \in T
  <2>1. /\ x \in S \ (A \cup X) /\ A \cup X \in SUBSET S /\ X \in SUBSET S /\ x \in S \ X
        /\ A \cup (X \cup {x}) = (A \cup X) \cup {x}
    OBVIOUS
  <2>2. /\ f[A \cup (X \cup {x})] = f[A \cup X] + v[x]
        /\ f[X \cup {x}] = f[X] + v[x]
    BY <2>1 DEF IsSum
  <2>3. f[A] \in Int /\ f[X] \in Int /\ v[x] \in Int /\ f[A \cup X] = f[A] + f[X]
    BY <1>0, <1>2, <2>1
  <2>4. f[A \cup (X \cup {x})] = f[A] + f[X \cup {x}]
    BY <2>1, <2>2, <2>3
  <2>. QED  BY <2>1, <2>4
<1>. HIDE DEF T
<1>3. B \in T
  BY <1>1, <1>2, FiniteInduct
<1>. QED  BY <1>3 DEF T

-----------------------------------------------------------------------------
(* What the nodes are given.                                               *)
LEMMA OwnType ==
  ASSUME input \in Inputs, NEW n \in Node, HasData(n)
  PROVE  /\ OwnData(n) = [k \in DOMAIN OwnData(n) |-> OwnData(n)[k]]
         /\ \A k \in DOMAIN OwnData(n) : OwnData(n)[k] \in Seq(Int)
<1>1. CASE n \in DOMAIN input.Grouped
  <2>1. input.Grouped[n] \in [DOMAIN input.Grouped[n] -> Seq(Int)]
    BY <1>1, DataAssumption
  <2>. QED  BY <1>1, <2>1 DEF OwnData
<1>2. CASE n \notin DOMAIN input.Grouped
  <2>1. input.Simple[n] \in Seq(Int)
    BY <1>2, DataAssumption DEF HasData
  <2>. QED  BY <1>2, <2>1 DEF OwnData, NoGroup
<1>. QED  BY <1>1, <1>2

LEMMA EntryType ==
  ASSUME NEW v \in Seq(Int), NEW i
  PROVE  Entry(v, i) \in Int
BY DEF Entry

LEMMA GivenType ==
  ASSUME input \in Inputs, NEW n \in Node, NEW k, NEW i
  PROVE  GivenAt(n, k, i) \in Int
BY OwnType, EntryType DEF GivenAt

(* Total, which folds over the nodes in some order, is a sum.              *)
LEMMA TotalIsSum ==
  ASSUME input \in Inputs, NEW k, NEW i, NEW S \in SUBSET Node,
         NEW f, IsSum(f, [n \in Node |-> GivenAt(n, k, i)], Node)
  PROVE  Total(k, i, S) = f[S]
<1>. DEFINE v == [n \in Node |-> GivenAt(n, k, i)]
            Given(n) == GivenAt(n, k, i)
            First(X) == CHOOSE x \in X : TRUE
            Folds(g) == g = [X \in SUBSET S |->
                              IF X = {} THEN 0 ELSE Given(First(X)) + g[X \ {First(X)}]]
<1>1. ASSUME NEW X \in SUBSET S, X # {}
      PROVE  /\ First(X) \in X /\ X \ {First(X)} \in SUBSET S
             /\ f[X] = Given(First(X)) + f[X \ {First(X)}]
  <2>1. First(X) \in X
    BY <1>1
  <2>. DEFINE x == First(X)
              Y == X \ {x}
  <2>. HIDE DEF First
  <2>2. x \in Node \ Y /\ Y \in SUBSET Node /\ Y \cup {x} = X /\ Y \in SUBSET S
    BY <2>1
  <2>3. f[X] = f[Y] + v[x]
    BY <2>2 DEF IsSum
  <2>4. f[Y] \in Int
    BY <2>2 DEF IsSum
  <2>5. v[x] = Given(x) /\ Given(x) \in Int
    BY <2>2, GivenType
  <2>. HIDE DEF v, Given
  <2>. QED  BY <2>1, <2>2, <2>3, <2>4, <2>5
<1>2. \E g : Folds(g)
  <2>. DEFINE h == [X \in SUBSET S |-> f[X]]
  <2>. HIDE DEF Given, First
  <2>1. ASSUME NEW X \in SUBSET S
        PROVE  h[X] = IF X = {} THEN 0 ELSE Given(First(X)) + h[X \ {First(X)}]
    <3>1. CASE X = {}
      BY <3>1 DEF IsSum
    <3>2. CASE X # {}
      BY <1>1, <3>2
    <3>. QED  BY <3>1, <3>2
  <2>2. h = [X \in SUBSET S |-> h[X]]
    OBVIOUS
  <2>. HIDE DEF h
  <2>3. h = [X \in SUBSET S |->
              IF X = {} THEN 0 ELSE Given(First(X)) + h[X \ {First(X)}]]
    BY <2>1, <2>2
  <2>. QED  BY <2>3
<1>3. ASSUME NEW g, Folds(g)
      PROVE  g[S] = f[S]
  <2>. DEFINE U == {X \in SUBSET S : g[X] # f[X]}
  <2>1. SUFFICES ASSUME S \in U
                 PROVE  FALSE
    OBVIOUS
  <2>2. U \subseteq FiniteSubsetsOf(S)
    BY TreeAssumption, FS_Subset DEF FiniteSubsetsOf
  <2>3. PICK X \in U : \A Y \in U : ~ (<<Y, X>> \in StrictSubsetOrdering(S))
    <3>. HIDE DEF U
    <3>1. IsWellFoundedOn(StrictSubsetOrdering(S), FiniteSubsetsOf(S))
      BY TreeAssumption, FS_Subset, FS_StrictSubsetOrderingWellFounded
    <3>. QED  BY <2>1, <2>2, <3>1, WFMin, Zenon
  <2>4. CASE X = {}
    <3>1. g[X] = 0 /\ f[X] = 0
      BY <1>3, <2>4 DEF IsSum
    <3>. QED  BY <3>1
  <2>5. CASE X # {}
    <3>. DEFINE Y == X \ {First(X)}
    <3>1. First(X) \in X /\ Y \in SUBSET S /\ f[X] = Given(First(X)) + f[Y]
      BY <1>1, <2>5
    <3>. HIDE DEF First, Given
    <3>2. g[X] = Given(First(X)) + g[Y]
      BY <1>3, <2>5
    <3>3. <<Y, X>> \in StrictSubsetOrdering(S)
      BY <3>1 DEF StrictSubsetOrdering
    <3>4. g[Y] = f[Y]
      BY <2>3, <3>1, <3>3
    <3>. QED  BY <3>1, <3>2, <3>4
  <2>. QED  BY <2>4, <2>5
<1>4. Total(k, i, S) = (CHOOSE g : Folds(g))[S]
  BY DEF Total, MapThenSumSet, MapThenFoldSet
<1>. HIDE DEF Folds
<1>. QED  BY <1>2, <1>3, <1>4

LEMMA TotalFunction ==
  ASSUME input \in Inputs, NEW k, NEW i
  PROVE  \E f : /\ IsSum(f, [n \in Node |-> GivenAt(n, k, i)], Node)
                /\ \A S \in SUBSET Node : Total(k, i, S) = f[S] /\ f[S] \in Int
<1>. DEFINE v == [n \in Node |-> GivenAt(n, k, i)]
<1>1. v \in [Node -> Int]
  BY GivenType
<1>. HIDE DEF v
<1>2. PICK f : IsSum(f, v, Node)
  BY <1>1, TreeAssumption, SumExists
<1>3. \A S \in SUBSET Node : Total(k, i, S) = f[S]
  BY <1>2, TotalIsSum DEF v
<1>4. \A S \in SUBSET Node : f[S] \in Int
  BY <1>2 DEF IsSum
<1>. QED  BY <1>2, <1>3, <1>4 DEF v

LEMMA TotalOne ==
  ASSUME input \in Inputs, NEW k, NEW i, NEW n \in Node
  PROVE  Total(k, i, {n}) = GivenAt(n, k, i)
<1>1. PICK f : /\ IsSum(f, [m \in Node |-> GivenAt(m, k, i)], Node)
               /\ \A S \in SUBSET Node : Total(k, i, S) = f[S] /\ f[S] \in Int
  BY TotalFunction
<1>2. {} \in SUBSET Node /\ n \in Node \ {} /\ {} \cup {n} = {n}
  OBVIOUS
<1>3. f[{} \cup {n}] = f[{}] + GivenAt(n, k, i) /\ f[{}] = 0
  BY <1>1, <1>2 DEF IsSum
<1>4. Total(k, i, {n}) = f[{n}]
  BY <1>1
<1>. QED  BY <1>2, <1>3, <1>4, GivenType

LEMMA TotalUnion ==
  ASSUME input \in Inputs, NEW k, NEW i,
         NEW A \in SUBSET Node, NEW B \in SUBSET Node, A \cap B = {}
  PROVE  /\ Total(k, i, A) \in Int /\ Total(k, i, B) \in Int
         /\ Total(k, i, A \cup B) = Total(k, i, A) + Total(k, i, B)
<1>. DEFINE v == [m \in Node |-> GivenAt(m, k, i)]
<1>1. v \in [Node -> Int]
  BY GivenType
<1>2. PICK f : /\ IsSum(f, v, Node)
               /\ \A S \in SUBSET Node : Total(k, i, S) = f[S] /\ f[S] \in Int
  BY TotalFunction
<1>. HIDE DEF v
<1>3. f[A \cup B] = f[A] + f[B]
  <2>1. IsFiniteSet(B)
    BY TreeAssumption, FS_Subset
  <2>. QED  BY <1>1, <1>2, <2>1, SumUnion
<1>4. A \cup B \in SUBSET Node
  OBVIOUS
<1>5. Total(k, i, A \cup B) = f[A \cup B]
  BY <1>2, <1>4
<1>. QED  BY <1>2, <1>3, <1>5

LEMMA TotalZero ==
  ASSUME input \in Inputs, NEW k, NEW i, NEW A \in SUBSET Node,
         \A n \in A : GivenAt(n, k, i) = 0
  PROVE  Total(k, i, A) = 0
<1>1. PICK f : /\ IsSum(f, [m \in Node |-> GivenAt(m, k, i)], Node)
               /\ \A S \in SUBSET Node : Total(k, i, S) = f[S] /\ f[S] \in Int
  BY TotalFunction
<1>. DEFINE T == {X \in SUBSET A : f[X] = 0}
<1>2. {} \in T
  BY <1>1 DEF IsSum
<1>3. ASSUME NEW X \in SUBSET A, NEW x \in A \ X, X \in T
      PROVE  X \cup {x} \in T
  <2>1. X \in SUBSET Node /\ x \in Node \ X
    OBVIOUS
  <2>2. f[X \cup {x}] = f[X] + GivenAt(x, k, i)
    BY <1>1, <2>1 DEF IsSum
  <2>. QED  BY <1>3, <2>2
<1>4. IsFiniteSet(A)
  BY TreeAssumption, FS_Subset
<1>. HIDE DEF T
<1>5. A \in T
  BY <1>2, <1>3, <1>4, FiniteInduct
<1>. QED  BY <1>1, <1>5 DEF T

(* The group k of the aggregate of the data of S: the length of its        *)
(* vector, and its entries.                                                *)
LEMMA SumOverDef ==
  ASSUME NEW S
  PROVE  SumOver(S) = [k \in KeysOf(S) |->
                        [i \in 1..Max(LengthsOf(k, S)) |-> Total(k, i, S)]]
BY DEF SumOver, Total, KeysOf, LengthsOf

LEMMA LengthFacts ==
  ASSUME input \in Inputs, NEW S \in SUBSET Node, \A n \in S : HasData(n),
         NEW k \in KeysOf(S)
  PROVE  /\ Max(LengthsOf(k, S)) \in LengthsOf(k, S)
         /\ LengthsOf(k, S) \subseteq Nat
         /\ \A y \in LengthsOf(k, S) : Max(LengthsOf(k, S)) >= y
<1>. DEFINE D == {m \in S : k \in DOMAIN OwnData(m)}
<1>1. \A m \in D : OwnData(m)[k] \in Seq(Int)
  BY OwnType
<1>2. LengthsOf(k, S) \subseteq Nat /\ LengthsOf(k, S) # {}
  <2>1. \A m \in D : Len(OwnData(m)[k]) \in Nat
    BY <1>1, LenProperties
  <2>2. D # {}
    BY DEF KeysOf
  <2>. QED  BY <2>1, <2>2 DEF LengthsOf
<1>3. IsFiniteSet(LengthsOf(k, S))
  <2>1. IsFiniteSet(D)
    BY TreeAssumption, FS_Subset
  <2>. DEFINE length == [m \in D |-> Len(OwnData(m)[k])]
  <2>2. length \in Surjection(D, LengthsOf(k, S))
    BY DEF Surjection, LengthsOf
  <2>. QED  BY <2>1, <2>2, FS_Surjection
<1>. QED  BY <1>2, <1>3, MaxFacts

LEMMA SumOverFacts ==
  ASSUME input \in Inputs, NEW S \in SUBSET Node, \A n \in S : HasData(n),
         NEW k \in KeysOf(S)
  PROVE  /\ SumOver(S)[k] = [i \in 1..Max(LengthsOf(k, S)) |-> Total(k, i, S)]
         /\ SumOver(S)[k] \in Seq(Int)
         /\ Len(SumOver(S)[k]) = Max(LengthsOf(k, S))
         /\ \A i \in Nat \ {0} : Entry(SumOver(S)[k], i) = Total(k, i, S)
<1>. DEFINE m == Max(LengthsOf(k, S))
            t == [i \in 1..m |-> Total(k, i, S)]
<1>1. m \in Nat
  BY LengthFacts
<1>2. SumOver(S)[k] = t
  BY SumOverDef
<1>3. t \in Seq(Int) /\ Len(t) = m
  <2>1. \A i \in 1..m : Total(k, i, S) \in Int
    <3>1. S \cap {} = {} /\ {} \in SUBSET Node
      OBVIOUS
    <3>. QED  BY <3>1, TotalUnion
  <2>. HIDE DEF m
  <2>2. t \in [1..m -> Int]
    BY <2>1
  <2>. HIDE DEF t
  <2>. QED  BY <1>1, <2>2
<1>4. ASSUME NEW i \in Nat \ {0}
      PROVE  Entry(t, i) = Total(k, i, S)
  <2>1. CASE i <= m
    BY <1>1, <2>1 DEF Entry
  <2>2. CASE i > m
    <3>1. i \notin DOMAIN t
      BY <1>1, <2>2
    <3>2. ASSUME NEW n \in S
          PROVE  GivenAt(n, k, i) = 0
      <4>1. CASE k \in DOMAIN OwnData(n)
        <5>1. OwnData(n)[k] \in Seq(Int)
          BY <4>1, OwnType
        <5>2. Len(OwnData(n)[k]) \in LengthsOf(k, S)
          BY <4>1 DEF LengthsOf
        <5>3. Len(OwnData(n)[k]) <= m /\ Len(OwnData(n)[k]) \in Nat
          BY <5>1, <5>2, LengthFacts
        <5>4. DOMAIN OwnData(n)[k] = 1..Len(OwnData(n)[k])
          BY <5>1
        <5>5. i \notin DOMAIN OwnData(n)[k]
          BY <1>1, <2>2, <5>3, <5>4
        <5>. QED  BY <5>5 DEF GivenAt, Entry
      <4>2. CASE k \notin DOMAIN OwnData(n)
        BY <4>2 DEF GivenAt
      <4>. QED  BY <4>1, <4>2
    <3>3. Total(k, i, S) = 0
      BY <3>2, TotalZero
    <3>. QED  BY <3>1, <3>3 DEF Entry
  <2>. QED  BY <1>1, <2>1, <2>2
<1>. QED  BY <1>2, <1>3, <1>4

LEMMA SumOverOne ==
  ASSUME input \in Inputs, NEW n \in Node, HasData(n)
  PROVE  SumOver({n}) = OwnData(n)
<1>1. KeysOf({n}) = DOMAIN OwnData(n)
  BY DEF KeysOf
<1>2. ASSUME NEW k \in KeysOf({n})
      PROVE  [i \in 1..Max(LengthsOf(k, {n})) |-> Total(k, i, {n})] = OwnData(n)[k]
  <2>1. OwnData(n)[k] \in Seq(Int)
    BY <1>1, OwnType
  <2>2. LengthsOf(k, {n}) = {Len(OwnData(n)[k])}
    BY <1>1 DEF LengthsOf
  <2>3. Max(LengthsOf(k, {n})) = Len(OwnData(n)[k])
    <3>1. Max(LengthsOf(k, {n})) \in LengthsOf(k, {n})
      BY LengthFacts
    <3>. QED  BY <2>2, <3>1
  <2>. DEFINE v == OwnData(n)[k]
  <2>4. \A i \in 1..Len(v) : Total(k, i, {n}) = v[i]
    <3>1. ASSUME NEW i \in 1..Len(v)
          PROVE  GivenAt(n, k, i) = v[i]
      <4>1. i \in DOMAIN v
        BY <2>1
      <4>. QED  BY <1>1, <4>1 DEF GivenAt, Entry
    <3>. QED  BY <3>1, TotalOne
  <2>. HIDE DEF v
  <2>5. v = [i \in 1..Len(v) |-> v[i]]
    <3>1. v \in Seq(Int)
      BY <2>1 DEF v
    <3>. QED  BY <3>1
  <2>6. [i \in 1..Len(v) |-> Total(k, i, {n})] = v
    BY <2>4, <2>5
  <2>. QED  BY <2>3, <2>6 DEF v
<1>3. SumOver({n}) = [k \in DOMAIN OwnData(n) |-> OwnData(n)[k]]
  BY <1>1, <1>2, SumOverDef
<1>. QED  BY <1>3, OwnType

(* Adding the aggregates of two sets of nodes aggregates their union.      *)
LEMMA SumOverUnion ==
  ASSUME input \in Inputs, NEW A \in SUBSET Node, NEW B \in SUBSET Node, A \cap B = {},
         \A n \in A \cup B : HasData(n)
  PROVE  AddData(SumOver(A), SumOver(B)) = SumOver(A \cup B)
<1>. DEFINE C == A \cup B
<1>1. /\ KeysOf(C) = KeysOf(A) \cup KeysOf(B)
      /\ DOMAIN SumOver(A) = KeysOf(A) /\ DOMAIN SumOver(B) = KeysOf(B)
  BY SumOverDef DEF KeysOf
<1>2. \A k : LengthsOf(k, C) = LengthsOf(k, A) \cup LengthsOf(k, B)
  BY DEF LengthsOf
<1>3. \A k, i : Total(k, i, C) = Total(k, i, A) + Total(k, i, B)
                /\ Total(k, i, A) \in Int /\ Total(k, i, B) \in Int
  BY TotalUnion
<1>4. ASSUME NEW k, NEW S \in SUBSET Node, k \notin KeysOf(S)
      PROVE  LengthsOf(k, S) = {} /\ \A i : Total(k, i, S) = 0
  <2>1. \A n \in S : k \notin DOMAIN OwnData(n)
    BY <1>4 DEF KeysOf
  <2>2. \A i : \A n \in S : GivenAt(n, k, i) = 0
    BY <2>1 DEF GivenAt
  <2>3. \A i : Total(k, i, S) = 0
    BY <2>2, TotalZero
  <2>. QED  BY <2>1, <2>3 DEF LengthsOf
<1>. DEFINE Sum(k, S) == [i \in 1..Max(LengthsOf(k, S)) |-> Total(k, i, S)]
<1>5. ASSUME NEW k \in KeysOf(C)
      PROVE  AddData(SumOver(A), SumOver(B))[k] = Sum(k, C)
  <2>1. CASE k \notin KeysOf(B)
    <3>1. LengthsOf(k, C) = LengthsOf(k, A) /\ \A i : Total(k, i, C) = Total(k, i, A)
      <4>1. LengthsOf(k, B) = {} /\ \A i : Total(k, i, B) = 0
        BY <1>4, <2>1
      <4>2. LengthsOf(k, C) = LengthsOf(k, A)
        BY <1>2, <4>1
      <4>3. ASSUME NEW i
            PROVE  Total(k, i, C) = Total(k, i, A)
        <5>1. /\ Total(k, i, C) = Total(k, i, A) + Total(k, i, B)
              /\ Total(k, i, A) \in Int /\ Total(k, i, B) = 0
          BY <1>3, <4>1
        <5>. QED  BY <5>1
      <4>. QED  BY <4>2, <4>3
    <3>2. AddData(SumOver(A), SumOver(B))[k] = SumOver(A)[k]
      BY <1>1, <2>1 DEF AddData
    <3>3. SumOver(A)[k] = Sum(k, A)
      BY <1>1, <2>1, SumOverFacts
    <3>. QED  BY <3>1, <3>2, <3>3
  <2>2. CASE k \notin KeysOf(A)
    <3>1. LengthsOf(k, C) = LengthsOf(k, B) /\ \A i : Total(k, i, C) = Total(k, i, B)
      <4>1. LengthsOf(k, A) = {} /\ \A i : Total(k, i, A) = 0
        BY <1>4, <2>2
      <4>2. LengthsOf(k, C) = LengthsOf(k, B)
        BY <1>2, <4>1
      <4>3. ASSUME NEW i
            PROVE  Total(k, i, C) = Total(k, i, B)
        <5>1. /\ Total(k, i, C) = Total(k, i, A) + Total(k, i, B)
              /\ Total(k, i, B) \in Int /\ Total(k, i, A) = 0
          BY <1>3, <4>1
        <5>. QED  BY <5>1
      <4>. QED  BY <4>2, <4>3
    <3>2. AddData(SumOver(A), SumOver(B))[k] = SumOver(B)[k]
      BY <1>1, <2>2 DEF AddData
    <3>3. SumOver(B)[k] = Sum(k, B)
      BY <1>1, <2>2, SumOverFacts
    <3>. QED  BY <3>1, <3>2, <3>3
  <2>3. CASE k \in KeysOf(A) /\ k \in KeysOf(B)
    <3>. DEFINE u == SumOver(A)[k]
                v == SumOver(B)[k]
                w == Max(LengthsOf(k, C))
    <3>1. AddData(SumOver(A), SumOver(B))[k] = AddVectors(u, v)
      BY <1>1, <2>3 DEF AddData
    <3>2. /\ Len(u) = Max(LengthsOf(k, A)) /\ Len(v) = Max(LengthsOf(k, B))
          /\ \A i \in Nat \ {0} : /\ Entry(u, i) = Total(k, i, A)
                                  /\ Entry(v, i) = Total(k, i, B)
      BY <2>3, SumOverFacts
    <3>3. w = Longest(u, v) /\ w \in Nat
      <4>1. /\ Len(u) \in LengthsOf(k, A) /\ \A y \in LengthsOf(k, A) : Len(u) >= y
            /\ Len(v) \in LengthsOf(k, B) /\ \A y \in LengthsOf(k, B) : Len(v) >= y
            /\ LengthsOf(k, A) \subseteq Nat /\ LengthsOf(k, B) \subseteq Nat
        BY <2>3, <3>2, LengthFacts
      <4>2. w \in LengthsOf(k, C) /\ \A y \in LengthsOf(k, C) : w >= y
        BY LengthFacts
      <4>3. LengthsOf(k, C) = LengthsOf(k, A) \cup LengthsOf(k, B)
        BY <1>2
      <4>. HIDE DEF u, v, w, C
      <4>4. /\ Len(u) \in Nat /\ Len(v) \in Nat /\ w \in Nat /\ w >= Len(u) /\ w >= Len(v)
            /\ Len(u) >= w \/ Len(v) >= w
        BY <4>1, <4>2, <4>3
      <4>. QED  BY <4>4 DEF Longest
    <3>4. AddVectors(u, v) = [i \in 1..w |-> Entry(u, i) + Entry(v, i)]
      BY <3>3 DEF AddVectors
    <3>5. \A i \in 1..w : Entry(u, i) + Entry(v, i) = Total(k, i, C)
      <4>. HIDE DEF u, v, w
      <4>1. ASSUME NEW i \in 1..w
            PROVE  Entry(u, i) + Entry(v, i) = Total(k, i, C)
        <5>1. i \in Nat \ {0}
          BY <3>3
        <5>2. Total(k, i, C) = Total(k, i, A) + Total(k, i, B)
          BY <1>3
        <5>3. Entry(u, i) = Total(k, i, A) /\ Entry(v, i) = Total(k, i, B)
          BY <3>2, <5>1
        <5>. QED  BY <5>2, <5>3
      <4>. QED  BY <4>1
    <3>. HIDE DEF u, v
    <3>6. AddVectors(u, v) = Sum(k, C)
      BY <3>4, <3>5
    <3>. QED  BY <3>1, <3>6 DEF u, v
  <2>. QED  BY <1>1, <2>1, <2>2, <2>3
<1>6. AddData(SumOver(A), SumOver(B))
        = [k \in KeysOf(C) |-> AddData(SumOver(A), SumOver(B))[k]]
  BY <1>1 DEF AddData
<1>7. SumOver(C) = [k \in KeysOf(C) |-> Sum(k, C)]
  BY SumOverDef
<1>. HIDE DEF C, Sum
<1>8. AddData(SumOver(A), SumOver(B)) = SumOver(C)
  BY <1>5, <1>6, <1>7
<1>. QED  BY <1>8 DEF C

-----------------------------------------------------------------------------
(* Vectors of one length pass ToBytes and FromBytes unchanged.             *)
PiecesAt(v, i, P) == MapThenSumSet(LAMBDA j : v[i + j], P)

Cut(v, w) == [i \in 1..w |-> PiecesAt(v, i, {j * w : j \in 0..(Len(v) \div w) - 1})]

LEMMA FromBytesDef ==
  ASSUME NEW f, NEW w \in Nat \ {0}
  PROVE  FromBytes(f, w) = [k \in {k \in DOMAIN f : Len(f[k]) >= w} |-> Cut(f[k], w)]
BY DEF FromBytes, PiecesAt, Cut

LEMMA OnePiece ==
  ASSUME NEW v \in Seq(Int), NEW i \in 1..Len(v)
  PROVE  PiecesAt(v, i, {0}) = v[i]
<1>. DEFINE First(X) == CHOOSE x \in X : TRUE
            Folds(g) == g = [X \in SUBSET {0} |->
                              IF X = {} THEN 0 ELSE v[i + First(X)] + g[X \ {First(X)}]]
            h == [X \in SUBSET {0} |-> IF X = {} THEN 0 ELSE v[i]]
<1>1. v[i] \in Int /\ i \in Nat /\ i + 0 = i
  <2>1. Len(v) \in Nat
    OBVIOUS
  <2>. QED  BY <2>1
<1>2. \A X \in SUBSET {0} : X # {} => First(X) = 0 /\ X \ {First(X)} = {}
  OBVIOUS
<1>. HIDE DEF First
<1>3. Folds(h)
  <2>1. ASSUME NEW X \in SUBSET {0}
        PROVE  h[X] = IF X = {} THEN 0 ELSE v[i + First(X)] + h[X \ {First(X)}]
    BY <1>1, <1>2
  <2>. QED  BY <2>1
<1>4. \E g : Folds(g)
  <2>. HIDE DEF h, Folds
  <2>. QED  BY <1>3
<1>5. ASSUME NEW g, Folds(g)
      PROVE  g[{0}] = v[i]
  <2>1. g[{}] = 0 /\ g[{0}] = v[i + First({0})] + g[{0} \ {First({0})}]
    BY <1>5
  <2>2. First({0}) = 0 /\ {0} \ {First({0})} = {}
    BY <1>2
  <2>3. g[{0}] = v[i + 0] + g[{}]
    BY <2>1, <2>2
  <2>. QED  BY <1>1, <2>1, <2>3
<1>6. PiecesAt(v, i, {0}) = (CHOOSE g : Folds(g))[{0}]
  BY DEF PiecesAt, MapThenSumSet, MapThenFoldSet, First
<1>. HIDE DEF Folds
<1>. QED  BY <1>4, <1>5, <1>6

LEMMA BytesKept ==
  ASSUME NEW w \in Nat \ {0}, NEW f, f = [k \in DOMAIN f |-> f[k]],
         \A k \in DOMAIN f : f[k] \in Seq(Int) /\ Len(f[k]) = w
  PROVE  FromBytes(f, w) = f
<1>. DEFINE long == {k \in DOMAIN f : Len(f[k]) >= w}
<1>1. long = DOMAIN f
  <2>1. \A k \in DOMAIN f : Len(f[k]) >= w
    OBVIOUS
  <2>. QED  BY <2>1
<1>2. {j * w : j \in 0..(w \div w) - 1} = {0}
  <2>1. w \div w = 1
    OBVIOUS
  <2>2. 0..(w \div w) - 1 = {0}
    BY <2>1
  <2>3. 0 * w = 0
    OBVIOUS
  <2>. QED  BY <2>2, <2>3
<1>3. ASSUME NEW k \in DOMAIN f
      PROVE  Cut(f[k], w) = f[k]
  <2>1. \A i \in 1..w : PiecesAt(f[k], i, {0}) = f[k][i]
    BY OnePiece
  <2>2. f[k] = [i \in 1..w |-> f[k][i]]
    OBVIOUS
  <2>3. {j * w : j \in 0..(Len(f[k]) \div w) - 1} = {0}
    BY <1>2
  <2>4. [i \in 1..w |-> PiecesAt(f[k], i, {0})] = f[k]
    BY <2>1, <2>2
  <2>. QED  BY <2>3, <2>4 DEF Cut
<1>4. FromBytes(f, w) = [k \in long |-> Cut(f[k], w)]
  BY FromBytesDef
<1>. HIDE DEF long
<1>5. FromBytes(f, w) = [k \in DOMAIN f |-> f[k]]
  BY <1>1, <1>3, <1>4
<1>. QED  BY <1>5

LEMMA FullWidth ==
  ASSUME NEW f, NEW w, Full(f, w)
  PROVE  Width(f) = w
BY DEF Full, Width

(* Adding what a child sends makes all vectors have w entries.             *)
LEMMA AddFull ==
  ASSUME NEW w \in Nat, NEW f, Partial(f, w), NEW g, Full(g, w),
         \A k \in DOMAIN f : Len(f[k]) \in Nat
  PROVE  Full(AddData(f, g), w)
<1>. DEFINE s == AddData(f, g)
<1>1. DOMAIN s = DOMAIN f \cup DOMAIN g
  BY DEF AddData
<1>2. DOMAIN s # {} /\ \A k : Common(k) => k \in DOMAIN s
  BY <1>1 DEF Full
<1>3. ASSUME NEW k \in DOMAIN s
      PROVE  Len(s[k]) = w
  <2>1. CASE k \notin DOMAIN g
    <3>1. s[k] = f[k] /\ ~ Common(k) /\ k \in DOMAIN f
      BY <1>1, <2>1 DEF AddData, Full
    <3>. QED  BY <3>1 DEF Partial
  <2>2. CASE k \notin DOMAIN f
    <3>1. s[k] = g[k] /\ k \in DOMAIN g
      BY <1>1, <2>2 DEF AddData
    <3>. QED  BY <3>1 DEF Full
  <2>3. CASE k \in DOMAIN f /\ k \in DOMAIN g
    <3>1. s[k] = AddVectors(f[k], g[k])
      BY <1>1, <2>3 DEF AddData
    <3>2. Len(g[k]) = w /\ Len(f[k]) \in Nat /\ Len(f[k]) <= w
      BY <2>3 DEF Full, Partial
    <3>3. Longest(f[k], g[k]) = w
      BY <3>2 DEF Longest
    <3>4. AddVectors(f[k], g[k]) = [i \in 1..w |-> Entry(f[k], i) + Entry(g[k], i)]
      BY <3>3 DEF AddVectors
    <3>. QED  BY <3>1, <3>4
  <2>. QED  BY <1>1, <2>1, <2>2, <2>3
<1>. HIDE DEF s
<1>4. Full(s, w)
  BY <1>2, <1>3 DEF Full
<1>. QED  BY <1>4 DEF s

-----------------------------------------------------------------------------
(* What a node has collected when all its children have delivered.         *)

(* All children are sources of the data that has arrived.                  *)
LEMMA AllDelivered ==
  ASSUME NEW n \in Node, IsList(datas[n]), AllChildrenSent(n),
         NEW source, IsSource(n, source)
  PROVE  \A c \in Children(n) : \E i \in DOMAIN datas[n] : source[i] = c
<1>. DEFINE k == Len(datas[n])
<1>1. k \in Nat /\ DOMAIN datas[n] = 1..k /\ k = Cardinality(Children(n))
  BY ListFacts DEF AllChildrenSent
<1>2. IsFiniteSet(Children(n)) /\ Cardinality(1..k) = Cardinality(Children(n))
  <2>1. Children(n) \in SUBSET Node
    BY DEF Children
  <2>2. Cardinality(1..k) = k
    BY <1>1, FS_Interval
  <2>. QED  BY <1>1, <2>1, <2>2, TreeAssumption, FS_Subset
<1>3. source \in Injection(1..k, Children(n))
  BY <1>1 DEF IsSource, Injection, IsInjective
<1>4. IsFiniteSet(1..k)
  BY <1>1, FS_Interval
<1>5. source \in Surjection(1..k, Children(n))
  <2>. HIDE DEF k
  <2>. QED  BY <1>2, <1>3, <1>4, FS_Injection
<1>. QED  BY <1>1, <1>5 DEF Surjection

LEMMA LeafBelow ==
  ASSUME NEW n \in Node, IsLeaf(n)
  PROVE  Below[n] = {n}
BY BelowAssumption DEF IsLeaf

(* The data given to a node other than the root, before and, for a leaf,   *)
(* when it is sent.                                                        *)
LEMMA OwnWidth ==
  ASSUME NEW w \in Nat \ {0}, OfWidth(w), NEW n \in Node \ {Root}, HasData(n)
  PROVE  Partial(OwnData(n), w) /\ (IsLeaf(n) => Full(OwnData(n), w))
<1>1. Partial(OwnData(n), w)
  BY DEF OfWidth, Partial
<1>2. IsLeaf(n) => \A k : Common(k) => k \in DOMAIN OwnData(n)
  BY DEF Common
<1>3. IsLeaf(n) => Full(OwnData(n), w)
  BY <1>2 DEF OfWidth, Full
<1>. QED  BY <1>1, <1>3

(* The loop over what the children have sent, as a recursive function.     *)
LEMMA SumsExist ==
  ASSUME NEW n \in Node, NEW k \in Nat
  PROVE  \E sum : sum = [i \in 0..k |->
           IF i = 0 THEN grouped[n]
           ELSE AddData(sum[i - 1], FromBytes(datas[n][i], lengths[n][i]))]
<1>. DEFINE c == grouped[n]
            Add(v, i) == AddData(v, FromBytes(datas[n][i], lengths[n][i]))
            Upto(j, g) == g = [i \in 0..j |-> IF i = 0 THEN c ELSE Add(g[i - 1], i)]
            T == {j \in 0..k : \E g : Upto(j, g)}
<1>1. 0 \in T
  <2>. HIDE DEF Add, c
  <2>. DEFINE g == [i \in 0..0 |-> c]
  <2>1. g = [i \in 0..0 |-> IF i = 0 THEN c ELSE Add(g[i - 1], i)]
    OBVIOUS
  <2>2. Upto(0, g)
    BY <2>1
  <2>. HIDE DEF g, Upto
  <2>3. \E x : Upto(0, x)
    BY <2>2
  <2>. QED  BY <2>3
<1>2. ASSUME NEW j \in 0..k, j \in T, j < k
      PROVE  j + 1 \in T
  <2>. HIDE DEF Add, c
  <2>1. PICK g : Upto(j, g)
    BY <1>2
  <2>. DEFINE h == [i \in 0..(j + 1) |-> IF i = j + 1 THEN Add(g[j], j + 1) ELSE g[i]]
  <2>2. ASSUME NEW i \in 0..(j + 1)
        PROVE  h[i] = IF i = 0 THEN c ELSE Add(h[i - 1], i)
    <3>1. CASE i = j + 1
      <4>1. i - 1 = j /\ j \in 0..(j + 1) /\ j # j + 1 /\ i # 0
        BY <3>1
      <4>2. h[i - 1] = g[j] /\ h[i] = Add(g[j], j + 1)
        BY <3>1, <4>1
      <4>. QED  BY <3>1, <4>1, <4>2
    <3>2. CASE i # j + 1 /\ i # 0
      <4>1. i \in 0..j /\ i - 1 \in 0..(j + 1) /\ i - 1 # j + 1
        BY <3>2
      <4>2. h[i] = g[i] /\ h[i - 1] = g[i - 1]
        BY <3>2, <4>1
      <4>3. g[i] = Add(g[i - 1], i)
        BY <2>1, <3>2, <4>1
      <4>. QED  BY <3>2, <4>2, <4>3
    <3>3. CASE i = 0
      <4>1. 0 \in 0..j /\ 0 # j + 1 /\ 0 \in 0..(j + 1)
        OBVIOUS
      <4>2. h[0] = g[0] /\ g[0] = c
        BY <2>1, <4>1
      <4>. QED  BY <3>3, <4>2
    <3>. QED  BY <3>1, <3>2, <3>3
  <2>3. h = [i \in 0..(j + 1) |-> h[i]]
    OBVIOUS
  <2>4. Upto(j + 1, h)
    <3>. HIDE DEF h
    <3>. QED  BY <2>2, <2>3
  <2>. HIDE DEF h, Upto
  <2>5. \E x : Upto(j + 1, x)
    BY <2>4
  <2>. QED  BY <1>2, <2>5
<1>. HIDE DEF T
<1>3. k \in T
  BY <1>1, <1>2, BoundedInduct
<1>. QED  BY <1>3 DEF T

(* A child that has sent: whose data it has sent, and of which length.     *)
Settled(c, w) ==
  /\ pc[c] = "done" /\ grouped[c] = SumOver(Below[c]) /\ Full(grouped[c], w)
  /\ \A m \in Below[c] : HasData(m)

LEMMA CollectedSum ==
  ASSUME input \in Inputs, NEW n \in Node, NEW w \in Nat \ {0}, OfWidth(w),
         IsList(datas[n]), IsList(lengths[n]), AllChildrenSent(n), ~ IsLeaf(n),
         HasData(n), grouped[n] = OwnData(n),
         NEW source, IsSource(n, source),
         \A c \in Children(n) : pc[c] = "done" => Settled(c, w),
         \A i \in DOMAIN lengths[n] :
           \E c \in Children(n) : pc[c] = "done" /\ lengths[n][i] = Width(grouped[c])
  PROVE  /\ Collected(n) = SumOver(Below[n])
         /\ n # Root => Full(Collected(n), w)
<1>. DEFINE k == Len(lengths[n])
            Reached(i) == {n} \cup UNION {Below[source[m]] : m \in 1..i}
<1>1. /\ k \in Nat /\ k = Cardinality(Children(n))
      /\ DOMAIN datas[n] = 1..k /\ DOMAIN lengths[n] = 1..k
  BY ListFacts DEF AllChildrenSent
<1>2. /\ source \in [1..k -> Children(n)]
      /\ \A i, j \in 1..k : source[i] = source[j] => i = j
      /\ Children(n) \subseteq Node \ {Root}
  BY <1>1 DEF IsSource, Children
<1>3. \A i \in 1..k : lengths[n][i] = w
  BY <1>1, FullWidth DEF Settled
<1>4. \A i \in 1..k : Settled(source[i], w) /\ datas[n][i] = grouped[source[i]]
  BY <1>1, <1>2 DEF IsSource, Delivered
<1>. DEFINE sum[i \in 0..k] ==
              IF i = 0 THEN grouped[n]
              ELSE AddData(sum[i - 1], FromBytes(datas[n][i], lengths[n][i]))
<1>5. sum = [i \in 0..k |->
               IF i = 0 THEN grouped[n]
               ELSE AddData(sum[i - 1], FromBytes(datas[n][i], lengths[n][i]))]
  BY <1>1, SumsExist, Zenon
<1>6. Collected(n) = sum[k]
  BY DEF Collected
<1>. HIDE DEF sum
<1>7. \A i \in 0..k : Reached(i) \in SUBSET Node /\ \A m \in Reached(i) : HasData(m)
  <2>1. \A m \in 1..k : Below[source[m]] \in SUBSET Node
    BY <1>2, BelowAssumption
  <2>2. \A i \in 0..k : 1..i \subseteq 1..k
    BY <1>1
  <2>. QED  BY <1>4, <2>1, <2>2 DEF Settled
<1>. DEFINE T == {i \in 0..k :
                   /\ sum[i] = SumOver(Reached(i))
                   /\ n # Root => Partial(sum[i], w) /\ (i # 0 => Full(sum[i], w))}
<1>8. 0 \in T
  <2>1. Reached(0) = {n} /\ 0 \in 0..k
    BY <1>1
  <2>2. sum[0] = OwnData(n)
    BY <1>5, <2>1
  <2>3. n # Root => Partial(sum[0], w)
    BY <2>2, OwnWidth
  <2>. HIDE DEF k, Reached
  <2>. QED  BY <2>1, <2>2, <2>3, SumOverOne
<1>9. ASSUME NEW i \in 0..k, i \in T, i < k
      PROVE  i + 1 \in T
  <2>. DEFINE c == source[i + 1]
  <2>1. i + 1 \in 1..k /\ i + 1 \in 0..k /\ i + 1 # 0 /\ (i + 1) - 1 = i /\ i + 1 \in Nat
    BY <1>1, <1>9
  <2>2. c \in Children(n) /\ c \in Node /\ Below[c] \in SUBSET Node
    BY <1>2, <2>1, BelowAssumption
  <2>3. Settled(c, w) /\ datas[n][i + 1] = SumOver(Below[c])
    BY <1>4, <2>1 DEF Settled
  <2>4. FromBytes(SumOver(Below[c]), w) = SumOver(Below[c])
    <3>. DEFINE f == SumOver(Below[c])
    <3>1. f = [q \in DOMAIN f |-> f[q]] /\ DOMAIN f = KeysOf(Below[c])
      BY SumOverDef
    <3>2. \A q \in DOMAIN f : f[q] \in Seq(Int)
      BY <2>2, <2>3, <3>1, SumOverFacts DEF Settled
    <3>3. \A q \in DOMAIN f : Len(f[q]) = w
      BY <2>3 DEF Settled, Full
    <3>. HIDE DEF f
    <3>4. FromBytes(f, w) = f
      BY <3>1, <3>2, <3>3, BytesKept
    <3>. QED  BY <3>4 DEF f
  <2>5. sum[i + 1] = AddData(sum[i], SumOver(Below[c]))
    <3>1. sum[i + 1] = AddData(sum[i], FromBytes(datas[n][i + 1], lengths[n][i + 1]))
      BY <1>5, <2>1
    <3>. QED  BY <1>3, <2>1, <2>3, <2>4, <3>1
  <2>6. Reached(i + 1) = Reached(i) \cup Below[c]
    <3>1. 1..(i + 1) = (1..i) \cup {i + 1}
      BY <1>1
    <3>. QED  BY <3>1
  <2>7. Reached(i) \cap Below[c] = {}
    <3>2. n \notin Below[c]
      BY <2>2, BelowAssumption
    <3>3. ASSUME NEW m \in 1..i
          PROVE  Below[source[m]] \cap Below[c] = {}
      <4>1. m \in 1..k /\ m # i + 1
        BY <1>1, <2>1
      <4>2. source[m] \in Children(n) /\ source[m] # c
        BY <1>2, <2>1, <4>1
      <4>. QED  BY <2>2, <4>2, BelowAssumption
    <3>. QED  BY <3>2, <3>3
  <2>8. /\ sum[i] = SumOver(Reached(i)) /\ Reached(i) \in SUBSET Node
        /\ \A m \in Reached(i) \cup Below[c] : HasData(m)
        /\ n # Root => Partial(sum[i], w)
    BY <1>7, <1>9, <2>3 DEF Settled
  <2>. HIDE DEF k, Reached, c
  <2>9. sum[i + 1] = SumOver(Reached(i + 1))
    BY <2>2, <2>5, <2>6, <2>7, <2>8, SumOverUnion
  <2>10. ASSUME n # Root
         PROVE  Partial(sum[i + 1], w) /\ Full(sum[i + 1], w)
    <3>1. \A q \in DOMAIN sum[i] : Len(sum[i][q]) \in Nat
      <4>1. DOMAIN sum[i] = KeysOf(Reached(i))
        BY <2>8, SumOverDef
      <4>2. \A q \in KeysOf(Reached(i)) : SumOver(Reached(i))[q] \in Seq(Int)
        BY <2>8, SumOverFacts
      <4>. QED  BY <2>8, <4>1, <4>2
    <3>2. Full(SumOver(Below[c]), w)
      BY <2>3 DEF Settled
    <3>3. Full(sum[i + 1], w)
      BY <2>5, <2>8, <2>10, <3>1, <3>2, AddFull
    <3>. QED  BY <3>3 DEF Full, Partial
  <2>. QED  BY <2>1, <2>9, <2>10
<1>. HIDE DEF T
<1>10. k \in T
  BY <1>1, <1>8, <1>9, BoundedInduct
<1>11. Reached(k) = Below[n]
  <2>1. \A c \in Children(n) : \E m \in 1..k : source[m] = c
    BY <1>1, AllDelivered
  <2>2. Below[n] = {n} \cup UNION {Below[c] : c \in Children(n)}
    BY BelowAssumption
  <2>. QED  BY <1>2, <2>1, <2>2
<1>12. k # 0
  <2>1. Children(n) \in SUBSET Node /\ Children(n) # {}
    BY DEF Children, IsLeaf
  <2>. QED  BY <1>1, <2>1, TreeAssumption, FS_Subset, FS_EmptySet
<1>. QED  BY <1>6, <1>10, <1>11, <1>12 DEF T

-----------------------------------------------------------------------------
(* What the nodes were given does not change.                              *)
LEMMA Same ==
  ASSUME input' = input
  PROVE  /\ \A n : OwnData(n)' = OwnData(n) /\ (HasData(n)' <=> HasData(n))
         /\ \A S : SumOver(S)' = SumOver(S)
         /\ \A k : Common(k)' <=> Common(k)
         /\ \A w : OfWidth(w)' <=> OfWidth(w)
<1>1. \A n : OwnData(n)' = OwnData(n) /\ (HasData(n)' <=> HasData(n))
  BY DEF OwnData, HasData
<1>2. \A S : SumOver(S)' = SumOver(S)
  BY DEF SumOver, GivenAt, HasData, OwnData, MapThenSumSet, MapThenFoldSet, Max
<1>3. \A k : Common(k)' <=> Common(k)
  BY <1>1 DEF Common
<1>4. \A w : OfWidth(w)' <=> OfWidth(w)
  BY <1>1, <1>3 DEF OfWidth
<1>. QED  BY <1>1, <1>2, <1>3, <1>4

(* A node that has sent or reports keeps its sum, and the one that has     *)
(* just collected has it.                                                  *)
LEMMA SumKept ==
  ASSUME SumInv, input' = input,
         \A n \in Node :
           pc'[n] \in {"report", "done"} =>
             \/ pc[n] \in {"report", "done"} /\ grouped'[n] = grouped[n]
             \/ \A w \in Nat \ {0} :
                  OfWidth(w) => /\ grouped'[n] = SumOver(Below[n])
                                /\ n # Root => Full(grouped'[n], w)
  PROVE  SumInv'
<1>1. SUFFICES ASSUME NEW w \in Nat \ {0}, NEW n \in Node,
                      OfWidth(w), pc'[n] \in {"report", "done"}
               PROVE  /\ grouped'[n] = SumOver(Below[n])
                      /\ n # Root => Full(grouped'[n], w)
  BY Same DEF SumInv, Full
<1>. QED  BY <1>1 DEF SumInv

(* What has arrived stays where it is from, as long as those who are done  *)
(* do nothing more.                                                        *)
LEMMA DataKept ==
  ASSUME DataInv, datas' = datas,
         \A c \in Node \ {Root} :
           Delivered(c) => Delivered(c)' /\ grouped'[c] = grouped[c]
  PROVE  DataInv'
<1>1. SUFFICES ASSUME NEW n \in Node
               PROVE  \E source \in [DOMAIN datas'[n] -> Children(n)] : IsSource(n, source)'
  BY DEF DataInv
<1>2. PICK source \in [DOMAIN datas[n] -> Children(n)] : IsSource(n, source)
  BY DEF DataInv
<1>3. \A i \in DOMAIN datas[n] : source[i] \in Node \ {Root}
  BY DEF Children
<1>4. IsSource(n, source)'
  BY <1>2, <1>3 DEF IsSource
<1>. QED  BY <1>4

LEMMA LengthKept ==
  ASSUME LengthInv, lengths' = lengths,
         \A c \in Node \ {Root} :
           pc[c] = "done" => pc'[c] = "done" /\ grouped'[c] = grouped[c]
  PROVE  LengthInv'
<1>1. SUFFICES ASSUME NEW n \in Node, NEW i \in DOMAIN lengths[n]
               PROVE  \E c \in Children(n) :
                        pc'[c] = "done" /\ lengths[n][i] = Width(grouped'[c])
  BY DEF LengthInv
<1>2. PICK c \in Children(n) : pc[c] = "done" /\ lengths[n][i] = Width(grouped[c])
  BY DEF LengthInv
<1>3. c \in Node \ {Root}
  BY DEF Children
<1>. QED  BY <1>2, <1>3

-----------------------------------------------------------------------------
(* The invariant holds initially and is preserved by every step.           *)
LEMMA InitInv == Init => IInv
<1>. SUFFICES ASSUME Init
              PROVE  IInv
  OBVIOUS
<1>1. TypeInv
  BY EmptyList DEF Init, TypeInv
<1>2. WireInv /\ OwnInv /\ SumInv /\ FeedbackInv /\ NothingLeftBehind
  <2>1. \A n \in Node : pc[n] = "check" /\ wire[n] = <<>>
    BY DEF Init
  <2>2. \A c \in Node \ {Root} : Parent[c] \in Node
    BY TreeAssumption
  <2>3. feedback = {}
    BY DEF Init
  <2>. QED  BY <2>1, <2>2, <2>3
            DEF WireInv, OwnInv, SumInv, FeedbackInv, NothingLeftBehind
<1>3. LengthInv
  BY EmptyList DEF Init, LengthInv
<1>4. DataInv
  <2>1. SUFFICES ASSUME NEW n \in Node
                 PROVE  \E source \in [DOMAIN datas[n] -> Children(n)] : IsSource(n, source)
    BY DEF DataInv
  <2>2. DOMAIN datas[n] = {}
    BY EmptyList DEF Init
  <2>. DEFINE none == [i \in {} |-> i]
  <2>3. none \in [DOMAIN datas[n] -> Children(n)]
    BY <2>2
  <2>4. IsSource(n, none)
    BY <2>2, <2>3 DEF IsSource
  <2>. QED  BY <2>3, <2>4
<1>. QED  BY <1>1, <1>2, <1>3, <1>4 DEF IInv

LEMMA StartStep ==
  ASSUME IInv, Start
  PROVE  IInv'
<1>. USE DEF IInv
<1>1. /\ trigger' \subseteq Node \ {Root}
      /\ UNCHANGED <<input, pc, wire, lengths, datas, grouped, feedback>>
  BY DEF Start, Children
<1>2. TypeInv'
  BY <1>1 DEF TypeInv
<1>3. WireInv' /\ FeedbackInv' /\ NothingLeftBehind'
  BY <1>1 DEF WireInv, FeedbackInv, NothingLeftBehind
<1>4. LengthInv' /\ DataInv'
  BY <1>1, LengthKept, DataKept DEF Delivered
<1>5. OwnInv' /\ SumInv'
  BY <1>1, Same, SumKept DEF OwnInv
<1>. QED  BY <1>2, <1>3, <1>4, <1>5

(* A node that begins, hears the announcement or gives up has not sent.    *)
LEMMA BeginStep ==
  ASSUME IInv, NEW n \in Node, pc[n] \in {"check", "announcement"},
         UNCHANGED <<input, wire, lengths, datas, feedback>>,
         trigger' \subseteq Node \ {Root},
         NEW x \in {"announcement", "ascend", "failed"}, pc' = [pc EXCEPT ![n] = x],
         NEW g, grouped' = [grouped EXCEPT ![n] = g],
         x # "failed" => HasData(n) /\ g = OwnData(n)
  PROVE  IInv'
<1>. USE DEF IInv
<1>1. /\ pc'[n] = x /\ grouped'[n] = g
      /\ \A m \in Node \ {n} : pc'[m] = pc[m] /\ grouped'[m] = grouped[m]
      /\ grouped' = [m \in Node |-> grouped'[m]]
      /\ pc' \in [Node -> {"check", "announcement", "ascend", "report", "done", "failed"}]
  BY DEF TypeInv
<1>2. TypeInv'
  BY <1>1 DEF TypeInv
<1>3. WireInv'
  BY <1>1 DEF WireInv
<1>4. FeedbackInv'
  <2>1. Root \in Node
    BY TreeAssumption
  <2>. QED  BY <1>1, <2>1 DEF FeedbackInv
<1>5. NothingLeftBehind'
  <2>1. \A c \in Node \ {Root} : Parent[c] \in Node
    BY TreeAssumption
  <2>. QED  BY <1>1, <2>1 DEF NothingLeftBehind
<1>6. \A c \in Node : pc[c] = "done" => pc'[c] = "done" /\ grouped'[c] = grouped[c]
  BY <1>1
<1>7. LengthInv' /\ DataInv'
  BY <1>6, LengthKept, DataKept DEF Delivered
<1>8. OwnInv'
  <2>1. ASSUME NEW m \in Node
        PROVE  /\ pc'[m] \in {"announcement", "ascend"} =>
                    HasData(m)' /\ grouped'[m] = OwnData(m)'
               /\ pc'[m] \in {"report", "done"} => \A d \in Below[m] : HasData(d)'
    <3>1. CASE m = n
      BY <1>1, <3>1, Same
    <3>2. CASE m # n
      BY <1>1, <3>2, Same DEF OwnInv
    <3>. QED  BY <3>1, <3>2
  <2>. QED  BY <2>1 DEF OwnInv
<1>9. SumInv'
  <2>1. \A m \in Node : pc'[m] \in {"report", "done"} =>
                          pc[m] \in {"report", "done"} /\ grouped'[m] = grouped[m]
    BY <1>1
  <2>. QED  BY <2>1, SumKept
<1>. QED  BY <1>2, <1>3, <1>4, <1>5, <1>7, <1>8, <1>9

LEMMA CheckDataStep ==
  ASSUME IInv, NEW n \in Node, CheckData(n)
  PROVE  IInv'
<1>1. /\ pc[n] = "check" /\ trigger \subseteq Node \ {Root}
      /\ UNCHANGED <<input, trigger, wire, lengths, datas, feedback>>
      /\ grouped = [grouped EXCEPT ![n] = grouped[n]]
  BY DEF CheckData, IInv, TypeInv
<1>2. CASE HasData(n)
  <2>1. PICK x \in {"announcement", "ascend"} : pc' = [pc EXCEPT ![n] = x]
    BY <1>2 DEF CheckData
  <2>2. grouped' = [grouped EXCEPT ![n] = OwnData(n)]
    BY <1>2 DEF CheckData
  <2>. QED  BY <1>1, <1>2, <2>1, <2>2, BeginStep
<1>3. CASE ~ HasData(n)
  <2>1. /\ pc' = [pc EXCEPT ![n] = "failed"]
        /\ grouped' = [grouped EXCEPT ![n] = grouped[n]]
    BY <1>1, <1>3 DEF CheckData
  <2>. QED  BY <1>1, <2>1, BeginStep
<1>. QED  BY <1>2, <1>3

LEMMA AnnouncementStep ==
  ASSUME IInv, NEW n \in Node, AggregationAnnouncement(n) \/ AnnouncementTimeout(n)
  PROVE  IInv'
<1>1. /\ pc[n] = "announcement" /\ trigger' \subseteq Node \ {Root}
      /\ UNCHANGED <<input, wire, lengths, datas, grouped, feedback>>
      /\ grouped = [grouped EXCEPT ![n] = grouped[n]]
  BY DEF AggregationAnnouncement, AnnouncementTimeout, IInv, TypeInv, Children
<1>2. HasData(n) /\ grouped[n] = OwnData(n)
  BY <1>1 DEF IInv, OwnInv
<1>3. PICK x \in {"ascend", "failed"} : pc' = [pc EXCEPT ![n] = x]
  BY DEF AggregationAnnouncement, AnnouncementTimeout
<1>4. grouped' = [grouped EXCEPT ![n] = grouped[n]]
  BY <1>1
<1>. QED  BY <1>1, <1>2, <1>3, <1>4, BeginStep

(* The root puts its sum into the feedback channel.                        *)
LEMMA ReportStep ==
  ASSUME IInv, ReportResult
  PROVE  IInv'
<1>. USE TreeAssumption DEF IInv
<1>1. /\ pc[Root] = "report" /\ pc' = [pc EXCEPT ![Root] = "done"]
      /\ feedback' = feedback \cup {grouped[Root]}
      /\ UNCHANGED <<input, trigger, wire, lengths, datas, grouped>>
  BY DEF ReportResult
<1>2. /\ pc'[Root] = "done" /\ \A m \in Node \ {Root} : pc'[m] = pc[m]
      /\ pc' \in [Node -> {"check", "announcement", "ascend", "report", "done", "failed"}]
  BY <1>1 DEF TypeInv
<1>3. TypeInv' /\ WireInv' /\ FeedbackInv'
  BY <1>1, <1>2 DEF TypeInv, WireInv, FeedbackInv
<1>4. NothingLeftBehind'
  BY <1>1, <1>2 DEF NothingLeftBehind
<1>5. LengthInv' /\ DataInv'
  BY <1>1, <1>2, LengthKept, DataKept DEF Delivered
<1>6. OwnInv'
  <2>1. ASSUME NEW m \in Node
        PROVE  /\ pc'[m] \in {"announcement", "ascend"} =>
                    HasData(m)' /\ grouped'[m] = OwnData(m)'
               /\ pc'[m] \in {"report", "done"} => \A d \in Below[m] : HasData(d)'
    BY <1>1, <1>2, Same DEF OwnInv
  <2>. QED  BY <2>1 DEF OwnInv
<1>7. SumInv'
  <2>1. \A m \in Node : pc'[m] \in {"report", "done"} =>
                          pc[m] \in {"report", "done"} /\ grouped'[m] = grouped[m]
    BY <1>1, <1>2
  <2>. QED  BY <1>1, <2>1, SumKept
<1>. QED  BY <1>3, <1>4, <1>5, <1>6, <1>7

(* A node adds what its children have sent, and sends the sum or, at the   *)
(* root, goes on to report.                                                *)
LEMMA AscendStep ==
  ASSUME IInv, NEW n \in Node, AscendingAggregation(n)
  PROVE  IInv'
<1>. USE DEF IInv
<1>. DEFINE sum == IF IsLeaf(n) THEN grouped[n] ELSE Collected(n)
<1>1. /\ pc[n] = "ascend" /\ (IsLeaf(n) \/ AllChildrenSent(n))
      /\ pc' = [pc EXCEPT ![n] = IF n = Root THEN "report" ELSE "done"]
      /\ grouped' = [grouped EXCEPT ![n] = sum]
      /\ wire' = IF n = Root THEN wire ELSE [wire EXCEPT ![n] = Messages(sum)]
      /\ UNCHANGED <<input, trigger, lengths, datas, feedback>>
  BY DEF AscendingAggregation
<1>2. HasData(n) /\ grouped[n] = OwnData(n)
  BY <1>1 DEF OwnInv
<1>3. PICK source \in [DOMAIN datas[n] -> Children(n)] : IsSource(n, source)
  BY DEF DataInv
<1>4. \A c \in Children(n) : Delivered(c)
  <2>1. CASE IsLeaf(n)
    BY <2>1 DEF IsLeaf
  <2>2. CASE ~ IsLeaf(n)
    <3>1. \A c \in Children(n) : \E i \in DOMAIN datas[n] : source[i] = c
      BY <1>1, <1>3, <2>2, AllDelivered DEF TypeInv
    <3>. QED  BY <1>3, <3>1 DEF IsSource
  <2>. QED  BY <2>1, <2>2
<1>5. \A m \in Below[n] : HasData(m)
  <2>1. \A c \in Children(n) : c \in Node /\ \A m \in Below[c] : HasData(m)
    BY <1>4 DEF Delivered, OwnInv, Children
  <2>2. Below[n] = {n} \cup UNION {Below[c] : c \in Children(n)}
    BY BelowAssumption
  <2>. QED  BY <1>2, <2>1, <2>2
<1>6. ASSUME NEW w \in Nat \ {0}, OfWidth(w)
      PROVE  sum = SumOver(Below[n]) /\ (n # Root => Full(sum, w))
  <2>1. CASE IsLeaf(n)
    <3>1. Below[n] = {n}
      BY <2>1, LeafBelow
    <3>2. sum = SumOver(Below[n])
      BY <1>2, <2>1, <3>1, SumOverOne DEF TypeInv
    <3>3. n # Root => Full(OwnData(n), w)
      BY <1>2, <1>6, <2>1, OwnWidth
    <3>. QED  BY <1>2, <2>1, <3>2, <3>3
  <2>2. CASE ~ IsLeaf(n)
    <3>1. \A c \in Children(n) : pc[c] = "done" => Settled(c, w)
      BY <1>6 DEF SumInv, OwnInv, Settled, Children
    <3>2. \A i \in DOMAIN lengths[n] :
            \E c \in Children(n) : pc[c] = "done" /\ lengths[n][i] = Width(grouped[c])
      BY DEF LengthInv
    <3>3. /\ input \in Inputs /\ IsList(datas[n]) /\ IsList(lengths[n])
          /\ AllChildrenSent(n)
      BY <1>1, <2>2 DEF TypeInv
    <3>4. Collected(n) = SumOver(Below[n]) /\ (n # Root => Full(Collected(n), w))
      BY <1>2, <1>3, <1>6, <2>2, <3>1, <3>2, <3>3, CollectedSum
    <3>. QED  BY <2>2, <3>4
  <2>. QED  BY <2>1, <2>2
<1>. HIDE DEF sum
<1>7. /\ grouped'[n] = sum /\ grouped' = [m \in Node |-> grouped'[m]]
      /\ pc'[n] = IF n = Root THEN "report" ELSE "done"
      /\ n # Root => wire'[n] = Messages(sum)
      /\ wire' = [m \in Node |-> wire'[m]]
      /\ pc' \in [Node -> {"check", "announcement", "ascend", "report", "done", "failed"}]
      /\ \A m \in Node \ {n} :
           pc'[m] = pc[m] /\ grouped'[m] = grouped[m] /\ wire'[m] = wire[m]
  BY <1>1 DEF TypeInv
<1>8. TypeInv'
  BY <1>1, <1>7 DEF TypeInv
<1>9. WireInv'
  <2>1. ASSUME NEW c \in Node \ {Root}
        PROVE  /\ pc'[c] # "report"
               /\ pc'[c] # "done" => wire'[c] = <<>>
               /\ pc'[c] = "done" =>
                    wire'[c] \in {<<>>, <<Data(grouped'[c])>>, Messages(grouped'[c])}
    <3>1. CASE c = n
      BY <1>7, <3>1
    <3>2. CASE c # n
      BY <1>7, <3>2 DEF WireInv
    <3>. QED  BY <3>1, <3>2
  <2>. QED  BY <2>1 DEF WireInv
<1>10. FeedbackInv'
  <2>1. feedback # {} => n # Root
    BY <1>1 DEF FeedbackInv
  <2>2. Root \in Node
    BY TreeAssumption
  <2>. QED  BY <1>1, <1>7, <2>1, <2>2 DEF FeedbackInv
<1>11. \A c \in Node : pc[c] = "done" => /\ pc'[c] = "done" /\ grouped'[c] = grouped[c]
                                         /\ wire'[c] = wire[c]
  BY <1>1, <1>7
<1>12. NothingLeftBehind'
  <2>1. ASSUME NEW c \in Node \ {Root}, pc'[Parent[c]] \in {"report", "done"}
        PROVE  pc'[c] = "done" /\ wire'[c] = <<>>
    <3>1. Parent[c] \in Node
      BY TreeAssumption
    <3>2. CASE Parent[c] = n
      BY <1>4, <1>11, <3>2 DEF Delivered, Children
    <3>3. CASE Parent[c] # n
      BY <1>7, <1>11, <2>1, <3>1, <3>3 DEF NothingLeftBehind
    <3>. QED  BY <3>2, <3>3
  <2>. QED  BY <2>1 DEF NothingLeftBehind
<1>13. LengthInv' /\ DataInv'
  BY <1>1, <1>11, LengthKept, DataKept DEF Delivered
<1>14. OwnInv'
  <2>1. ASSUME NEW m \in Node
        PROVE  /\ pc'[m] \in {"announcement", "ascend"} =>
                    HasData(m)' /\ grouped'[m] = OwnData(m)'
               /\ pc'[m] \in {"report", "done"} => \A d \in Below[m] : HasData(d)'
    <3>1. CASE m = n
      BY <1>1, <1>5, <1>7, <3>1, Same
    <3>2. CASE m # n
      BY <1>1, <1>7, <3>2, Same DEF OwnInv
    <3>. QED  BY <3>1, <3>2
  <2>. QED  BY <2>1 DEF OwnInv
<1>15. SumInv'
  <2>1. \A m \in Node :
          pc'[m] \in {"report", "done"} =>
            \/ pc[m] \in {"report", "done"} /\ grouped'[m] = grouped[m]
            \/ \A w \in Nat \ {0} :
                 OfWidth(w) => /\ grouped'[m] = SumOver(Below[m])
                               /\ m # Root => Full(grouped'[m], w)
    BY <1>6, <1>7
  <2>. QED  BY <1>1, <2>1, SumKept
<1>. QED  BY <1>8, <1>9, <1>10, <1>12, <1>13, <1>14, <1>15

(* A message arrives: the length of a child's data, or the data of a child *)
(* whose data had not arrived before.                                      *)
LEMMA DeliverStep ==
  ASSUME IInv, NEW c \in Node, Deliver(c)
  PROVE  IInv'
<1>. USE DEF IInv
<1>. DEFINE n == Parent[c]
            m == Head(wire[c])
            v == grouped[c]
<1>1. /\ c \in Node \ {Root} /\ wire[c] # <<>> /\ n \in Node /\ c \in Children(n)
      /\ wire' = [wire EXCEPT ![c] = Tail(@)]
      /\ UNCHANGED <<input, pc, trigger, grouped, feedback>>
  BY TreeAssumption DEF Deliver, Children
<1>2. /\ wire'[c] = Tail(wire[c]) /\ wire' = [d \in Node |-> wire'[d]]
      /\ \A d \in Node \ {c} : wire'[d] = wire[d]
  BY <1>1 DEF TypeInv
<1>3. pc[c] = "done"
  BY <1>1 DEF WireInv
<1>4. \/ m = Length(Width(v)) /\ wire'[c] = <<Data(v)>>
      \/ m = Data(v) /\ wire'[c] = <<>>
  <2>1. wire[c] = <<Data(v)>> \/ wire[c] = <<Length(Width(v)), Data(v)>>
    BY <1>1, <1>3 DEF WireInv, Messages
  <2>. HIDE DEF v
  <2>2. CASE wire[c] = <<Data(v)>>
    BY <1>2, <2>2
  <2>3. CASE wire[c] = <<Length(Width(v)), Data(v)>>
    BY <1>2, <2>3
  <2>. QED  BY <2>1, <2>2, <2>3
<1>5. FeedbackInv' /\ OwnInv' /\ SumInv'
  <2>1. FeedbackInv' /\ OwnInv'
    BY <1>1, Same DEF FeedbackInv, OwnInv
  <2>. QED  BY <1>1, <2>1, SumKept
<1>6. WireInv'
  BY <1>1, <1>2, <1>3, <1>4 DEF WireInv
<1>7. \A d \in Node \ {Root} : Delivered(d) => Delivered(d)'
  BY <1>1, <1>2 DEF Delivered
<1>8. NothingLeftBehind'
  <2>1. \A d \in Node \ {Root} : wire[d] = <<>> => wire'[d] = <<>>
    BY <1>1, <1>2
  <2>. QED  BY <1>1, <2>1 DEF NothingLeftBehind
<1>9. CASE m = Length(Width(v)) /\ wire'[c] = <<Data(v)>>
  <2>1. /\ lengths' = [lengths EXCEPT ![n] = Append(@, Width(v))] /\ datas' = datas
        /\ lengths'[n] = Append(lengths[n], Width(v))
        /\ \A d \in Node \ {n} : lengths'[d] = lengths[d]
        /\ lengths' = [d \in Node |-> lengths'[d]]
    BY <1>1, <1>9 DEF Deliver, Length, TypeInv
  <2>2. IsList(lengths[n])
    BY <1>1 DEF TypeInv
  <2>3. TypeInv'
    BY <1>1, <1>2, <2>1, <2>2, ListFacts DEF TypeInv
  <2>4. LengthInv'
    <3>1. ASSUME NEW d \in Node, NEW i \in DOMAIN lengths'[d]
          PROVE  \E e \in Children(d) : pc[e] = "done" /\ lengths'[d][i] = Width(grouped[e])
      <4>1. CASE d # n
        BY <2>1, <4>1 DEF LengthInv
      <4>2. CASE d = n
        <5>. DEFINE k == Len(lengths[n])
        <5>1. /\ k \in Nat /\ DOMAIN lengths[n] = 1..k /\ DOMAIN lengths'[n] = 1..(k + 1)
              /\ lengths'[n][k + 1] = Width(v)
              /\ \A j \in 1..k : lengths'[n][j] = lengths[n][j]
          BY <2>1, <2>2, ListFacts
        <5>2. i = k + 1 \/ i \in 1..k
          BY <3>1, <4>2, <5>1
        <5>3. CASE i = k + 1
          BY <1>1, <1>3, <4>2, <5>1, <5>3
        <5>4. CASE i \in 1..k
          BY <1>1, <4>2, <5>1, <5>4 DEF LengthInv
        <5>. QED  BY <5>2, <5>3, <5>4
      <4>. QED  BY <4>1, <4>2
    <3>. QED  BY <1>1, <3>1 DEF LengthInv
  <2>5. DataInv'
    BY <1>1, <1>7, <2>1, DataKept
  <2>. QED  BY <1>5, <1>6, <1>8, <2>3, <2>4, <2>5
<1>10. CASE m = Data(v) /\ wire'[c] = <<>>
  <2>1. /\ datas' = [datas EXCEPT ![n] = Append(@, v)] /\ lengths' = lengths
        /\ datas'[n] = Append(datas[n], v)
        /\ \A d \in Node \ {n} : datas'[d] = datas[d]
        /\ datas' = [d \in Node |-> datas'[d]]
    BY <1>1, <1>10 DEF Deliver, Data, TypeInv
  <2>2. IsList(datas[n])
    BY <1>1 DEF TypeInv
  <2>3. TypeInv'
    BY <1>1, <1>2, <2>1, <2>2, ListFacts DEF TypeInv
  <2>4. LengthInv'
    BY <1>1, <2>1, LengthKept
  <2>5. ASSUME NEW p \in Node \ {n}
        PROVE  \E source \in [DOMAIN datas'[p] -> Children(p)] : IsSource(p, source)'
    <3>1. PICK source \in [DOMAIN datas[p] -> Children(p)] : IsSource(p, source)
      BY DEF DataInv
    <3>2. datas'[p] = datas[p]
      BY <2>1
    <3>3. \A i \in DOMAIN datas[p] : source[i] \in Node \ {Root}
      BY DEF Children
    <3>4. IsSource(p, source)'
      BY <1>1, <1>7, <3>1, <3>2, <3>3 DEF IsSource
    <3>. QED  BY <3>2, <3>4
  <2>6. \E source \in [DOMAIN datas'[n] -> Children(n)] : IsSource(n, source)'
    <3>1. PICK source \in [DOMAIN datas[n] -> Children(n)] : IsSource(n, source)
      BY <1>1 DEF DataInv
    <3>. DEFINE k == Len(datas[n])
    <3>2. /\ k \in Nat /\ DOMAIN datas[n] = 1..k /\ DOMAIN datas'[n] = 1..(k + 1)
          /\ datas'[n][k + 1] = v /\ \A i \in 1..k : datas'[n][i] = datas[n][i]
      BY <2>1, <2>2, ListFacts
    <3>3. \A i \in 1..k : /\ source[i] \in Node \ {Root} /\ source[i] # c
                          /\ Delivered(source[i])
                          /\ datas[n][i] = grouped[source[i]]
      BY <1>1, <3>1, <3>2 DEF IsSource, Delivered, Children
    <3>4. \A i \in 1..(k + 1) : i = k + 1 \/ i \in 1..k
      BY <3>2
    <3>5. PICK new \in [1..(k + 1) -> Children(n)] :
            new[k + 1] = c /\ \A i \in 1..k : new[i] = source[i]
      <4>. DEFINE f == [i \in 1..(k + 1) |-> IF i = k + 1 THEN c ELSE source[i]]
      <4>1. f[k + 1] = c /\ \A i \in 1..k : f[i] = source[i]
        BY <3>2
      <4>2. f \in [1..(k + 1) -> Children(n)]
        BY <1>1, <3>1, <3>2, <3>4
      <4>. HIDE DEF f, k
      <4>. QED  BY <4>1, <4>2
    <3>6. \A i, j \in 1..(k + 1) : new[i] = new[j] => i = j
      <4>. HIDE DEF k
      <4>1. \A i, j \in 1..k : source[i] = source[j] => i = j
        BY <3>1, <3>2 DEF IsSource
      <4>. QED  BY <3>3, <3>4, <3>5, <4>1
    <3>7. \A i \in 1..(k + 1) : Delivered(new[i])' /\ datas'[n][i] = grouped'[new[i]]
      <4>. HIDE DEF k
      <4>1. Delivered(c)' /\ datas'[n][k + 1] = grouped'[c]
        BY <1>1, <1>3, <1>10, <3>2 DEF Delivered
      <4>2. \A i \in 1..k : /\ Delivered(source[i])'
                            /\ datas'[n][i] = grouped'[source[i]]
        BY <1>1, <1>7, <3>2, <3>3
      <4>3. ASSUME NEW i \in 1..(k + 1)
            PROVE  Delivered(new[i])' /\ datas'[n][i] = grouped'[new[i]]
        <5>1. CASE i = k + 1
          BY <3>5, <4>1, <5>1 DEF Delivered
        <5>2. CASE i \in 1..k
          BY <3>5, <4>2, <5>2 DEF Delivered
        <5>. QED  BY <3>4, <5>1, <5>2
      <4>. QED  BY <4>3
    <3>. HIDE DEF k
    <3>8. IsSource(n, new)'
      BY <3>2, <3>5, <3>6, <3>7 DEF IsSource
    <3>. QED  BY <3>2, <3>5, <3>8
  <2>7. DataInv'
    BY <2>5, <2>6 DEF DataInv
  <2>. QED  BY <1>5, <1>6, <1>8, <2>3, <2>4, <2>7
<1>. QED  BY <1>4, <1>9, <1>10

LEMMA StepInv == IInv /\ [Next]_vars => IInv'
<1>. SUFFICES ASSUME IInv, [Next]_vars
              PROVE  IInv'
  OBVIOUS
<1>1. CASE Next
  BY <1>1, StartStep, ReportStep, CheckDataStep, AnnouncementStep, DeliverStep,
     AscendStep DEF Next, Step
<1>2. CASE UNCHANGED vars
  <2>. USE <1>2 DEF vars, IInv
  <2>1. TypeInv' /\ WireInv' /\ FeedbackInv' /\ NothingLeftBehind'
    BY DEF TypeInv, WireInv, FeedbackInv, NothingLeftBehind
  <2>2. LengthInv' /\ DataInv'
    BY LengthKept, DataKept DEF Delivered
  <2>3. OwnInv' /\ SumInv'
    BY Same, SumKept DEF OwnInv
  <2>. QED  BY <2>1, <2>2, <2>3
<1>. QED  BY <1>1, <1>2

THEOREM Invariance == Spec => []IInv
BY InitInv, StepInv, PTL DEF Spec

-----------------------------------------------------------------------------
(* For every tree and everything the nodes are given: a node that has sent *)
(* its sum or reports has the data of each of its children, and nothing of *)
(* theirs is still under way.                                              *)
THEOREM AllDataTaken == Spec => []NothingLeftBehind
BY Invariance, PTL DEF IInv

(* If the vectors below the root have one length and every leaf has a      *)
(* group, the root reports the sum of what all nodes were given, however   *)
(* the messages of the children interleave and whoever gives up.           *)
THEOREM SumCorrect == Spec => [](OneWidth => ResultIsWholeSum)
<1>1. IInv => (OneWidth => ResultIsWholeSum)
  <2>. SUFFICES ASSUME IInv, OneWidth, NEW result \in feedback
                PROVE  result = SumOver(Node)
    BY DEF ResultIsWholeSum
  <2>1. PICK w \in Nat \ {0} : OfWidth(w)
    BY DEF OneWidth
  <2>2. pc[Root] = "done" /\ result = grouped[Root]
    BY DEF IInv, FeedbackInv
  <2>3. grouped[Root] = SumOver(Below[Root])
    BY <2>1, <2>2, TreeAssumption DEF IInv, SumInv
  <2>. QED  BY <2>2, <2>3, BelowAssumption
<1>. QED  BY <1>1, Invariance, PTL
=============================================================================
