---------------------- MODULE DeterministicTaggingProofs ----------------------
(***************************************************************************)
(* Theorems about DeterministicTagging for every set of servers, circuits, *)
(* keys, secrets and ciphertexts, with and without faults.                 *)
(*                                                                         *)
(* The messages of an instance are numbered from 1 in the order they are   *)
(* sent.  A server is due to receive two of them, one in each round, and   *)
(* their numbers say all there is to know about the state of the circuit.  *)
(***************************************************************************)
EXTENDS DeterministicTagging, FiniteSetTheorems, SequenceTheorems,
        WellFoundedInduction, TLAPS

N(r) == Len(ListOf[r])

(* The number of the first message for s in the circuit of r.  The second  *)
(* comes one round later.                                                  *)
First(r, s) == IF s = r THEN N(r) ELSE PositionOf(ListOf[r], s) - 1
Due(r, s, h) == h = First(r, s) \/ h = First(r, s) + N(r)

(* The servers that have done their first, their second step when message  *)
(* h is sent.                                                              *)
Added(r, h) == {s \in Server : First(r, s) < h}
Tagged(r, h) == {s \in Server : First(r, s) + N(r) < h}

(* Sums and products of the survey secrets of sets of servers.             *)
IsContribSum(f, S) ==
  /\ f \in [SUBSET S -> Int] /\ f[{}] = 0
  /\ \A X \in SUBSET S : \A s \in S \ X : f[X \cup {s}] = f[X] + Contrib[s]
IsContribProduct(f, S) ==
  /\ f \in [SUBSET S -> Int \ {0}] /\ f[{}] = 1
  /\ \A X \in SUBSET S : \A s \in S \ X : f[X \cup {s}] = f[X] * Contrib[s]

ContribSum == CHOOSE f : IsContribSum(f, Server)
ContribProduct == CHOOSE f : IsContribProduct(f, Server)

(* What becomes of a ciphertext on its way: the secrets of A are added,    *)
(* the shares of B removed and its secrets multiplied.                     *)
Carried(ct, A, B) ==
  [K |-> ContribProduct[B] * ct.K,
   C |-> ContribProduct[B] * (ct.C + ContribSum[A] - KeySum[B] * ct.K)]

Message(r, h) ==
  [i \in DOMAIN Target[r] |-> Carried(Target[r][i], Added(r, h), Tagged(r, h))]

(* Of the messages of r, h have been sent.                                 *)
Hops(r, h) ==
  /\ h \in 0..(2 * N(r))
  /\ begun[r] # "done" => h = 0
  /\ begun[r] = "done" => h # 0
  /\ \A s \in Server :
       /\ inbox[r][s] # <<>> => Due(r, s, h) /\ inbox[r][s] = <<Message(r, h)>>
       /\ pc[r][s] = "round1" => h <= First(r, s)
       /\ pc[r][s] = "round2" => First(r, s) < h /\ h <= First(r, s) + N(r)
       /\ pc[r][s] = "done" => First(r, s) + N(r) < h \/ h = 2 * N(r)

HopInv == \A r \in Server : \E h \in 0..(2 * N(r)) : Hops(r, h)

Tag(ct) == ContribProduct[Server] * (Decrypt(ct) + ContribSum[Server])

FeedbackInv ==
  \A r \in Server : \A u \in 1..Len(feedback[r]) :
    feedback[r][u] = [i \in DOMAIN Target[r] |-> Tag(Target[r][i])]

IInv == TypeOK /\ HopInv /\ FeedbackInv

-----------------------------------------------------------------------------
(* Induction over finite sets, for a set given as a value.                 *)
LEMMA FiniteInduct ==
  ASSUME NEW S, IsFiniteSet(S), NEW T, {} \in T,
         \A X \in SUBSET S : \A x \in S \ X : X \in T => X \cup {x} \in T
  PROVE  S \in T
<1>. DEFINE U == {X \in SUBSET S : X \notin T}
<1>1. SUFFICES ASSUME S \notin T
               PROVE  FALSE
  OBVIOUS
<1>2. S \in U
  BY <1>1
<1>3. U \subseteq FiniteSubsetsOf(S)
  BY FS_Subset DEF FiniteSubsetsOf
<1>4. PICK X \in U : \A Y \in U : ~ (<<Y, X>> \in StrictSubsetOrdering(S))
  <2>. HIDE DEF U
  <2>1. IsWellFoundedOn(StrictSubsetOrdering(S), FiniteSubsetsOf(S))
    BY FS_StrictSubsetOrderingWellFounded
  <2>. QED  BY <1>2, <1>3, <2>1, WFMin, Zenon
<1>5. PICK x \in X : TRUE
  OBVIOUS
<1>. DEFINE Y == X \ {x}
<1>6. Y \in SUBSET S /\ x \in S \ Y /\ X = Y \cup {x}
  BY <1>5
<1>7. Y \notin T
  BY <1>6
<1>8. <<Y, X>> \in StrictSubsetOrdering(S)
  BY <1>5, <1>6 DEF StrictSubsetOrdering
<1>. QED  BY <1>4, <1>6, <1>7, <1>8

(* The sums and products of the secrets exist.                             *)
LEMMA SumDef == IsContribSum(ContribSum, Server)
<1>. DEFINE T == {S \in SUBSET Server : \E f : IsContribSum(f, S)}
<1>1. {} \in T
  <2>. DEFINE f == [X \in SUBSET {} |-> 0]
  <2>1. IsContribSum(f, {})
    BY DEF IsContribSum
  <2>. HIDE DEF f
  <2>2. \E g : IsContribSum(g, {})
    BY <2>1
  <2>. QED  BY <2>2
<1>2. ASSUME NEW S \in SUBSET Server, NEW x \in Server \ S, S \in T
      PROVE  S \cup {x} \in T
  <2>1. PICK f : IsContribSum(f, S)
    BY <1>2
  <2>. DEFINE R == S \cup {x}
              g == [X \in SUBSET R |-> IF x \in X THEN f[X \ {x}] + Contrib[x] ELSE f[X]]
  <2>2. f \in [SUBSET S -> Int] /\ f[{}] = 0 /\ Contrib[x] \in Int
    BY <2>1, SecretAssumption DEF IsContribSum
  <2>3. ASSUME NEW X \in SUBSET R
        PROVE  /\ X \ {x} \in SUBSET S /\ (x \notin X => X \in SUBSET S)
               /\ g[X] \in Int
    BY <2>2
  <2>4. g \in [SUBSET R -> Int] /\ g[{}] = 0
    BY <2>2, <2>3
  <2>5. ASSUME NEW X \in SUBSET R, NEW s \in R \ X
        PROVE  g[X \cup {s}] = g[X] + Contrib[s]
    <3>1. X \cup {s} \in SUBSET R /\ Contrib[s] \in Int
      BY SecretAssumption
    <3>2. CASE s = x
      <4>1. (X \cup {s}) \ {x} = X /\ x \in X \cup {s} /\ x \notin X
        BY <3>2
      <4>. QED  BY <3>1, <3>2, <4>1
    <3>3. CASE s # x /\ x \in X
      <4>1. /\ (X \cup {s}) \ {x} = (X \ {x}) \cup {s} /\ x \in X \cup {s}
            /\ X \ {x} \in SUBSET S /\ s \in S \ (X \ {x})
        BY <3>3
      <4>2. f[(X \ {x}) \cup {s}] = f[X \ {x}] + Contrib[s]
        BY <2>1, <4>1 DEF IsContribSum
      <4>3. f[X \ {x}] \in Int
        BY <2>2, <4>1
      <4>4. g[X \cup {s}] = f[(X \ {x}) \cup {s}] + Contrib[x] /\ g[X] = f[X \ {x}] + Contrib[x]
        BY <3>1, <3>3, <4>1
      <4>. QED  BY <2>2, <3>1, <4>2, <4>3, <4>4
    <3>4. CASE s # x /\ x \notin X
      <4>1. X \in SUBSET S /\ s \in S \ X /\ x \notin X \cup {s}
        BY <3>4
      <4>2. f[X \cup {s}] = f[X] + Contrib[s]
        BY <2>1, <4>1 DEF IsContribSum
      <4>. QED  BY <3>1, <4>1, <4>2
    <3>. QED  BY <3>2, <3>3, <3>4
  <2>. HIDE DEF g
  <2>6. IsContribSum(g, R)
    BY <2>4, <2>5 DEF IsContribSum
  <2>7. \E h : IsContribSum(h, R)
    BY <2>6
  <2>. QED  BY <2>7
<1>3. IsFiniteSet(Server)
  BY CircuitAssumption
<1>. HIDE DEF T
<1>4. Server \in T
  BY <1>1, <1>2, <1>3, FiniteInduct
<1>5. \E f : IsContribSum(f, Server)
  BY <1>4 DEF T
<1>. QED  BY <1>5 DEF ContribSum

LEMMA NonZero == \A a, b \in Int \ {0} : a * b \in Int \ {0}
OBVIOUS

LEMMA ProductDef == IsContribProduct(ContribProduct, Server)
<1>. DEFINE T == {S \in SUBSET Server : \E f : IsContribProduct(f, S)}
<1>1. {} \in T
  <2>. DEFINE f == [X \in SUBSET {} |-> 1]
  <2>1. IsContribProduct(f, {})
    BY DEF IsContribProduct
  <2>. HIDE DEF f
  <2>2. \E g : IsContribProduct(g, {})
    BY <2>1
  <2>. QED  BY <2>2
<1>2. ASSUME NEW S \in SUBSET Server, NEW x \in Server \ S, S \in T
      PROVE  S \cup {x} \in T
  <2>1. PICK f : IsContribProduct(f, S)
    BY <1>2
  <2>. DEFINE R == S \cup {x}
              g == [X \in SUBSET R |-> IF x \in X THEN f[X \ {x}] * Contrib[x] ELSE f[X]]
  <2>2. f \in [SUBSET S -> Int \ {0}] /\ f[{}] = 1 /\ Contrib[x] \in Int \ {0}
    BY <2>1, SecretAssumption DEF IsContribProduct
  <2>3. ASSUME NEW X \in SUBSET R
        PROVE  /\ X \ {x} \in SUBSET S /\ (x \notin X => X \in SUBSET S)
               /\ g[X] \in Int \ {0}
    BY <2>2, NonZero
  <2>4. g \in [SUBSET R -> Int \ {0}] /\ g[{}] = 1
    BY <2>2, <2>3
  <2>5. ASSUME NEW X \in SUBSET R, NEW s \in R \ X
        PROVE  g[X \cup {s}] = g[X] * Contrib[s]
    <3>1. X \cup {s} \in SUBSET R /\ Contrib[s] \in Int \ {0}
      BY SecretAssumption
    <3>2. CASE s = x
      <4>1. (X \cup {s}) \ {x} = X /\ x \in X \cup {s} /\ x \notin X
        BY <3>2
      <4>. QED  BY <3>1, <3>2, <4>1
    <3>3. CASE s # x /\ x \in X
      <4>1. /\ (X \cup {s}) \ {x} = (X \ {x}) \cup {s} /\ x \in X \cup {s}
            /\ X \ {x} \in SUBSET S /\ s \in S \ (X \ {x})
        BY <3>3
      <4>2. f[(X \ {x}) \cup {s}] = f[X \ {x}] * Contrib[s]
        BY <2>1, <4>1 DEF IsContribProduct
      <4>3. f[X \ {x}] \in Int \ {0}
        BY <2>2, <4>1
      <4>4. g[X \cup {s}] = f[(X \ {x}) \cup {s}] * Contrib[x] /\ g[X] = f[X \ {x}] * Contrib[x]
        BY <3>1, <3>3, <4>1
      <4>. QED  BY <2>2, <3>1, <4>2, <4>3, <4>4
    <3>4. CASE s # x /\ x \notin X
      <4>1. X \in SUBSET S /\ s \in S \ X /\ x \notin X \cup {s}
        BY <3>4
      <4>2. f[X \cup {s}] = f[X] * Contrib[s]
        BY <2>1, <4>1 DEF IsContribProduct
      <4>. QED  BY <3>1, <4>1, <4>2
    <3>. QED  BY <3>2, <3>3, <3>4
  <2>. HIDE DEF g
  <2>6. IsContribProduct(g, R)
    BY <2>4, <2>5 DEF IsContribProduct
  <2>7. \E h : IsContribProduct(h, R)
    BY <2>6
  <2>. QED  BY <2>7
<1>3. IsFiniteSet(Server)
  BY CircuitAssumption
<1>. HIDE DEF T
<1>4. Server \in T
  BY <1>1, <1>2, <1>3, FiniteInduct
<1>5. \E f : IsContribProduct(f, Server)
  BY <1>4 DEF T
<1>. QED  BY <1>5 DEF ContribProduct

-----------------------------------------------------------------------------
(* The circuit: every server has its place in it, and the next server is   *)
(* due the next message.                                                   *)
LEMMA ListType ==
  ASSUME NEW r \in Server
  PROVE  /\ ListOf[r] \in Seq(Server) /\ N(r) \in Nat \ {0} /\ ListOf[r][1] = r
         /\ DOMAIN ListOf[r] = 1..N(r)
         /\ \A i \in 1..N(r) : ListOf[r][i] \in Server
         /\ \A i, j \in 1..N(r) : ListOf[r][i] = ListOf[r][j] => i = j
         /\ \A s \in Server : \E i \in 1..N(r) : ListOf[r][i] = s
<1>1. ListOf[r] \in Seq(Server) /\ N(r) > 0
  BY CircuitAssumption DEF N
<1>2. DOMAIN ListOf[r] = 1..N(r) /\ N(r) \in Nat \ {0}
  BY <1>1 DEF N
<1>3. \A i \in 1..N(r) : ListOf[r][i] \in Server
  BY <1>1, ElementOfSeq DEF N
<1>4. /\ ListOf[r][1] = r
      /\ \A i, j \in DOMAIN ListOf[r] : ListOf[r][i] = ListOf[r][j] => i = j
      /\ \A s \in Server : \E i \in DOMAIN ListOf[r] : ListOf[r][i] = s
  BY CircuitAssumption DEF Root
<1>. QED  BY <1>1, <1>2, <1>3, <1>4

LEMMA Position ==
  ASSUME NEW r \in Server, NEW s \in Server
  PROVE  /\ PositionOf(ListOf[r], s) \in 1..N(r)
         /\ ListOf[r][PositionOf(ListOf[r], s)] = s
         /\ \A i \in 1..N(r) : ListOf[r][i] = s => PositionOf(ListOf[r], s) = i
         /\ PositionOf(ListOf[r], s) = 1 <=> s = r
<1>1. \E i \in DOMAIN ListOf[r] : ListOf[r][i] = s
  <2>1. DOMAIN ListOf[r] = 1..N(r) /\ \E i \in 1..N(r) : ListOf[r][i] = s
    BY ListType
  <2>. QED  BY <2>1
<1>2. PositionOf(ListOf[r], s) \in DOMAIN ListOf[r] /\ ListOf[r][PositionOf(ListOf[r], s)] = s
  BY <1>1 DEF PositionOf
<1>3. /\ DOMAIN ListOf[r] = 1..N(r) /\ 1 \in 1..N(r) /\ ListOf[r][1] = r
      /\ \A i, j \in 1..N(r) : ListOf[r][i] = ListOf[r][j] => i = j
  <2>1. N(r) \in Nat \ {0}
    BY ListType
  <2>2. 1 \in 1..N(r)
    BY <2>1
  <2>. QED  BY <2>2, ListType, Zenon
<1>4. PositionOf(ListOf[r], s) \in 1..N(r)
  BY <1>2, <1>3
<1>5. \A i \in 1..N(r) : ListOf[r][i] = s => PositionOf(ListOf[r], s) = i
  BY <1>2, <1>3, <1>4
<1>. QED  BY <1>2, <1>3, <1>4, <1>5

LEMMA FirstType ==
  ASSUME NEW r \in Server
  PROVE  /\ N(r) \in Nat \ {0}
         /\ \A s \in Server : First(r, s) \in 1..N(r)
         /\ \A s, t \in Server : First(r, s) = First(r, t) => s = t
         /\ First(r, r) = N(r)
         /\ \A s \in Server \ {r} : First(r, s) < N(r)
<1>1. N(r) \in Nat \ {0} /\ First(r, r) = N(r)
  BY ListType DEF First
<1>2. ASSUME NEW s \in Server \ {r}
      PROVE  /\ First(r, s) = PositionOf(ListOf[r], s) - 1
             /\ First(r, s) \in 1..(N(r) - 1)
             /\ ListOf[r][First(r, s) + 1] = s
  BY <1>1, Position DEF First
<1>. QED  BY <1>1, <1>2

LEMMA DueOnce ==
  ASSUME NEW r \in Server, NEW s \in Server, NEW t \in Server, NEW h \in Int,
         Due(r, s, h), Due(r, t, h)
  PROVE  s = t
BY FirstType DEF Due

LEMMA NextDue ==
  ASSUME NEW r \in Server, NEW s \in Server
  PROVE  /\ NextInCircuit(ListOf[r], s) \in Server
         /\ First(r, NextInCircuit(ListOf[r], s)) =
              IF s = r THEN 1 ELSE First(r, s) + 1
<1>. DEFINE p == PositionOf(ListOf[r], s)
            t == NextInCircuit(ListOf[r], s)
            n == N(r)
<1>1. /\ n \in Nat \ {0} /\ p \in 1..n /\ t = ListOf[r][(p % n) + 1]
      /\ ListOf[r][1] = r
  BY ListType, Position DEF NextInCircuit, N
<1>2. \A i \in 1..n : ListOf[r][i] \in Server
  BY ListType
<1>3. CASE p = n
  <2>1. p % n = 0
    BY <1>1, <1>3
  <2>2. t = r
    BY <1>1, <2>1
  <2>3. First(r, t) = n
    BY <2>2 DEF First
  <2>4. s = r => n = 1
    BY <1>3, Position
  <2>5. s # r => First(r, s) = n - 1
    BY <1>3 DEF First
  <2>. QED  BY <1>1, <2>2, <2>3, <2>4, <2>5
<1>4. CASE p < n
  <2>1. p % n = p
    BY <1>1, <1>4
  <2>2. t = ListOf[r][p + 1] /\ p + 1 \in 1..n
    BY <1>1, <1>4, <2>1
  <2>3. t \in Server
    BY <1>2, <2>2
  <2>4. PositionOf(ListOf[r], t) = p + 1
    BY <2>2, <2>3, Position
  <2>5. t # r
    BY <1>1, <2>3, <2>4, Position
  <2>6. First(r, t) = p
    BY <1>1, <2>4, <2>5 DEF First
  <2>7. s = r => p = 1
    BY Position
  <2>8. s # r => First(r, s) = p - 1
    BY DEF First
  <2>. QED  BY <1>1, <2>3, <2>6, <2>7, <2>8
<1>. QED  BY <1>1, <1>3, <1>4

(* Who has done what when s receives its first and its second message.     *)
LEMMA AtFirst ==
  ASSUME NEW r \in Server, NEW s \in Server, NEW h, h = First(r, s)
  PROVE  /\ Added(r, h + 1) = Added(r, h) \cup {s} /\ s \notin Added(r, h)
         /\ Tagged(r, h) = {} /\ Tagged(r, h + 1) = {}
BY FirstType DEF Added, Tagged

LEMMA AtSecond ==
  ASSUME NEW r \in Server, NEW s \in Server, NEW h, h = First(r, s) + N(r)
  PROVE  /\ Added(r, h) = Server /\ Added(r, h + 1) = Server
         /\ Tagged(r, h + 1) = Tagged(r, h) \cup {s} /\ s \notin Tagged(r, h)
BY FirstType DEF Added, Tagged

LEMMA AtTheEnds ==
  ASSUME NEW r \in Server
  PROVE  /\ Added(r, 1) = {} /\ Tagged(r, 1) = {}
         /\ Added(r, 2 * N(r) + 1) = Server /\ Tagged(r, 2 * N(r) + 1) = Server
BY FirstType DEF Added, Tagged

-----------------------------------------------------------------------------
(* What the two rounds do to a ciphertext on its way.                      *)
LEMMA SumType ==
  ASSUME NEW A \in SUBSET Server
  PROVE  /\ ContribSum[A] \in Int /\ ContribProduct[A] \in Int \ {0} /\ KeySum[A] \in Int
         /\ \A s \in Server : Contrib[s] \in Int \ {0} /\ Priv[s] \in Int
BY SumDef, ProductDef, KeySumAssumption, SecretAssumption DEF IsContribSum, IsContribProduct

LEMMA CarriedType ==
  ASSUME NEW ct \in Ciphertext, NEW A \in SUBSET Server, NEW B \in SUBSET Server
  PROVE  Carried(ct, A, B) \in Ciphertext
<1>1. /\ ContribProduct[B] \in Int /\ ContribSum[A] \in Int /\ KeySum[B] \in Int
      /\ ct.K \in Int /\ ct.C \in Int
  BY SumType DEF Ciphertext
<1>2. /\ ContribProduct[B] * ct.K \in Int
      /\ ContribProduct[B] * (ct.C + ContribSum[A] - KeySum[B] * ct.K) \in Int
  BY <1>1
<1>. QED  BY <1>2 DEF Carried, Ciphertext

LEMMA CarriedAdd ==
  ASSUME NEW ct \in Ciphertext, NEW A \in SUBSET Server, NEW s \in Server \ A
  PROVE  AddContribution(Carried(ct, A, {}), s) = Carried(ct, A \cup {s}, {})
<1>1. /\ ContribSum[A] \in Int /\ Contrib[s] \in Int
      /\ ct.K \in Int /\ ct.C \in Int
  BY SumType DEF Ciphertext
<1>2. /\ ContribSum[A \cup {s}] = ContribSum[A] + Contrib[s]
      /\ ContribProduct[{}] = 1 /\ KeySum[{}] = 0
  BY SumDef, ProductDef, KeySumAssumption DEF IsContribSum, IsContribProduct
<1>3. \A a, b, c, k \in Int : 1 * (c + a - 0 * k) + b = 1 * (c + (a + b) - 0 * k)
  OBVIOUS
<1>. QED  BY <1>1, <1>2, <1>3 DEF AddContribution, Carried

LEMMA CarriedTag ==
  ASSUME NEW ct \in Ciphertext, NEW A \in SUBSET Server, NEW B \in SUBSET Server,
         NEW s \in Server \ B
  PROVE  DeterministicTag(Carried(ct, A, B), s) = Carried(ct, A, B \cup {s})
<1>. DEFINE x == ContribProduct[B]
            c == Contrib[s]
            a == ContribSum[A]
            p == Priv[s]
            q == KeySum[B]
            k == ct.K
            m == ct.C
<1>1. /\ x \in Int /\ c \in Int /\ a \in Int /\ p \in Int /\ q \in Int
      /\ k \in Int /\ m \in Int
  BY SumType DEF Ciphertext
<1>2. ContribProduct[B \cup {s}] = x * c /\ KeySum[B \cup {s}] = q + p
  BY ProductDef, KeySumAssumption DEF IsContribProduct
<1>3. /\ DeterministicTag(Carried(ct, A, B), s) =
           [K |-> c * (x * k), C |-> c * (x * (m + a - q * k) - p * (x * k))]
      /\ Carried(ct, A, B \cup {s}) =
           [K |-> (x * c) * k, C |-> (x * c) * (m + a - (q + p) * k)]
  BY <1>2 DEF DeterministicTag, Carried
<1>. HIDE DEF x, c, a, p, q, k, m
<1>4. c * (x * k) = (x * c) * k
  BY <1>1
<1>5. c * (x * (m + a - q * k) - p * (x * k)) = (x * c) * (m + a - (q + p) * k)
  BY <1>1
<1>. QED  BY <1>3, <1>4, <1>5

-----------------------------------------------------------------------------
(* The messages, one after the other.                                      *)
LEMMA TargetType ==
  ASSUME NEW r \in Server
  PROVE  /\ Target[r] \in Seq(Ciphertext)
         /\ Len(Target[r]) \in Nat /\ DOMAIN Target[r] = 1..Len(Target[r])
         /\ \A i \in DOMAIN Target[r] : Target[r][i] \in Ciphertext
<1>1. Target[r] \in Seq(Ciphertext)
  BY SecretAssumption
<1>2. Len(Target[r]) \in Nat /\ DOMAIN Target[r] = 1..Len(Target[r])
  BY <1>1, LenProperties
<1>3. \A i \in DOMAIN Target[r] : Target[r][i] \in Ciphertext
  BY <1>1, <1>2, ElementOfSeq
<1>. QED  BY <1>1, <1>2, <1>3

LEMMA MessageType ==
  ASSUME NEW r \in Server, NEW h
  PROVE  /\ Message(r, h) \in Vector
         /\ DOMAIN Message(r, h) = DOMAIN Target[r]
         /\ Len(Message(r, h)) = Len(Target[r])
<1>. DEFINE n == Len(Target[r])
<1>1. n \in Nat /\ DOMAIN Target[r] = 1..n
  BY TargetType
<1>2. Added(r, h) \in SUBSET Server /\ Tagged(r, h) \in SUBSET Server
  BY DEF Added, Tagged
<1>3. Message(r, h) \in [1..n -> Ciphertext]
  BY <1>1, <1>2, TargetType, CarriedType DEF Message
<1>4. DOMAIN Message(r, h) = 1..n
  BY <1>1 DEF Message
<1>. HIDE DEF n
<1>5. Message(r, h) \in Seq(Ciphertext) /\ Len(Message(r, h)) = n
  BY <1>1, <1>3
<1>. QED  BY <1>1, <1>4, <1>5 DEF Vector, n

LEMMA FirstMessage ==
  ASSUME NEW r \in Server
  PROVE  Message(r, 1) = Target[r]
<1>1. ASSUME NEW i \in DOMAIN Target[r]
      PROVE  Carried(Target[r][i], {}, {}) = Target[r][i]
  <2>1. Target[r][i] \in [K : Int, C : Int]
    BY TargetType DEF Ciphertext
  <2>2. ContribSum[{}] = 0 /\ ContribProduct[{}] = 1 /\ KeySum[{}] = 0
    BY SumDef, ProductDef, KeySumAssumption DEF IsContribSum, IsContribProduct
  <2>. QED  BY <2>1, <2>2 DEF Carried
<1>2. Message(r, 1) = [i \in DOMAIN Target[r] |-> Target[r][i]]
  BY <1>1, AtTheEnds DEF Message
<1>3. Target[r] = [i \in DOMAIN Target[r] |-> Target[r][i]]
  <2>1. Target[r] \in Seq(Ciphertext)
    BY TargetType
  <2>. QED  BY <2>1
<1>. QED  BY <1>2, <1>3

LEMMA AfterFirst ==
  ASSUME NEW r \in Server, NEW s \in Server, NEW h, h = First(r, s)
  PROVE  AdditionRound(Message(r, h), s) = Message(r, h + 1)
<1>1. Added(r, h) \in SUBSET Server /\ s \in Server \ Added(r, h)
  BY AtFirst DEF Added
<1>2. \A i \in DOMAIN Target[r] :
        AddContribution(Message(r, h)[i], s) = Message(r, h + 1)[i]
  <2>. TAKE i \in DOMAIN Target[r]
  <2>1. /\ Message(r, h)[i] = Carried(Target[r][i], Added(r, h), {})
        /\ Message(r, h + 1)[i] = Carried(Target[r][i], Added(r, h) \cup {s}, {})
    BY AtFirst DEF Message
  <2>2. Target[r][i] \in Ciphertext
    BY TargetType
  <2>. QED  BY <1>1, <2>1, <2>2, CarriedAdd
<1>. QED  BY <1>2 DEF AdditionRound, Message

LEMMA AfterSecond ==
  ASSUME NEW r \in Server, NEW s \in Server, NEW h, h = First(r, s) + N(r)
  PROVE  DeterministicTagSequence(Message(r, h), s) = Message(r, h + 1)
<1>1. Tagged(r, h) \in SUBSET Server /\ s \in Server \ Tagged(r, h)
  BY AtSecond DEF Tagged
<1>2. \A i \in DOMAIN Target[r] :
        DeterministicTag(Message(r, h)[i], s) = Message(r, h + 1)[i]
  <2>. TAKE i \in DOMAIN Target[r]
  <2>1. /\ Message(r, h)[i] = Carried(Target[r][i], Server, Tagged(r, h))
        /\ Message(r, h + 1)[i] = Carried(Target[r][i], Server, Tagged(r, h) \cup {s})
    BY AtSecond DEF Message
  <2>2. Target[r][i] \in Ciphertext
    BY TargetType
  <2>. QED  BY <1>1, <2>1, <2>2, CarriedTag
<1>. QED  BY <1>2 DEF DeterministicTagSequence, Message

LEMMA LastMessage ==
  ASSUME NEW r \in Server
  PROVE  TagsOf(Message(r, 2 * N(r) + 1)) = [i \in DOMAIN Target[r] |-> Tag(Target[r][i])]
<1>1. ASSUME NEW i \in DOMAIN Target[r]
      PROVE  Carried(Target[r][i], Server, Server).C = Tag(Target[r][i])
  <2>1. Target[r][i].K \in Int /\ Target[r][i].C \in Int
    BY TargetType DEF Ciphertext
  <2>2. ContribSum[Server] \in Int /\ KeySum[Server] \in Int
    BY SumType
  <2>3. Target[r][i].C + ContribSum[Server] - KeySum[Server] * Target[r][i].K
          = (Target[r][i].C - KeySum[Server] * Target[r][i].K) + ContribSum[Server]
    BY <2>1, <2>2
  <2>. QED  BY <2>3 DEF Carried, Tag, Decrypt
<1>. QED  BY <1>1, AtTheEnds DEF TagsOf, Message

-----------------------------------------------------------------------------
(* What the steps do to the inboxes of one circuit.                        *)
BoxHolds(box, r, s, v) ==
  LET t == NextInCircuit(ListOf[r], s)
  IN  /\ box \in [Server -> [Server -> Seq(Vector)]]
      /\ box[r][t] = <<v>> /\ \A u \in Server \ {t} : box[r][u] = <<>>
      /\ \A q \in Server \ {r} : box[q] = inbox[q]

BoxEmpty(box, r) ==
  /\ box \in [Server -> [Server -> Seq(Vector)]]
  /\ \A u \in Server : box[r][u] = <<>>
  /\ \A q \in Server \ {r} : box[q] = inbox[q]

LEMMA AppendToEmpty == \A v : Append(<<>>, v) = <<v>>
OBVIOUS

LEMMA TailOfOne == \A m : Tail(<<m>>) = <<>>
OBVIOUS

LEMMA OneIsSeq == \A m, v : <<m>> \in Seq({m, v}) /\ <<m>> # <<>>
OBVIOUS

LEMMA TailOfTwo ==
  ASSUME NEW m, NEW v
  PROVE  Tail(Append(<<m>>, v)) = <<v>>
<1>1. Tail(Append(<<m>>, v)) = Append(Tail(<<m>>), v)
  BY OneIsSeq, HeadTailAppend
<1>. QED  BY <1>1, TailOfOne, AppendToEmpty

LEMMA SentOn ==
  ASSUME TypeOK, NEW r \in Server, NEW s \in Server, NEW v \in Vector,
         \A u \in Server : inbox[r][u] = <<>>
  PROVE  BoxHolds(Sent(r, s, v), r, s, v)
<1>. DEFINE t == NextInCircuit(ListOf[r], s)
<1>1. t \in Server
  BY NextDue
<1>2. inbox[r][t] = <<>> /\ Append(inbox[r][t], v) = <<v>>
  BY <1>1, AppendToEmpty
<1>3. <<v>> \in Seq(Vector)
  OBVIOUS
<1>4. Sent(r, s, v) = [inbox EXCEPT ![r][t] = <<v>>]
  BY <1>2 DEF Sent
<1>5. /\ Sent(r, s, v) \in [Server -> [Server -> Seq(Vector)]]
      /\ Sent(r, s, v)[r][t] = <<v>>
      /\ \A u \in Server \ {t} : Sent(r, s, v)[r][u] = <<>>
      /\ \A q \in Server \ {r} : Sent(r, s, v)[q] = inbox[q]
  <2>. HIDE DEF t
  <2>. QED  BY <1>1, <1>3, <1>4 DEF TypeOK
<1>. QED  BY <1>5 DEF BoxHolds

LEMMA PassedOn ==
  ASSUME TypeOK, NEW r \in Server, NEW s \in Server, NEW v \in Vector,
         NEW m, inbox[r][s] = <<m>>, \A u \in Server \ {s} : inbox[r][u] = <<>>
  PROVE  BoxHolds(Consumed(r, s, Sent(r, s, v)), r, s, v)
<1>. DEFINE t == NextInCircuit(ListOf[r], s)
            sent == Sent(r, s, v)
            box == Consumed(r, s, sent)
<1>1. t \in Server /\ <<v>> \in Seq(Vector) /\ <<>> \in Seq(Vector)
  BY NextDue
<1>2. inbox[r][t] \in Seq(Vector) /\ Append(inbox[r][t], v) \in Seq(Vector)
  BY <1>1 DEF TypeOK
<1>3. /\ sent = [inbox EXCEPT ![r][t] = Append(inbox[r][t], v)]
      /\ box = [sent EXCEPT ![r][s] = Tail(sent[r][s])]
  BY DEF Sent, Consumed
<1>. HIDE DEF t, sent, box
<1>4. /\ sent \in [Server -> [Server -> Seq(Vector)]]
      /\ sent[r][t] = Append(inbox[r][t], v)
      /\ \A u \in Server \ {t} : sent[r][u] = inbox[r][u]
      /\ \A q \in Server \ {r} : sent[q] = inbox[q]
  BY <1>1, <1>2, <1>3 DEF TypeOK
<1>5. Tail(sent[r][s]) = IF t = s THEN <<v>> ELSE <<>>
  <2>1. CASE t = s
    <3>1. sent[r][s] = Append(<<m>>, v)
      BY <1>4, <2>1
    <3>. QED  BY <2>1, <3>1, TailOfTwo
  <2>2. CASE t # s
    <3>1. sent[r][s] = <<m>>
      BY <1>4, <2>2
    <3>. QED  BY <2>2, <3>1, TailOfOne
  <2>. QED  BY <2>1, <2>2
<1>6. t # s => sent[r][t] = <<v>>
  BY <1>1, <1>4, AppendToEmpty
<1>7. /\ box \in [Server -> [Server -> Seq(Vector)]]
      /\ box[r][s] = IF t = s THEN <<v>> ELSE <<>>
      /\ \A u \in Server \ {s} : box[r][u] = sent[r][u]
      /\ \A q \in Server \ {r} : box[q] = sent[q]
  <2>1. Tail(sent[r][s]) \in Seq(Vector)
    BY <1>1, <1>5
  <2>2. box[r] = [sent[r] EXCEPT ![s] = Tail(sent[r][s])]
    BY <1>3, <1>4
  <2>3. sent[r] \in [Server -> Seq(Vector)]
    BY <1>4
  <2>4. box[r] \in [Server -> Seq(Vector)]
    BY <2>1, <2>2, <2>3
  <2>5. \A q \in Server \ {r} : box[q] = sent[q]
    BY <1>3, <1>4
  <2>6. box \in [Server -> [Server -> Seq(Vector)]]
    BY <1>3, <1>4, <2>4, <2>5
  <2>. QED  BY <1>5, <2>2, <2>3, <2>5, <2>6
<1>8. box[r][t] = <<v>>
  BY <1>1, <1>6, <1>7
<1>9. \A u \in Server \ {t} : box[r][u] = <<>>
  BY <1>4, <1>7
<1>10. \A q \in Server \ {r} : box[q] = inbox[q]
  BY <1>4, <1>7
<1>11. BoxHolds(box, r, s, v)
  BY <1>7, <1>8, <1>9, <1>10 DEF BoxHolds, t
<1>. QED  BY <1>11 DEF box, sent

LEMMA TakenOff ==
  ASSUME TypeOK, NEW r \in Server, NEW s \in Server,
         NEW m, inbox[r][s] = <<m>>, \A u \in Server \ {s} : inbox[r][u] = <<>>
  PROVE  BoxEmpty(Consumed(r, s, inbox), r)
<1>1. Tail(inbox[r][s]) = <<>>
  BY TailOfOne
<1>2. Consumed(r, s, inbox) = [inbox EXCEPT ![r][s] = <<>>]
  BY <1>1 DEF Consumed
<1>. QED  BY <1>2 DEF TypeOK, BoxEmpty

(* A message that has arrived is the only one of its circuit.              *)
LEMMA OnlyOne ==
  ASSUME NEW r \in Server, NEW h, Hops(r, h), NEW s \in Server, inbox[r][s] # <<>>
  PROVE  /\ Due(r, s, h) /\ inbox[r][s] = <<Message(r, h)>>
         /\ Head(inbox[r][s]) = Message(r, h)
         /\ \A u \in Server \ {s} : inbox[r][u] = <<>>
         /\ h \in 1..(2 * N(r)) /\ begun[r] = "done"
<1>1. Due(r, s, h) /\ inbox[r][s] = <<Message(r, h)>>
  BY DEF Hops
<1>2. h \in 1..(2 * N(r)) /\ begun[r] = "done"
  BY <1>1, FirstType DEF Hops, Due
<1>3. \A u \in Server \ {s} : inbox[r][u] = <<>>
  BY <1>1, <1>2, DueOnce DEF Hops
<1>. QED  BY <1>1, <1>2, <1>3

LEMMA OthersKept ==
  ASSUME HopInv, NEW r \in Server, NEW h \in 0..(2 * N(r)), Hops(r, h)',
         \A q \in Server \ {r} :
           begun'[q] = begun[q] /\ pc'[q] = pc[q] /\ inbox'[q] = inbox[q]
  PROVE  HopInv'
<1>1. SUFFICES ASSUME NEW q \in Server
               PROVE  \E g \in 0..(2 * N(q)) : Hops(q, g)'
  BY DEF HopInv
<1>2. CASE q = r
  BY <1>2
<1>3. CASE q # r
  <2>1. PICK g \in 0..(2 * N(q)) : Hops(q, g)
    BY DEF HopInv
  <2>2. Hops(q, g)'
    BY <1>3, <2>1 DEF Hops
  <2>. QED  BY <2>2
<1>. QED  BY <1>2, <1>3

-----------------------------------------------------------------------------
(* The invariant holds initially and is preserved by every step.           *)
LEMMA InitInv == Init => IInv
<1>. SUFFICES ASSUME Init
              PROVE  IInv
  OBVIOUS
<1>1. TypeOK
  BY DEF Init, TypeOK
<1>2. HopInv
  <2>1. SUFFICES ASSUME NEW r \in Server
                 PROVE  \E h \in 0..(2 * N(r)) : Hops(r, h)
    BY DEF HopInv
  <2>2. 0 \in 0..(2 * N(r)) /\ \A s \in Server : 0 <= First(r, s)
    BY FirstType
  <2>3. Hops(r, 0)
    BY <2>2 DEF Hops, Init
  <2>. QED  BY <2>2, <2>3
<1>3. FeedbackInv
  BY DEF Init, FeedbackInv
<1>. QED  BY <1>1, <1>2, <1>3 DEF IInv

LEMMA StartStep ==
  ASSUME IInv, NEW r \in Server, Start(r)
  PROVE  IInv'
<1>. USE DEF IInv
<1>1. begun[r] = "no" /\ UNCHANGED <<pc, feedback>>
  BY DEF Start
<1>2. PICK h \in 0..(2 * N(r)) : Hops(r, h)
  BY DEF HopInv
<1>3. h = 0 /\ \A u \in Server : inbox[r][u] = <<>>
  <2>1. h = 0
    BY <1>1, <1>2 DEF Hops
  <2>. QED  BY <1>1, <1>2, <2>1, OnlyOne
<1>4. FeedbackInv'
  BY <1>1 DEF FeedbackInv
<1>5. CASE inbox' = Sent(r, r, Target[r]) /\ begun' = [begun EXCEPT ![r] = "done"]
  <2>. DEFINE t == NextInCircuit(ListOf[r], r)
  <2>1. t \in Server /\ First(r, t) = 1
    BY NextDue
  <2>2. Target[r] \in Vector /\ Target[r] = Message(r, 1)
    BY TargetType, FirstMessage DEF Vector
  <2>3. /\ inbox' \in [Server -> [Server -> Seq(Vector)]]
        /\ inbox'[r][t] = <<Message(r, 1)>>
        /\ \A u \in Server \ {t} : inbox'[r][u] = <<>>
        /\ \A q \in Server \ {r} : inbox'[q] = inbox[q]
    <3>1. BoxHolds(Sent(r, r, Target[r]), r, r, Target[r])
      BY <1>3, <2>2, SentOn
    <3>. QED  BY <1>5, <2>2, <3>1 DEF BoxHolds
  <2>. HIDE DEF t
  <2>4. begun'[r] = "done" /\ \A q \in Server \ {r} : begun'[q] = begun[q]
    BY <1>5 DEF TypeOK
  <2>5. TypeOK'
    BY <1>1, <1>5, <2>3 DEF TypeOK
  <2>6. 1 \in 0..(2 * N(r)) /\ \A s \in Server : 1 <= First(r, s)
    BY FirstType
  <2>7. \A s \in Server : pc[r][s] # "round2" /\ (pc[r][s] = "done" => FALSE)
    BY <1>2, <1>3, FirstType DEF Hops
  <2>8. Hops(r, 1)'
    <3>1. \A s \in Server : inbox'[r][s] # <<>> => s = t
      BY <2>3
    <3>. QED  BY <1>1, <2>1, <2>3, <2>4, <2>6, <2>7, <3>1 DEF Hops, Due
  <2>9. HopInv'
    BY <1>1, <2>3, <2>4, <2>6, <2>8, OthersKept
  <2>. QED  BY <1>4, <2>5, <2>9
<1>6. CASE begun' = [begun EXCEPT ![r] = "failed"] /\ UNCHANGED inbox
  <2>1. begun'[r] = "failed" /\ \A q \in Server \ {r} : begun'[q] = begun[q]
    BY <1>6 DEF TypeOK
  <2>2. TypeOK'
    BY <1>1, <1>6 DEF TypeOK
  <2>3. Hops(r, h)'
    BY <1>1, <1>2, <1>3, <1>6, <2>1 DEF Hops
  <2>4. HopInv'
    BY <1>1, <1>6, <2>1, <2>3, OthersKept
  <2>. QED  BY <1>4, <2>2, <2>4
<1>. QED  BY <1>5, <1>6 DEF Start

(* A server passes the message on that it was due.                         *)
LEMMA PassStep ==
  ASSUME IInv, NEW r \in Server, NEW s \in Server, NEW h \in Nat, Hops(r, h),
         inbox[r][s] # <<>>, h < 2 * N(r),
         inbox' = Consumed(r, s, Sent(r, s, Message(r, h + 1))),
         NEW next, pc' = [pc EXCEPT ![r][s] = next],
         \/ h = First(r, s) /\ next = "round2"
         \/ h = First(r, s) + N(r) /\ next = "done",
         UNCHANGED <<begun, feedback>>
  PROVE  IInv'
<1>. USE DEF IInv
<1>. DEFINE t == NextInCircuit(ListOf[r], s)
            v == Message(r, h + 1)
<1>1. /\ Due(r, s, h) /\ inbox[r][s] = <<Message(r, h)>>
      /\ \A u \in Server \ {s} : inbox[r][u] = <<>>
      /\ h \in 1..(2 * N(r)) /\ begun[r] = "done"
  BY OnlyOne
<1>2. BoxHolds(inbox', r, s, v)
  BY <1>1, PassedOn, MessageType
<1>3. t \in Server /\ Due(r, t, h + 1)
  <2>1. t \in Server /\ First(r, t) = IF s = r THEN 1 ELSE First(r, s) + 1
    BY NextDue
  <2>2. First(r, r) = N(r) /\ N(r) \in Nat \ {0} /\ First(r, s) \in 1..N(r)
    BY FirstType
  <2>. HIDE DEF t
  <2>. QED  BY <2>1, <2>2 DEF Due
<1>4. /\ inbox' \in [Server -> [Server -> Seq(Vector)]]
      /\ inbox'[r][t] = <<v>> /\ \A u \in Server \ {t} : inbox'[r][u] = <<>>
      /\ \A q \in Server \ {r} : inbox'[q] = inbox[q]
  BY <1>2 DEF BoxHolds
<1>. HIDE DEF t, v
<1>5. /\ pc' \in [Server -> [Server -> {"round1", "round2", "done", "failed"}]]
      /\ pc'[r][s] = next
      /\ \A u \in Server \ {s} : pc'[r][u] = pc[r][u]
      /\ \A q \in Server \ {r} : pc'[q] = pc[q]
  BY DEF TypeOK
<1>6. TypeOK'
  BY <1>4, <1>5 DEF TypeOK
<1>7. FeedbackInv'
  BY DEF FeedbackInv
<1>8. /\ N(r) \in Nat \ {0} /\ \A u \in Server : First(r, u) \in 1..N(r)
      /\ \A u \in Server \ {s} : First(r, u) # First(r, s)
  BY FirstType
<1>9. ASSUME NEW u \in Server
      PROVE  /\ pc'[r][u] = "round1" => h + 1 <= First(r, u)
             /\ pc'[r][u] = "round2" => First(r, u) < h + 1 /\ h + 1 <= First(r, u) + N(r)
             /\ pc'[r][u] = "done" => First(r, u) + N(r) < h + 1 \/ h + 1 = 2 * N(r)
  <2>1. /\ First(r, u) \in Nat /\ First(r, s) \in Nat /\ N(r) \in Nat /\ N(r) # 0
        /\ First(r, u) >= 1 /\ First(r, s) >= 1
        /\ First(r, u) <= N(r) /\ First(r, s) <= N(r)
    BY <1>8
  <2>2. CASE u = s
    BY <1>5, <2>1, <2>2
  <2>3. CASE u # s
    <3>1. /\ First(r, u) # First(r, s) /\ pc'[r][u] = pc[r][u]
      BY <1>5, <1>8, <2>3
    <3>2. /\ pc[r][u] = "round1" => h <= First(r, u)
          /\ pc[r][u] = "round2" => First(r, u) < h /\ h <= First(r, u) + N(r)
          /\ pc[r][u] = "done" => First(r, u) + N(r) < h \/ h = 2 * N(r)
      BY DEF Hops
    <3>. QED  BY <2>1, <3>1, <3>2
  <2>. QED  BY <2>2, <2>3
<1>10. h + 1 \in 0..(2 * N(r))
  BY <1>1, <1>8
<1>11. \A u \in Server : inbox'[r][u] # <<>> => Due(r, u, h + 1) /\ inbox'[r][u] = <<v>>
  BY <1>3, <1>4
<1>12. Hops(r, h + 1)'
  BY <1>1, <1>9, <1>10, <1>11 DEF Hops, v
<1>13. HopInv'
  BY <1>4, <1>5, <1>10, <1>12, OthersKept
<1>. QED  BY <1>6, <1>7, <1>13

(* A message ends its way, at a server that fails or at the root that      *)
(* reports; a server that only waits fails.                                *)
LEMMA EndStep ==
  ASSUME TypeOK, HopInv, NEW r \in Server, NEW s \in Server,
         NEW h \in 0..(2 * N(r)), Hops(r, h),
         NEW next \in {"failed", "done"}, pc' = [pc EXCEPT ![r][s] = next],
         next = "done" => h = 2 * N(r),
         begun' = begun,
         \/ inbox' = inbox
         \/ inbox[r][s] # <<>> /\ inbox' = Consumed(r, s, inbox)
  PROVE  /\ HopInv'
         /\ inbox' \in [Server -> [Server -> Seq(Vector)]]
         /\ pc' \in [Server -> [Server -> {"round1", "round2", "done", "failed"}]]
<1>1. /\ inbox' \in [Server -> [Server -> Seq(Vector)]]
      /\ \A u \in Server : inbox'[r][u] = inbox[r][u] \/ inbox'[r][u] = <<>>
      /\ \A q \in Server \ {r} : inbox'[q] = inbox[q]
  <2>1. CASE inbox' = inbox
    BY <2>1 DEF TypeOK
  <2>2. CASE inbox[r][s] # <<>> /\ inbox' = Consumed(r, s, inbox)
    <3>1. BoxEmpty(inbox', r)
      BY <2>2, OnlyOne, TakenOff
    <3>. QED  BY <3>1 DEF BoxEmpty
  <2>. QED  BY <2>1, <2>2
<1>2. /\ pc' \in [Server -> [Server -> {"round1", "round2", "done", "failed"}]]
      /\ pc'[r][s] = next
      /\ \A u \in Server \ {s} : pc'[r][u] = pc[r][u]
      /\ \A q \in Server \ {r} : pc'[q] = pc[q]
  BY DEF TypeOK
<1>3. Hops(r, h)'
  <2>1. /\ h \in 0..(2 * N(r))
        /\ begun'[r] # "done" => h = 0
        /\ begun'[r] = "done" => h # 0
    BY <1>1 DEF Hops
  <2>2. \A u \in Server : inbox'[r][u] # <<>> =>
          Due(r, u, h) /\ inbox'[r][u] = <<Message(r, h)>>
    BY <1>1 DEF Hops
  <2>. QED  BY <1>2, <2>1, <2>2 DEF Hops
<1>4. HopInv'
  BY <1>1, <1>2, <1>3, OthersKept
<1>. QED  BY <1>1, <1>2, <1>4

LEMMA FailStep ==
  ASSUME IInv, NEW r \in Server, NEW s \in Server,
         pc' = [pc EXCEPT ![r][s] = "failed"],
         UNCHANGED <<begun, feedback>>,
         \/ inbox' = inbox
         \/ inbox[r][s] # <<>> /\ inbox' = Consumed(r, s, inbox)
  PROVE  IInv'
<1>. USE DEF IInv
<1>1. PICK h \in 0..(2 * N(r)) : Hops(r, h)
  BY DEF HopInv
<1>2. /\ HopInv' /\ inbox' \in [Server -> [Server -> Seq(Vector)]]
      /\ pc' \in [Server -> [Server -> {"round1", "round2", "done", "failed"}]]
  BY <1>1, EndStep
<1>3. TypeOK' /\ FeedbackInv'
  BY <1>2 DEF TypeOK, FeedbackInv
<1>. QED  BY <1>2, <1>3

LEMMA FirstRoundStep ==
  ASSUME IInv, NEW r \in Server, NEW s \in Server, FirstRound(r, s)
  PROVE  IInv'
<1>. USE DEF IInv
<1>1. /\ pc[r][s] = "round1" /\ inbox[r][s] # <<>> /\ UNCHANGED <<begun, feedback>>
  BY DEF FirstRound
<1>2. PICK h \in 0..(2 * N(r)) : Hops(r, h)
  BY DEF HopInv
<1>3. /\ Head(inbox[r][s]) = Message(r, h) /\ Due(r, s, h)
  BY <1>1, <1>2, OnlyOne
<1>4. First(r, s) \in 1..N(r) /\ N(r) \in Nat \ {0}
  BY FirstType
<1>5. h = First(r, s) /\ h < 2 * N(r) /\ h \in Nat
  BY <1>1, <1>2, <1>3, <1>4 DEF Hops, Due
<1>6. AdditionRound(Head(inbox[r][s]), s) = Message(r, h + 1)
  BY <1>3, <1>5, AfterFirst
<1>7. CASE /\ inbox' = Consumed(r, s, Sent(r, s, Message(r, h + 1)))
           /\ pc' = [pc EXCEPT ![r][s] = "round2"]
  <2>. DEFINE next == "round2"
  <2>1. /\ pc' = [pc EXCEPT ![r][s] = next]
        /\ \/ h = First(r, s) /\ next = "round2"
           \/ h = First(r, s) + N(r) /\ next = "done"
    BY <1>5, <1>7
  <2>. HIDE DEF next
  <2>. QED  BY <1>1, <1>2, <1>5, <1>7, <2>1, PassStep
<1>8. CASE /\ inbox' = Consumed(r, s, inbox)
           /\ pc' = [pc EXCEPT ![r][s] = "failed"]
  BY <1>1, <1>8, FailStep
<1>. QED  BY <1>6, <1>7, <1>8 DEF FirstRound

LEMMA SecondRoundStep ==
  ASSUME IInv, NEW r \in Server, NEW s \in Server, SecondRound(r, s)
  PROVE  IInv'
<1>. USE DEF IInv
<1>1. /\ pc[r][s] = "round2" /\ inbox[r][s] # <<>> /\ UNCHANGED <<begun, feedback>>
      /\ s # r
  BY CircuitAssumption DEF SecondRound
<1>2. PICK h \in 0..(2 * N(r)) : Hops(r, h)
  BY DEF HopInv
<1>3. /\ Head(inbox[r][s]) = Message(r, h) /\ Due(r, s, h)
  BY <1>1, <1>2, OnlyOne
<1>4. First(r, s) \in 1..N(r) /\ First(r, s) < N(r) /\ N(r) \in Nat \ {0}
  BY <1>1, FirstType
<1>5. h = First(r, s) + N(r) /\ h < 2 * N(r) /\ h \in Nat
  BY <1>1, <1>2, <1>3, <1>4 DEF Hops, Due
<1>6. DeterministicTagSequence(Head(inbox[r][s]), s) = Message(r, h + 1)
  BY <1>3, <1>5, AfterSecond
<1>7. CASE /\ inbox' = Consumed(r, s, Sent(r, s, Message(r, h + 1)))
           /\ pc' = [pc EXCEPT ![r][s] = "done"]
  <2>. DEFINE next == "done"
  <2>1. /\ pc' = [pc EXCEPT ![r][s] = next]
        /\ \/ h = First(r, s) /\ next = "round2"
           \/ h = First(r, s) + N(r) /\ next = "done"
    BY <1>5, <1>7
  <2>. HIDE DEF next
  <2>. QED  BY <1>1, <1>2, <1>5, <1>7, <2>1, PassStep
<1>8. CASE /\ inbox' = Consumed(r, s, inbox)
           /\ pc' = [pc EXCEPT ![r][s] = "failed"]
  BY <1>1, <1>8, FailStep
<1>. QED  BY <1>6, <1>7, <1>8 DEF SecondRound

LEMMA ReportStep ==
  ASSUME IInv, NEW r \in Server, Report(r)
  PROVE  IInv'
<1>. USE DEF IInv
<1>. DEFINE tags == [i \in DOMAIN Target[r] |-> Tag(Target[r][i])]
<1>1. /\ pc[r][r] = "round2" /\ inbox[r][r] # <<>> /\ begun' = begun
      /\ inbox' = Consumed(r, r, inbox) /\ pc' = [pc EXCEPT ![r][r] = "done"]
  BY DEF Report
<1>2. PICK h \in 0..(2 * N(r)) : Hops(r, h)
  BY DEF HopInv
<1>3. Head(inbox[r][r]) = Message(r, h) /\ Due(r, r, h)
  BY <1>1, <1>2, OnlyOne
<1>4. First(r, r) = N(r) /\ N(r) \in Nat \ {0}
  BY FirstType
<1>5. h = 2 * N(r) /\ h = First(r, r) + N(r)
  BY <1>1, <1>2, <1>3, <1>4 DEF Hops, Due
<1>6. feedback' = [feedback EXCEPT ![r] = Append(@, tags)]
  <2>1. DeterministicTagSequence(Head(inbox[r][r]), r) = Message(r, 2 * N(r) + 1)
    BY <1>3, <1>5, AfterSecond
  <2>2. TagsOf(DeterministicTagSequence(Head(inbox[r][r]), r)) = tags
    BY <2>1, LastMessage
  <2>. QED  BY <2>2 DEF Report
<1>7. tags \in Seq(Int)
  <2>1. \A i \in DOMAIN Target[r] : Tag(Target[r][i]) \in Int
    <3>. TAKE i \in DOMAIN Target[r]
    <3>1. /\ ContribProduct[Server] \in Int /\ ContribSum[Server] \in Int
          /\ KeySum[Server] \in Int
          /\ Target[r][i].K \in Int /\ Target[r][i].C \in Int
      BY SumType, TargetType DEF Ciphertext
    <3>2. \A x, a, q, k, c \in Int : x * ((c - q * k) + a) \in Int
      OBVIOUS
    <3>. QED  BY <3>1, <3>2 DEF Tag, Decrypt
  <2>2. DOMAIN Target[r] = 1..Len(Target[r]) /\ Len(Target[r]) \in Nat
    BY TargetType
  <2>. QED  BY <2>1, <2>2, IsASeq
<1>. HIDE DEF tags
<1>8. /\ feedback' \in [Server -> Seq(Seq(Int))]
      /\ feedback'[r] = Append(feedback[r], tags)
      /\ \A q \in Server \ {r} : feedback'[q] = feedback[q]
  <2>1. feedback[r] \in Seq(Seq(Int))
    BY DEF TypeOK
  <2>2. Append(feedback[r], tags) \in Seq(Seq(Int))
    BY <1>7, <2>1
  <2>. QED  BY <1>6, <2>2 DEF TypeOK
<1>9. /\ HopInv' /\ inbox' \in [Server -> [Server -> Seq(Vector)]]
      /\ pc' \in [Server -> [Server -> {"round1", "round2", "done", "failed"}]]
  BY <1>1, <1>2, <1>5, EndStep
<1>10. TypeOK'
  BY <1>1, <1>8, <1>9 DEF TypeOK
<1>11. FeedbackInv'
  <2>1. feedback[r] \in Seq(Seq(Int))
    BY DEF TypeOK
  <2>2. ASSUME NEW u \in 1..Len(feedback'[r])
        PROVE  feedback'[r][u] = tags
    <3>1. \A v \in 1..Len(feedback[r]) : feedback[r][v] = tags
      BY DEF FeedbackInv, tags
    <3>. QED  BY <1>8, <2>1, <3>1
  <2>3. \A q \in Server \ {r} : \A u \in 1..Len(feedback'[q]) :
          feedback'[q][u] = [i \in DOMAIN Target[q] |-> Tag(Target[q][i])]
    <3>. TAKE q \in Server \ {r}
    <3>1. feedback'[q] = feedback[q]
      BY <1>8
    <3>. QED  BY <3>1 DEF FeedbackInv
  <2>. QED  BY <2>2, <2>3 DEF FeedbackInv, tags
<1>. QED  BY <1>9, <1>10, <1>11

LEMMA StepInv == IInv /\ [Next]_vars => IInv'
<1>. SUFFICES ASSUME IInv, [Next]_vars
              PROVE  IInv'
  OBVIOUS
<1>1. ASSUME NEW r \in Server, NEW s \in Server, TimeOut(r, s)
      PROVE  IInv'
  BY <1>1, FailStep DEF TimeOut
<1>2. CASE Next
  BY <1>1, <1>2, StartStep, ReportStep, FirstRoundStep, SecondRoundStep DEF Next
<1>3. CASE UNCHANGED vars
  BY <1>3 DEF vars, IInv, TypeOK, HopInv, Hops, FeedbackInv
<1>. QED  BY <1>2, <1>3

THEOREM Invariance == Spec => []IInv
BY InitInv, StepInv, PTL DEF Spec

-----------------------------------------------------------------------------
(* The state of the protocol keeps its types.                              *)
THEOREM TypeCorrect == Spec => []TypeOK
BY Invariance, PTL DEF IInv

(* For every circuit: no server has a second message before every other    *)
(* has had its first, so that counting messages tells the rounds apart.    *)
THEOREM RoundsCorrect == Spec => []RoundsInOrder
<1>1. IInv => RoundsInOrder
  <2>1. SUFFICES ASSUME IInv, NEW r \in Server, NEW s \in Server, NEW t \in Server,
                        \/ pc[r][s] = "done"
                        \/ pc[r][s] = "round2" /\ inbox[r][s] # <<>>,
                        pc[r][t] = "round1"
                 PROVE  FALSE
    BY DEF RoundsInOrder
  <2>2. PICK h \in 0..(2 * N(r)) : Hops(r, h)
    BY <2>1 DEF IInv, HopInv
  <2>3. /\ First(r, s) \in 1..N(r) /\ First(r, t) \in 1..N(r) /\ N(r) \in Nat \ {0}
    BY FirstType
  <2>4. h <= First(r, t)
    BY <2>1, <2>2 DEF Hops
  <2>5. CASE pc[r][s] = "done"
    BY <2>2, <2>3, <2>4, <2>5 DEF Hops
  <2>6. CASE pc[r][s] = "round2" /\ inbox[r][s] # <<>>
    <3>1. Due(r, s, h) /\ First(r, s) < h
      BY <2>2, <2>6 DEF Hops
    <3>. QED  BY <2>3, <2>4, <3>1 DEF Due
  <2>. QED  BY <2>1, <2>5, <2>6
<1>. QED  BY <1>1, Invariance, PTL

(* For every circuit, keys, secrets that are not zero, and ciphertexts:    *)
(* tags are equal exactly if the plaintexts are, whoever's they are.       *)
THEOREM TagsCorrect == Spec => []TagsComparable
<1>1. IInv => TagsComparable
  <2>1. SUFFICES ASSUME IInv, NEW q \in Server, NEW r \in Server,
                        NEW u \in 1..Len(feedback[q]), NEW v \in 1..Len(feedback[r])
                 PROVE  /\ Len(feedback[q][u]) = Len(Target[q])
                        /\ \A i \in 1..Len(Target[q]), j \in 1..Len(Target[r]) :
                             feedback[q][u][i] = feedback[r][v][j]
                               <=> Decrypt(Target[q][i]) = Decrypt(Target[r][j])
    BY DEF TagsComparable
  <2>2. /\ feedback[q][u] = [i \in DOMAIN Target[q] |-> Tag(Target[q][i])]
        /\ feedback[r][v] = [j \in DOMAIN Target[r] |-> Tag(Target[r][j])]
    BY <2>1 DEF IInv, FeedbackInv
  <2>3. /\ DOMAIN Target[q] = 1..Len(Target[q]) /\ Len(Target[q]) \in Nat
        /\ DOMAIN Target[r] = 1..Len(Target[r]) /\ Len(Target[r]) \in Nat
    BY TargetType
  <2>4. Len(feedback[q][u]) = Len(Target[q])
    BY <2>2, <2>3
  <2>5. ASSUME NEW i \in 1..Len(Target[q]), NEW j \in 1..Len(Target[r])
        PROVE  Tag(Target[q][i]) = Tag(Target[r][j])
                 <=> Decrypt(Target[q][i]) = Decrypt(Target[r][j])
    <3>1. /\ ContribProduct[Server] \in Int /\ ContribProduct[Server] # 0
          /\ ContribSum[Server] \in Int /\ KeySum[Server] \in Int
      BY SumType
    <3>2. Target[q][i] \in Ciphertext /\ Target[r][j] \in Ciphertext
      BY <2>3, TargetType
    <3>3. Decrypt(Target[q][i]) \in Int /\ Decrypt(Target[r][j]) \in Int
      <4>1. /\ Target[q][i].K \in Int /\ Target[q][i].C \in Int
            /\ Target[r][j].K \in Int /\ Target[r][j].C \in Int
        BY <3>2 DEF Ciphertext
      <4>2. \A c, x, k \in Int : c - x * k \in Int
        OBVIOUS
      <4>. QED  BY <3>1, <4>1, <4>2 DEF Decrypt
    <3>4. \A x, a, b, c \in Int : x # 0 => (x * (b + a) = x * (c + a) <=> b = c)
      <4>1. \A x, d \in Int : x # 0 /\ x * d = 0 => d = 0
        OBVIOUS
      <4>2. \A x, a, b, c \in Int : x * (b + a) = x * (c + a) => x * (b - c) = 0
        OBVIOUS
      <4>. QED  BY <4>1, <4>2
    <3>. DEFINE x == ContribProduct[Server]
                a == ContribSum[Server]
                b == Decrypt(Target[q][i])
                c == Decrypt(Target[r][j])
    <3>5. Tag(Target[q][i]) = x * (b + a) /\ Tag(Target[r][j]) = x * (c + a)
      BY DEF Tag
    <3>6. x \in Int /\ a \in Int /\ b \in Int /\ c \in Int /\ x # 0
      BY <3>1, <3>3
    <3>. HIDE DEF x, a, b, c
    <3>7. x * (b + a) = x * (c + a) <=> b = c
      BY <3>4, <3>6
    <3>. QED  BY <3>5, <3>7 DEF b, c
  <2>6. ASSUME NEW i \in 1..Len(Target[q]), NEW j \in 1..Len(Target[r])
        PROVE  feedback[q][u][i] = feedback[r][v][j]
                 <=> Decrypt(Target[q][i]) = Decrypt(Target[r][j])
    BY <2>2, <2>3, <2>5
  <2>. QED  BY <2>4, <2>6
<1>. QED  BY <1>1, Invariance, PTL
=============================================================================
