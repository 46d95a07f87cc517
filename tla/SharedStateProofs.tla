--------------------------- MODULE SharedStateProofs ---------------------------
(* Proofs about what the calls and protocol instances of one process       *)
(* share: the table of decrypted points (DecryptionTable) and the channels *)
(* of the local protocols (LocalProtocols).                                *)
EXTENDS DecryptionTable, LocalProtocols, FiniteSetTheorems, SequenceTheorems, TLAPS

(* What the state of the search satisfies between calls.                   *)
SearchInv ==
  /\ DOMAIN PointToInt \subseteq Int
  /\ \A P \in DOMAIN PointToInt : PointToInt[P] = P
  /\ currentGreatestInt \in 0..MaxHomomorphicInt - 1
  /\ currentGreatestM = currentGreatestInt
  /\ DOMAIN PointToInt # {} => 0..currentGreatestInt \subseteq DOMAIN PointToInt
  /\ DOMAIN PointToInt = {} => currentGreatestInt = 0

(* The last call is typed and returned the value if it is in range.        *)
LastInv ==
  \A call \in last :
    /\ call.op \in {"DecryptInt", "DecryptIntWithNeg", "CreateDecryptionTable"}
    /\ call.value \in Value \cup Limit
    /\ call.result \in Int
    /\ call.value \in 0..MaxHomomorphicInt - 1 => call.result = call.value

IInv == SearchInv /\ LastInv

(* The search steps through the integers in order (discreteLog,            *)
(* crypto.go:348-371).                                                     *)
LEMMA GuessIsIdentity ==
  ASSUME SearchInv, NEW i \in Int
  PROVE  Guess(i) = i
BY DEF SearchInv, Guess

(* The search goes through an interval that starts at its last position    *)
(* and, for a point in front of that position, ends at this point.         *)
LEMMA SearchedInterval ==
  ASSUME SearchInv, NEW P \in Int, NEW c \in BOOLEAN
  PROVE  \E h \in currentGreatestInt..MaxHomomorphicInt - 1 :
           /\ Searched(P, c) = currentGreatestInt..h
           /\ P \in currentGreatestInt..MaxHomomorphicInt - 1 => h = P
<1> DEFINE g == currentGreatestInt
<1> DEFINE N == MaxHomomorphicInt
<1>1. g \in Nat /\ N \in Nat /\ g <= N - 1
  BY BoundAssumption DEF SearchInv
<1>2. Searched(P, c) = {i \in g..N - 1 : \A j \in g..i - 1 : ~ (j = P \/ (c /\ -j = P))}
  <2>1. \A j \in g..N - 1 : Found(P, c, j) <=> (j = P \/ (c /\ -j = P))
    BY <1>1, GuessIsIdentity DEF Found
  <2>2. \A i \in g..N - 1 : \A j \in g..i - 1 : j \in g..N - 1
    BY <1>1
  <2> QED BY <2>1, <2>2 DEF Searched
<1> HIDE DEF g, N
<1>3. CASE P \in g..N - 1
  <2>1. \A i \in g..N - 1 : (\A j \in g..i - 1 : ~ (j = P \/ (c /\ -j = P))) <=> i <= P
    BY <1>1, <1>3
  <2>2. Searched(P, c) = g..P
    BY <1>1, <1>2, <1>3, <2>1
  <2> QED BY <1>3, <2>2 DEF g, N
<1>4. CASE P \notin g..N - 1 /\ c /\ -P \in g..N - 1
  <2>1. \A i \in g..N - 1 : (\A j \in g..i - 1 : ~ (j = P \/ (c /\ -j = P))) <=> i <= -P
    BY <1>1, <1>4
  <2>2. Searched(P, c) = g..-P
    BY <1>1, <1>2, <1>4, <2>1
  <2> QED BY <1>4, <2>2 DEF g, N
<1>5. CASE P \notin g..N - 1 /\ ~ (c /\ -P \in g..N - 1)
  <2>1. \A i \in g..N - 1 : \A j \in g..i - 1 : ~ (j = P \/ (c /\ -j = P))
    BY <1>1, <1>5
  <2>2. Searched(P, c) = g..N - 1
    BY <1>1, <1>2, <2>1
  <2>3. N - 1 \in g..N - 1
    BY <1>1
  <2> QED BY <1>5, <2>2, <2>3 DEF g, N
<1> QED BY <1>3, <1>4, <1>5

(* The position after a search is the end of that interval.                *)
LEMMA GreatestIsEnd ==
  ASSUME SearchInv, NEW P \in Int, NEW c \in BOOLEAN
  PROVE  /\ GreatestAfter(P, c) \in currentGreatestInt..MaxHomomorphicInt - 1
         /\ Searched(P, c) = currentGreatestInt..GreatestAfter(P, c)
         /\ P \in currentGreatestInt..MaxHomomorphicInt - 1 => GreatestAfter(P, c) = P
<1>1. PICK h \in currentGreatestInt..MaxHomomorphicInt - 1 :
        /\ Searched(P, c) = currentGreatestInt..h
        /\ P \in currentGreatestInt..MaxHomomorphicInt - 1 => h = P
  BY SearchedInterval
<1>2. currentGreatestInt \in Int /\ h \in Int /\ currentGreatestInt <= h
  BY BoundAssumption DEF SearchInv
<1>3. GreatestAfter(P, c) = h
  <2>1. h \in currentGreatestInt..h /\ \A j \in currentGreatestInt..h : j <= h
    BY <1>2
  <2>2. \A i \in currentGreatestInt..h :
          (\A j \in currentGreatestInt..h : j <= i) => i = h
    BY <1>2
  <2> QED BY <1>1, <2>1, <2>2 DEF GreatestAfter
<1> QED BY <1>1, <1>3

(* What a search puts into the table is right, and reaches from the old    *)
(* position to the new one.                                                *)
LEMMA EntriesCorrect ==
  ASSUME SearchInv, NEW P \in Int, NEW c \in BOOLEAN
  PROVE  /\ DOMAIN Entries(P, c) \subseteq Int
         /\ currentGreatestInt..GreatestAfter(P, c) \subseteq DOMAIN Entries(P, c)
         /\ \A Q \in DOMAIN Entries(P, c) : Entries(P, c)[Q] = Q
<1> DEFINE S == Searched(P, c)
<1> DEFINE pos == {Guess(i) : i \in S}
<1> DEFINE neg == IF c THEN {-i : i \in S} ELSE {}
<1>1. S = currentGreatestInt..GreatestAfter(P, c) /\ S \subseteq Int
  <2>1. Searched(P, c) = currentGreatestInt..GreatestAfter(P, c)
    BY GreatestIsEnd
  <2>2. GreatestAfter(P, c) \in Int /\ currentGreatestInt \in Int
    BY GreatestIsEnd, BoundAssumption DEF SearchInv
  <2> QED BY <2>1, <2>2
<1>2. currentGreatestInt \in Int
  BY DEF SearchInv
<1>3. pos = S
  <2>1. \A i \in S : Guess(i) = i
    BY <1>1, GuessIsIdentity
  <2> HIDE DEF S
  <2> QED BY <2>1
<1>4. neg \subseteq Int
  BY <1>1
<1>5. Guess(currentGreatestInt) = currentGreatestInt
  BY <1>2, GuessIsIdentity
<1>6. Entries(P, c) = [Q \in pos \cup neg |->
         IF Q \in neg THEN Q ELSE currentGreatestInt + (Q - Guess(currentGreatestInt))]
  BY DEF Entries
<1> HIDE DEF S, pos, neg
<1>7. DOMAIN Entries(P, c) = pos \cup neg
  BY <1>6
<1>8. ASSUME NEW Q \in pos \cup neg PROVE Entries(P, c)[Q] = Q
  <2>1. Q \in Int
    BY <1>1, <1>3, <1>4
  <2>2. currentGreatestInt + (Q - currentGreatestInt) = Q
    BY <1>2, <2>1
  <2> QED BY <1>5, <1>6, <2>2
<1> QED BY <1>1, <1>3, <1>4, <1>7, <1>8

(* One call of discreteLog keeps the invariant.                            *)
LEMMA CallPreserves ==
  ASSUME IInv,
         NEW op \in {"DecryptInt", "DecryptIntWithNeg", "CreateDecryptionTable"},
         NEW P \in Value \cup Limit, NEW c \in BOOLEAN,
         DiscreteLog(op, P, c)
  PROVE  IInv'
<1>1. SearchInv /\ P \in Int
  BY BoundAssumption DEF IInv
<1>2. MaxHomomorphicInt \in Nat /\ currentGreatestInt \in 0..MaxHomomorphicInt - 1
  BY <1>1, BoundAssumption DEF SearchInv
<1>3. CASE P \in DOMAIN PointToInt
  <2>1. UNCHANGED <<PointToInt, currentGreatestM, currentGreatestInt>>
    BY <1>3 DEF DiscreteLog
  <2>2. last' = {[op |-> op, value |-> P, result |-> PointToInt[P]]}
    BY <1>3 DEF DiscreteLog
  <2>3. PointToInt[P] = P
    BY <1>1, <1>3 DEF SearchInv
  <2>4. SearchInv'
    BY <1>1, <2>1 DEF SearchInv
  <2>5. LastInv'
    BY <1>1, <2>2, <2>3 DEF LastInv
  <2> QED BY <2>4, <2>5 DEF IInv
<1>4. CASE P \notin DOMAIN PointToInt
  <2> DEFINE new == Entries(P, c)
  <2> DEFINE h == GreatestAfter(P, c)
  <2>1. /\ PointToInt' = [Q \in DOMAIN PointToInt \cup DOMAIN new |->
                            IF Q \in DOMAIN new THEN new[Q] ELSE PointToInt[Q]]
        /\ currentGreatestInt' = h
        /\ currentGreatestM' = Guess(h)
        /\ last' = {[op |-> op, value |-> P, result |-> Outcome(P, c)]}
    BY <1>4 DEF DiscreteLog
  <2>2. /\ h \in currentGreatestInt..MaxHomomorphicInt - 1
        /\ P \in currentGreatestInt..MaxHomomorphicInt - 1 => h = P
    BY <1>1, GreatestIsEnd
  <2>3. /\ DOMAIN new \subseteq Int
        /\ currentGreatestInt..h \subseteq DOMAIN new
        /\ \A Q \in DOMAIN new : new[Q] = Q
    BY <1>1, EntriesCorrect
  <2>4. h \in Int /\ Guess(h) = h
    BY <1>1, <2>2, GuessIsIdentity
  <2>5. Outcome(P, c) = IF c /\ -h = P THEN -h ELSE IF h = P THEN h ELSE 0
    BY <2>4 DEF Outcome
  <2>6. P \in 0..MaxHomomorphicInt - 1 => h = P
    <3>1. P \in 0..MaxHomomorphicInt - 1 => currentGreatestInt <= P
      BY <1>1, <1>2, <1>4 DEF SearchInv
    <3> QED BY <1>1, <1>2, <2>2, <3>1
  <2> HIDE DEF new, h
  <2>7. SearchInv'
    <3>1. DOMAIN PointToInt' = DOMAIN PointToInt \cup DOMAIN new
      BY <2>1
    <3>2. DOMAIN PointToInt' \subseteq Int
      BY <1>1, <2>3, <3>1 DEF SearchInv
    <3>3. \A Q \in DOMAIN PointToInt' : PointToInt'[Q] = Q
      BY <1>1, <2>1, <2>3, <3>1 DEF SearchInv
    <3>4. h \in 0..MaxHomomorphicInt - 1
      BY <1>2, <2>2
    <3>5. 0..h \subseteq DOMAIN PointToInt'
      <4>1. CASE DOMAIN PointToInt # {}
        <5>1. 0..currentGreatestInt \subseteq DOMAIN PointToInt
          BY <1>1, <4>1 DEF SearchInv
        <5>2. \A i \in 0..h : i \in 0..currentGreatestInt \/ i \in currentGreatestInt..h
          BY <1>2, <2>2
        <5> QED BY <2>3, <3>1, <5>1, <5>2
      <4>2. CASE DOMAIN PointToInt = {}
        BY <1>1, <2>3, <3>1, <4>2 DEF SearchInv
      <4> QED BY <4>1, <4>2
    <3>6. DOMAIN PointToInt' # {}
      BY <3>4, <3>5
    <3> QED BY <2>1, <2>4, <3>2, <3>3, <3>4, <3>5, <3>6 DEF SearchInv
  <2>8. LastInv'
    <3>1. Outcome(P, c) \in Int
      BY <2>4, <2>5
    <3>2. P \in 0..MaxHomomorphicInt - 1 => Outcome(P, c) = P
      BY <1>1, <2>4, <2>5, <2>6
    <3> QED BY <2>1, <3>1, <3>2 DEF LastInv
  <2> QED BY <2>7, <2>8 DEF IInv
<1> QED BY <1>3, <1>4

(* The invariant is inductive.                                             *)
LEMMA Inductive == Spec => []IInv
<1>1. Init => IInv
  BY BoundAssumption DEF Init, IInv, SearchInv, LastInv
<1>2. IInv /\ [Next]_vars => IInv'
  <2> SUFFICES ASSUME IInv, [Next]_vars PROVE IInv'
    OBVIOUS
  <2>1. ASSUME NEW m \in Value, DecryptInt(m) PROVE IInv'
    BY <2>1, CallPreserves DEF DecryptInt
  <2>2. ASSUME NEW m \in Value, DecryptIntWithNeg(m) PROVE IInv'
    BY <2>2, CallPreserves DEF DecryptIntWithNeg
  <2>3. ASSUME NEW limit \in Limit, CreateDecryptionTable(limit) PROVE IInv'
    BY <2>3, CallPreserves DEF CreateDecryptionTable
  <2>4. CASE UNCHANGED vars
    BY <2>4 DEF vars, IInv, SearchInv, LastInv
  <2> QED BY <2>1, <2>2, <2>3, <2>4 DEF Next
<1> QED BY <1>1, <1>2, PTL DEF Spec

(* The state of the table and of the last call is typed.                   *)
THEOREM TableTyped == Spec => []TypeOK
<1>1. IInv => TypeOK
  BY DEF IInv, SearchInv, LastInv, TypeOK
<1> QED BY <1>1, Inductive, PTL

(* The table never says of a point anything but its discrete logarithm.    *)
THEOREM TableIsCorrect == Spec => []TableCorrect
<1>1. IInv => TableCorrect
  BY DEF IInv, SearchInv, TableCorrect
<1> QED BY <1>1, Inductive, PTL

(* Whatever was decrypted before, an integer from 0 to the bound decrypts  *)
(* to itself.                                                              *)
THEOREM DecryptionCorrect == Spec => []NonNegativesDecrypt
<1>1. IInv => NonNegativesDecrypt
  BY DEF IInv, LastInv, NonNegativesDecrypt
<1> QED BY <1>1, Inductive, PTL

(* The integers the search has passed can be looked up.                    *)
THEOREM TableHasNoGap == Spec => []NoGap
<1>1. IInv => NoGap
  BY DEF IInv, SearchInv, NoGap
<1> QED BY <1>1, Inductive, PTL
-----------------------------------------------------------------------------
(* The local protocols.  Instances of one protocol share a channel; that   *)
(* each caller still gets its own result depends on how they follow one    *)
(* another, which is what the invariant says.                              *)

(* The callers (the simulations and tests run one protocol round after     *)
(* round) do not let two instances of a protocol overlap, and none follows *)
(* one that may have given up (local_aggregation_protocol.go:90).          *)
OneAtATime ==
  /\ Serial
  /\ \A i \in Timeouts, j \in Instance : Kind[i] = Kind[j] => i = j

(* Where the two goroutines of an instance are.                            *)
LocalTyped ==
  /\ start \in [Instance -> {"idle", "compute", "send", "done"}]
  /\ dispatch \in [Instance -> {"idle", "wait", "feedback", "done", "failed"}]
  /\ result \in [Instance -> SUBSET {ResultOf(i) : i \in Instance}]
  /\ taken \in [Instance -> SUBSET {ResultOf(i) : i \in Instance}]
  /\ feedback \in [Instance -> SUBSET {ResultOf(i) : i \in Instance}]
  /\ \A i \in Instance :
       /\ result[i] \subseteq {ResultOf(i)}
       /\ start[i] = "send" => result[i] = {ResultOf(i)}
       /\ dispatch[i] \in {"idle", "wait", "failed"} => taken[i] = {} /\ feedback[i] = {}
       /\ feedback[i] \subseteq taken[i]
       /\ start[i] = "idle" <=> dispatch[i] = "idle"

(* Of one protocol at most one instance is between its launch and the end  *)
(* of its Dispatch, and a Start that still has to send has its own         *)
(* Dispatch to receive, or nobody.                                         *)
InStep ==
  /\ \A i, j \in Instance :
       Kind[i] = Kind[j] /\ dispatch[i] \in {"wait", "feedback"}
         /\ dispatch[j] \in {"wait", "feedback"} => i = j
  /\ \A i \in Instance :
       /\ start[i] \in {"compute", "send"} => dispatch[i] \in {"wait", "failed"}
       /\ dispatch[i] = "failed" => i \in Timeouts
       /\ taken[i] \subseteq {ResultOf(i)}

(* What every step keeps, whatever the instances do.                       *)
LEMMA LocalTypedInductive ==
  ASSUME LocalTyped, [LocalNext]_localVars
  PROVE  LocalTyped'
<1>1. ASSUME NEW i \in Instance, Launch(i) PROVE LocalTyped'
  BY <1>1 DEF LocalTyped, Launch
<1>2. ASSUME NEW i \in Instance, Compute(i) PROVE LocalTyped'
  BY <1>2 DEF LocalTyped, Compute
<1>3. ASSUME NEW i \in Instance, ReadFeedback(i) PROVE LocalTyped'
  BY <1>3 DEF LocalTyped, ReadFeedback
<1>4. ASSUME NEW i \in Instance, TimeOut(i) PROVE LocalTyped'
  BY <1>4 DEF LocalTyped, TimeOut
<1>5. ASSUME NEW i \in Instance, NEW j \in Instance, HandOver(i, j)
      PROVE  LocalTyped'
  BY <1>5 DEF LocalTyped, HandOver
<1>6. CASE UNCHANGED localVars
  BY <1>6 DEF LocalTyped, localVars
<1> QED BY <1>1, <1>2, <1>3, <1>4, <1>5, <1>6 DEF LocalNext

(* A receive meets the send of its own instance only.                      *)
LEMMA HandOverOwn ==
  ASSUME OneAtATime, InStep, NEW i \in Instance, NEW j \in Instance,
         HandOver(i, j)
  PROVE  i = j
<1>1. /\ start[i] = "send" /\ dispatch[j] = "wait" /\ Kind[i] = Kind[j]
  BY DEF HandOver, SameChannel
<1>2. dispatch[i] \in {"wait", "failed"}
  BY <1>1 DEF InStep
<1>3. CASE dispatch[i] = "wait"
  BY <1>1, <1>3 DEF InStep
<1>4. CASE dispatch[i] = "failed"
  BY <1>1, <1>4 DEF InStep, OneAtATime
<1> QED BY <1>2, <1>3, <1>4

(* The steps keep the instances of one protocol apart.                     *)
LEMMA InStepInductive ==
  ASSUME OneAtATime, LocalTyped, InStep, [LocalNext]_localVars
  PROVE  InStep'
<1>1. ASSUME NEW i \in Instance, Launch(i) PROVE InStep'
  <2>1. /\ start' = [start EXCEPT ![i] = "compute"]
        /\ dispatch' = [dispatch EXCEPT ![i] = "wait"]
        /\ taken' = taken
    BY <1>1 DEF Launch
  <2>2. \A j \in Instance : Kind[j] = Kind[i] => dispatch[j] \notin {"wait", "feedback"}
    BY <1>1 DEF Launch, Running, OneAtATime
  <2> QED BY <2>1, <2>2 DEF InStep, LocalTyped
<1>2. ASSUME NEW i \in Instance, Compute(i) PROVE InStep'
  BY <1>2 DEF InStep, LocalTyped, Compute
<1>3. ASSUME NEW i \in Instance, ReadFeedback(i) PROVE InStep'
  BY <1>3 DEF InStep, LocalTyped, ReadFeedback
<1>4. ASSUME NEW i \in Instance, TimeOut(i) PROVE InStep'
  BY <1>4 DEF InStep, LocalTyped, TimeOut
<1>5. ASSUME NEW i \in Instance, NEW j \in Instance, HandOver(i, j)
      PROVE  InStep'
  <2>1. i = j
    BY <1>5, HandOverOwn
  <2>2. /\ start[i] = "send"
        /\ start' = [start EXCEPT ![i] = "done"]
        /\ dispatch' = [dispatch EXCEPT ![i] = "feedback"]
        /\ taken' = [taken EXCEPT ![i] = result[i]]
    BY <1>5, <2>1 DEF HandOver
  <2>3. dispatch[i] = "wait"
    BY <1>5, <2>1 DEF HandOver
  <2>4. result[i] = {ResultOf(i)}
    BY <2>2 DEF LocalTyped
  <2> QED BY <2>2, <2>3, <2>4 DEF InStep, LocalTyped
<1>6. CASE UNCHANGED localVars
  BY <1>6 DEF InStep, localVars
<1> QED BY <1>1, <1>2, <1>3, <1>4, <1>5, <1>6 DEF LocalNext

(* The invariant of the goroutines' positions holds of all behaviours.     *)
LEMMA LocalTypedHolds == LocalSpec => []LocalTyped
<1>1. LocalInit => LocalTyped
  BY DEF LocalInit, Nothing, LocalTyped
<1>2. LocalTyped /\ [LocalNext]_localVars => LocalTyped'
  BY LocalTypedInductive
<1> QED BY <1>1, <1>2, PTL DEF LocalSpec

(* Instances of one protocol that follow one another stay in step.         *)
LEMMA InStepHolds ==
  ASSUME OneAtATime
  PROVE  LocalSpec => []InStep
<1>1. LocalInit => InStep
  BY DEF LocalInit, Nothing, InStep
<1>2. LocalTyped /\ InStep /\ [LocalNext]_localVars => InStep'
  BY InStepInductive
<1> QED BY <1>1, <1>2, LocalTypedHolds, PTL DEF LocalSpec

(* The variables of the local protocols are typed, and a caller reads      *)
(* nothing that its Dispatch has not received, also when instances         *)
(* overlap.                                                                *)
THEOREM LocalTypesCorrect == LocalSpec => []LocalTypeOK
<1>1. ASSUME LocalTyped PROVE LocalTypeOK
  <2>1. ASSUME NEW i \in Instance PROVE Cardinality(result[i]) <= 1
    <3>1. result[i] = {} \/ result[i] = {ResultOf(i)}
      BY <1>1 DEF LocalTyped
    <3>2. Cardinality({}) = 0 /\ Cardinality({ResultOf(i)}) = 1
      BY FS_EmptySet, FS_Singleton
    <3> QED BY <3>1, <3>2
  <2> QED BY <1>1, <2>1 DEF LocalTyped, LocalTypeOK
<1> QED BY <1>1, LocalTypedHolds, PTL

(* Every caller of a local protocol gets what its own instance computed,   *)
(* if the instances of a protocol run one after the other and none follows *)
(* one that may time out.                                                  *)
THEOREM CallerGetsOwnResult ==
  ASSUME OneAtATime
  PROVE  LocalSpec => []OwnResult
<1>1. LocalTyped /\ InStep => OwnResult
  BY DEF LocalTyped, InStep, OwnResult
<1> QED BY <1>1, LocalTypedHolds, InStepHolds, PTL

(* What changeEncryption returns decrypts, under the new key, to what its  *)
(* target decrypts to under the old one.                                   *)
LEMMA ChangeEncryptionDecrypts ==
  ASSUME NEW t \in [add : BOOLEAN, key : Int, cts : Seq([K : Int, C : Int])],
         Secret \in Int, NEW n \in DOMAIN t.cts
  PROVE  LET new == IF t.add THEN Secret + t.key ELSE Secret - t.key
             cts == ChangeEncryption(t)
         IN  cts[n].C - new * cts[n].K = t.cts[n].C - Secret * t.cts[n].K
<1> DEFINE K == t.cts[n].K
<1> DEFINE C == t.cts[n].C
<1> DEFINE k == t.key
<1>1. K \in Int /\ C \in Int /\ k \in Int
  <2>1. t.cts \in Seq([K : Int, C : Int])
    OBVIOUS
  <2>2. t.cts[n] \in [K : Int, C : Int]
    <3>1. \A X : \A s \in Seq(X) : \A m \in DOMAIN s : s[m] \in X
      BY ElementOfSeq, LenProperties
    <3> QED BY <2>1, <3>1, Zenon
  <2> QED BY <2>2
<1>2. /\ ChangeEncryption(t)[n].K = K
      /\ ChangeEncryption(t)[n].C = IF t.add THEN C + k * K ELSE C - k * K
  BY DEF ChangeEncryption
<1> HIDE DEF K, C, k
<1>3. \A x, y \in Int : (x + y) * K = x * K + y * K /\ (x - y) * K = x * K - y * K
  BY <1>1
<1>4. CASE t.add
  <2>1. (Secret + k) * K = Secret * K + k * K /\ k * K \in Int /\ Secret * K \in Int
    BY <1>1, <1>3
  <2>2. \A a, b \in Int : (C + a) - (b + a) = C - b
    BY <1>1
  <2>3. (C + k * K) - (Secret + k) * K = C - Secret * K
    BY <1>1, <2>1, <2>2
  <2> QED BY <1>2, <1>4, <2>3 DEF K, C, k
<1>5. CASE ~ t.add
  <2>1. (Secret - k) * K = Secret * K - k * K /\ k * K \in Int /\ Secret * K \in Int
    BY <1>1, <1>3
  <2>2. \A a, b \in Int : (C - a) - (b - a) = C - b
    BY <1>1
  <2>3. (C - k * K) - (Secret - k) * K = C - Secret * K
    BY <1>1, <2>1, <2>2
  <2> QED BY <1>2, <1>5, <2>3 DEF K, C, k
<1> QED BY <1>4, <1>5

(* Adding a server's key to a response or removing it keeps the plaintext, *)
(* in what the caller of AddRmServer gets.                                 *)
THEOREM AddRmKeepsPlaintexts ==
  ASSUME InstanceAssumption, OneAtATime
  PROVE  LocalSpec => []AddRmKeepsPlaintext
<1>1. ASSUME OwnResult PROVE AddRmKeepsPlaintext
  <2> SUFFICES ASSUME NEW i \in Instance, Kind[i] = "AddRmServer",
                      NEW cts \in feedback[i], NEW n \in DOMAIN Target[i].cts
               PROVE  LET t == Target[i]
                          new == IF t.add THEN Secret + t.key ELSE Secret - t.key
                      IN  cts[n].C - new * cts[n].K = t.cts[n].C - Secret * t.cts[n].K
    BY DEF AddRmKeepsPlaintext
  <2>1. cts = ResultOf(i)
    BY <1>1 DEF OwnResult
  <2>2. ResultOf(i) = ChangeEncryption(Target[i])
    BY DEF ResultOf
  <2>3. /\ Target[i] \in [add : BOOLEAN, key : Int, cts : Seq([K : Int, C : Int])]
        /\ Secret \in Int
    BY DEF InstanceAssumption
  <2> QED BY <2>1, <2>2, <2>3, ChangeEncryptionDecrypts
<1> QED BY <1>1, CallerGetsOwnResult, PTL
=============================================================================
