----------------------------- MODULE ProofListsProofs -----------------------------
(* Proofs about ProofLists, for every list, every size of the chunks and   *)
(* any order of the goroutines.                                            *)
EXTENDS ProofLists, FiniteSetTheorems, TLAPS

(* The stages that make a list another stage goes on with.                 *)
Making == Working \ {"verify"}
N == Len(call.items)

(* The results there is room for, how far the loops go, and the share.     *)
Room == Size(call, stage)
Reach == Bound(call, stage)
ToVerify == NbrProofsToVerify(call)

(* The two ways in which the code hands on another list, see ListComplete: *)
(* an error of a tag proof is not seen, and an addition proof is made from *)
(* the first element of its chunk, which must be like the others then.     *)
NoDeparture ==
  /\ <<"tag", "create">> \notin Faulty
  /\ \A cl \in Calls : cl.kind = "tag_addition" /\ VPARALLELIZE # 1 =>
       \A j, k \in DOMAIN cl.items : cl.items[j] = cl.items[k]

(* A stage that a list of this kind goes through.                          *)
StageOfKind ==
  /\ call \in Calls /\ stage \in Stage
  /\ stage = "prepare" => call.kind = "key_switch"
  /\ stage \in {"encode", "decode"} => call.kind \in {"key_switch", "aggregation"}

GoroutinesOK ==
  /\ next \in Nat \ {0} /\ err \in BOOLEAN
  /\ IsFiniteSet(DOMAIN at)
  /\ \A i \in DOMAIN at : i \in Nat \ {0} /\ i < next /\ at[i] \in Nat /\ i <= at[i]

(* The WaitGroup counts the goroutines that run and, after StartParallelize *)
(* also those to come.                                                      *)
ToCome == IF StartParallelized(stage) /\ next <= Reach THEN Reach + 1 - next ELSE 0
CounterOK == wg \in Int /\ wg >= Cardinality(DOMAIN at) + ToCome

(* An element before the next goroutine's is stored, or one has it to do.  *)
Held(k) == \E i \in DOMAIN at : at[i] <= k /\ k < EndOf(i, stage, Reach)
Stored(k) == out[k] = Element(call, stage, in[k])
Covered == DOMAIN out = 1..Room /\ \A k \in 1..Room : k < next => err \/ Stored(k) \/ Held(k)

(* At the end there is one verdict for each element of the share, which is *)
(* that of verifying its own proof.                                        *)
Verdict(k) == Element(call, "verify", Source(call, "verify", k))
VerdictOfEach ==
  stage = "done" => DOMAIN in = 1..ToVerify /\ \A k \in 1..ToVerify : in[k] = Verdict(k)

WorkingInv == GoroutinesOK /\ CounterOK /\ Covered
Inv == StageOfKind /\ ListComplete /\ VerdictOfEach /\ (stage \in Working => WorkingInv)

(* The share of a list of n elements, a / b of it rounded up.              *)
LEMMA ShareOf ==
  ASSUME NEW n \in Nat, NEW a \in Nat, NEW b \in Nat \ {0}, a <= b
  PROVE  (n * a + b - 1) \div b \in 0..n
<1> DEFINE u == n * a
<1>1. u \in Nat /\ u <= n * b /\ n * b \in Nat
  OBVIOUS
<1> HIDE DEF u
<1> DEFINE q == (u + b - 1) \div b
<1>2. u + b - 1 \in Nat
  BY <1>1
<1>3. q \in Nat /\ b * q <= u + b - 1
  BY <1>2
<1>4. q <= n
  <2> HIDE DEF q
  <2>1. SUFFICES ASSUME q >= n + 1 PROVE FALSE
    BY <1>3
  <2>2. b * q >= b * (n + 1) /\ b * (n + 1) = n * b + b
    BY <1>3, <2>1
  <2>3. b * q \in Nat
    BY <1>3
  <2> QED BY <1>1, <1>3, <2>2, <2>3
<1> QED BY <1>3, <1>4 DEF u

LEMMA Parameters ==
  /\ \A st \in Stage : Chunk(st) \in Nat \ {0}
  /\ StageOfKind => /\ N \in Nat /\ call.kind \in Kind /\ ToVerify \in 0..N
                    /\ Room \in Nat /\ Reach \in Nat /\ Room <= Reach /\ Room <= N
                    /\ stage \in Making => Room = N
<1>1. \A st \in Stage : Chunk(st) \in Nat \ {0}
  BY ChunkAssumption DEF Chunk
<1>2. StageOfKind => N \in Nat /\ call.kind \in Kind
  BY CallsAssumption DEF StageOfKind, N
<1>3. StageOfKind => ToVerify \in 0..N
  BY <1>2, ShareAssumption, ShareOf DEF StageOfKind, N, ToVerify, NbrProofsToVerify
<1>4. StageOfKind => Room \in Nat /\ Reach \in Nat /\ Room <= Reach /\ Room <= N
  BY <1>2, <1>3 DEF Room, Reach, ToVerify, N, Size, Bound
<1>5. stage \in Making => Room = N
  BY DEF Room, Making, Size, N
<1> QED BY <1>1, <1>2, <1>3, <1>4, <1>5

(* StartParallelize is called for whole lists.                             *)
LEMMA ParallelizedSize ==
  ASSUME NEW cl, NEW st, StartParallelized(st)
  PROVE  Size(cl, st) = Len(cl.items) /\ Bound(cl, st) = Len(cl.items)
BY DEF StartParallelized, Size, Bound

(* Each list is the source of the stage after the one that makes it.       *)
LEMMA SourceAfter ==
  ASSUME StageOfKind, stage \in Making, NEW k \in 1..N
  PROVE  LET st == After(call.kind, stage)
         IN  /\ st \in Working
             /\ Source(call, st, k) = Element(call, stage, Source(call, stage, k))
<1>1. CASE stage = "prepare"
  BY <1>1 DEF StageOfKind, After, Source, Prepared, Working
<1>2. CASE stage = "create"
  <2>1. CASE call.kind \in {"key_switch", "aggregation"}
    BY <1>2, <2>1 DEF After, Source, ProofOf, Working
  <2>2. CASE call.kind \notin {"key_switch", "aggregation"}
    BY <1>2, <2>2 DEF After, Source, Verified, ProofOf, Working
  <2> QED BY <2>1, <2>2
<1>3. CASE stage = "encode"
  BY <1>3 DEF After, Source, Encoded, Working
<1>4. CASE stage = "decode"
  BY <1>4 DEF StageOfKind, After, Source, Verified, Decoded, Working
<1> QED BY <1>1, <1>2, <1>3, <1>4 DEF Making, Working

(* A stage starts with no goroutine and nothing stored.                    *)
LEMMA StartPreserves ==
  ASSUME NEW cl \in Calls, NEW st \in Working, NEW elements,
         Len(cl.items) \in Nat, StartStage(cl, st, elements)
  PROVE  WorkingInv'
<1>1. call' = cl /\ stage' = st /\ Room' = Size(cl, st) /\ Reach' = Bound(cl, st)
  BY DEF StartStage, Room, Reach
<1>3. DOMAIN at' = {} /\ IsFiniteSet({}) /\ Cardinality({}) = 0
  BY FS_EmptySet DEF StartStage
<1>4. GoroutinesOK'
  <2>1. next' = 1 /\ err' = FALSE
    BY DEF StartStage
  <2>2. IsFiniteSet(DOMAIN at)'
    BY <1>3
  <2>3. \A i \in DOMAIN at' : i \in Nat \ {0} /\ i < next' /\ at'[i] \in Nat /\ i <= at'[i]
    BY <1>3
  <2>4. next' \in Nat \ {0}
    BY <2>1
  <2>5. err' \in BOOLEAN
    BY <2>1, Zenon
  <2> QED BY <2>2, <2>3, <2>4, <2>5 DEF GoroutinesOK
<1>5. CounterOK'
  <2>1. CASE StartParallelized(st)
    <3>1. Reach' = Len(cl.items) /\ wg' = Len(cl.items)
      BY <1>1, <2>1, ParallelizedSize DEF StartStage
    <3>2. ToCome' = IF 1 <= Reach' THEN Reach' + 1 - 1 ELSE 0
      BY <1>1, <2>1 DEF ToCome, StartStage
    <3> QED BY <1>3, <3>1, <3>2 DEF CounterOK
  <2>2. CASE ~ StartParallelized(st)
    <3>1. wg' = 0 /\ ToCome' = 0
      BY <1>1, <2>2 DEF ToCome, StartStage
    <3> QED BY <1>3, <3>1 DEF CounterOK
  <2> QED BY <2>1, <2>2
<1>6. Covered'
  <2>1. DOMAIN out' = 1..Room'
    BY <1>1 DEF StartStage
  <2>2. \A k \in 1..Room' : ~ (k < next')
    BY DEF StartStage
  <2> QED BY <2>1, <2>2 DEF Covered
<1> QED BY <1>4, <1>5, <1>6 DEF WorkingInv

LEMMA InitInv == Init => Inv
<1> SUFFICES ASSUME Init PROVE Inv
  OBVIOUS
<1>1. call \in Calls /\ call.kind \in Kind /\ Len(call.items) \in Nat /\ stage \in Making
  BY CallsAssumption DEF Init, FirstStage, Making, Working
<1>2. StageOfKind
  BY <1>1 DEF Init, FirstStage, StageOfKind, Making, Working, Stage
<1>3. ListComplete
  <2>1. CASE call.kind = "key_switch"
    BY <2>1 DEF Init, FirstStage, ListComplete, Source
  <2>2. CASE call.kind # "key_switch"
    BY <2>2 DEF Init, FirstStage, ListComplete, Source, Prepared
  <2> QED BY <2>1, <2>2
<1>4. ~ StartParallelized(stage)
  BY DEF Init, FirstStage, StartParallelized
<1>5. DOMAIN at = {} /\ IsFiniteSet({}) /\ Cardinality({}) = 0
  BY FS_EmptySet DEF Init
<1>6. GoroutinesOK
  <2>1. next = 1 /\ err = FALSE
    BY DEF Init
  <2>2. IsFiniteSet(DOMAIN at)
    BY <1>5
  <2>3. \A i \in DOMAIN at : i \in Nat \ {0} /\ i < next /\ at[i] \in Nat /\ i <= at[i]
    BY <1>5
  <2>4. next \in Nat \ {0}
    BY <2>1
  <2>5. err \in BOOLEAN
    BY <2>1, Zenon
  <2> QED BY <2>2, <2>3, <2>4, <2>5 DEF GoroutinesOK
<1>7. CounterOK
  BY <1>4, <1>5 DEF Init, CounterOK, ToCome
<1>8. Covered
  <2>1. DOMAIN out = 1..Room
    BY DEF Init, Room
  <2>2. \A k \in 1..Room : ~ (k < next)
    BY DEF Init
  <2> QED BY <2>1, <2>2 DEF Covered
<1>9. VerdictOfEach
  BY <1>1 DEF VerdictOfEach, Making, Working
<1> QED BY <1>2, <1>3, <1>6, <1>7, <1>8, <1>9 DEF Inv, WorkingInv

(* The next goroutine has its chunk to do.                                 *)
LEMMA SpawnPreserves ==
  ASSUME Inv, stage \in Working, Spawn
  PROVE  WorkingInv'
<1>1. /\ UNCHANGED <<call, stage, in, out, err>> /\ Room' = Room /\ Reach' = Reach
      /\ at' = [i \in DOMAIN at \cup {next} |-> IF i = next THEN next ELSE at[i]]
      /\ next' = next + Chunk(stage)
      /\ wg' = IF StartParallelized(stage) THEN wg ELSE wg + 1
  BY DEF Spawn, Room, Reach
<1>2. /\ StageOfKind /\ GoroutinesOK /\ CounterOK /\ Covered
      /\ Room \in Nat /\ Reach \in Nat /\ Room <= Reach /\ Chunk(stage) \in Nat \ {0} /\ next <= Reach
  BY Parameters DEF Inv, WorkingInv, Spawn, Stage, Reach
<1>3. DOMAIN at' = DOMAIN at \cup {next} /\ next \notin DOMAIN at /\ next \in Nat \ {0}
  BY <1>1, <1>2 DEF GoroutinesOK
<1>4. IsFiniteSet(DOMAIN at') /\ Cardinality(DOMAIN at') = Cardinality(DOMAIN at) + 1
      /\ Cardinality(DOMAIN at) \in Nat
  BY <1>2, <1>3, FS_AddElement, FS_CardinalityType DEF GoroutinesOK
<1>5. GoroutinesOK'
  <2>1. ASSUME NEW i \in DOMAIN at'
        PROVE  i \in Nat \ {0} /\ i < next' /\ at'[i] \in Nat /\ i <= at'[i]
    <3>1. CASE i = next
      BY <1>1, <1>2, <1>3, <3>1
    <3>2. CASE i # next
      <4>1. i \in DOMAIN at /\ at'[i] = at[i]
        BY <1>1, <1>3, <3>2
      <4> QED BY <1>1, <1>2, <1>3, <4>1 DEF GoroutinesOK
    <3> QED BY <3>1, <3>2
  <2>2. next' \in Nat \ {0} /\ err' \in BOOLEAN
    BY <1>1, <1>2, <1>3 DEF GoroutinesOK
  <2>3. IsFiniteSet(DOMAIN at)'
    BY <1>4
  <2> QED BY <2>1, <2>2, <2>3 DEF GoroutinesOK
<1>6. CounterOK'
  <2>1. CASE StartParallelized(stage)
    <3>1. Chunk(stage) = 1
      BY <2>1 DEF Chunk
    <3>2. ToCome = Reach + 1 - next
      BY <1>2, <2>1 DEF ToCome
    <3>3. ToCome' = IF next + 1 <= Reach THEN Reach + 1 - (next + 1) ELSE 0
      BY <1>1, <2>1, <3>1 DEF ToCome
    <3>4. wg' = wg /\ wg \in Int /\ wg >= Cardinality(DOMAIN at) + ToCome
      BY <1>1, <1>2, <2>1 DEF CounterOK
    <3>5. wg' >= Cardinality(DOMAIN at') + ToCome'
      BY <1>2, <1>3, <1>4, <3>2, <3>3, <3>4
    <3> QED BY <3>4, <3>5 DEF CounterOK
  <2>2. CASE ~ StartParallelized(stage)
    <3>1. ToCome = 0 /\ ToCome' = 0
      BY <1>1, <2>2 DEF ToCome
    <3>2. wg' = wg + 1 /\ wg \in Int /\ wg >= Cardinality(DOMAIN at)
      BY <1>1, <1>2, <1>4, <2>2, <3>1 DEF CounterOK
    <3>3. wg' \in Int /\ wg' >= Cardinality(DOMAIN at') + ToCome'
      BY <1>4, <3>1, <3>2
    <3> QED BY <3>3 DEF CounterOK
  <2> QED BY <2>1, <2>2
<1>7. Covered'
  <2>1. ASSUME NEW k \in 1..Room, k < next' PROVE err' \/ Stored(k)' \/ Held(k)'
    <3>1. CASE k < next
      <4>1. err \/ Stored(k) \/ Held(k)
        BY <1>2, <3>1 DEF Covered
      <4>2. CASE err \/ Stored(k)
        BY <1>1, <4>2 DEF Stored
      <4>3. CASE Held(k)
        <5>1. PICK i \in DOMAIN at : at[i] <= k /\ k < EndOf(i, stage, Reach)
          BY <4>3 DEF Held
        <5>2. i \in DOMAIN at' /\ at'[i] = at[i]
          BY <1>1, <1>3, <5>1
        <5>3. EndOf(i, stage', Reach') = EndOf(i, stage, Reach)
          BY <1>1
        <5> QED BY <5>1, <5>2, <5>3 DEF Held
      <4> QED BY <4>1, <4>2, <4>3
    <3>2. CASE next <= k
      <4>1. next \in DOMAIN at' /\ at'[next] = next
        BY <1>1, <1>3
      <4>2. k < EndOf(next, stage, Reach)
        BY <1>1, <1>2, <1>3, <2>1 DEF EndOf
      <4>3. EndOf(next, stage', Reach') = EndOf(next, stage, Reach)
        BY <1>1
      <4> QED BY <3>2, <4>1, <4>2, <4>3 DEF Held
    <3> QED BY <1>3, <3>1, <3>2
  <2>2. DOMAIN out' = 1..Room'
    BY <1>1, <1>2 DEF Covered
  <2> QED BY <1>1, <2>1, <2>2 DEF Covered
<1> QED BY <1>5, <1>6, <1>7 DEF WorkingInv

(* An element is stored and the goroutine moves on.                        *)
LEMMA WorkPreserves ==
  ASSUME NoDeparture, Inv, stage \in Working, NEW i \in Position, Work(i)
  PROVE  Inv'
<1> DEFINE k0 == at[i]
<1>1. /\ StageOfKind /\ ListComplete /\ GoroutinesOK /\ CounterOK /\ Covered
      /\ Room \in Nat /\ Reach \in Nat /\ Room <= Reach /\ Chunk(stage) \in Nat \ {0}
  BY Parameters DEF Inv, WorkingInv, Stage
<1>2. i \in DOMAIN at /\ i \in Nat \ {0} /\ k0 \in Nat /\ i <= k0 /\ k0 < EndOf(i, stage, Reach)
  BY <1>1 DEF Work, HasElement, GoroutinesOK, Reach
<1>3. CASE k0 \notin DOMAIN out
  <2>1. stage' = "panic" /\ UNCHANGED <<call, in>>
    BY <1>3 DEF Work
  <2> QED BY <1>1, <2>1 DEF Inv, StageOfKind, ListComplete, VerdictOfEach, Working, Stage
<1>. SUFFICES ASSUME k0 \in DOMAIN out PROVE Inv'
  BY <1>3
<1>12. k0 \in 1..Room
  BY <1>1 DEF Covered
<1>4. Argument(call, stage, i) = in[k0]
  <2>1. CASE ~ (call.kind = "tag_addition" /\ stage = "create")
    BY <2>1 DEF Argument
  <2>2. CASE call.kind = "tag_addition" /\ stage = "create"
    <3>1. Argument(call, stage, i) = in[i] /\ Room = N /\ i \in 1..N /\ k0 \in 1..N
      BY <1>1, <1>2, <1>12, <2>2, Parameters DEF Argument, Making, Working
    <3>2. CASE VPARALLELIZE = 1
      <4>1. Chunk(stage) = 1
        BY <2>2, <3>2 DEF Chunk
      <4>2. i = k0
        BY <1>1, <1>2, <3>1, <4>1 DEF EndOf
      <4> QED BY <3>1, <4>2
    <3>3. CASE VPARALLELIZE # 1
      <4>1. in[i] = call.items[i] /\ in[k0] = call.items[k0]
        BY <1>1, <2>2, <3>1 DEF ListComplete, Working, Source, Prepared, N
      <4>2. call.items[i] = call.items[k0]
        BY <1>1, <2>2, <3>1, <3>3, CallsAssumption DEF NoDeparture, StageOfKind, N
      <4> QED BY <3>1, <4>1, <4>2
    <3> QED BY <3>2, <3>3
  <2> QED BY <2>1, <2>2
<1>5. Store(i, Element(call, stage, in[k0]))
  BY <1>4 DEF Work
<1>6. /\ UNCHANGED <<call, stage, in, next, wg, err>> /\ Room' = Room /\ Reach' = Reach
      /\ out' = [out EXCEPT ![k0] = Element(call, stage, in[k0])]
      /\ at' = [at EXCEPT ![i] = k0 + 1]
  BY <1>5 DEF Store, Room, Reach
<1>7. DOMAIN at' = DOMAIN at /\ at'[i] = k0 + 1 /\ \A j \in DOMAIN at : j # i => at'[j] = at[j]
  BY <1>2, <1>6
<1>8. GoroutinesOK'
  <2>1. ASSUME NEW j \in DOMAIN at'
        PROVE  j \in Nat \ {0} /\ j < next' /\ at'[j] \in Nat /\ j <= at'[j]
    BY <1>1, <1>2, <1>6, <1>7 DEF GoroutinesOK
  <2>2. IsFiniteSet(DOMAIN at)'
    BY <1>1, <1>7 DEF GoroutinesOK
  <2>3. next' \in Nat \ {0} /\ err' \in BOOLEAN
    BY <1>1, <1>6 DEF GoroutinesOK
  <2> QED BY <2>1, <2>2, <2>3 DEF GoroutinesOK
<1>9. CounterOK'
  BY <1>1, <1>6, <1>7 DEF CounterOK, ToCome
<1>10. Covered'
  <2>1. DOMAIN out' = 1..Room'
    BY <1>1, <1>6 DEF Covered
  <2>2. ASSUME NEW k \in 1..Room, k < next PROVE err' \/ Stored(k)' \/ Held(k)'
    <3>1. CASE k = k0
      BY <1>1, <1>6, <1>12, <3>1 DEF Covered, Stored
    <3>2. CASE k # k0
      <4>1. err \/ Stored(k) \/ Held(k)
        BY <1>1, <2>2 DEF Covered
      <4>2. CASE err
        BY <1>6, <4>2
      <4>3. CASE Stored(k)
        BY <1>6, <3>2, <4>3 DEF Stored
      <4>4. CASE Held(k)
        <5>1. PICK j \in DOMAIN at : at[j] <= k /\ k < EndOf(j, stage, Reach)
          BY <4>4 DEF Held
        <5>2. at'[j] <= k
          BY <1>2, <1>7, <3>2, <5>1
        <5>3. EndOf(j, stage', Reach') = EndOf(j, stage, Reach)
          BY <1>6
        <5> QED BY <1>7, <5>1, <5>2, <5>3 DEF Held
      <4> QED BY <4>1, <4>2, <4>3, <4>4
    <3> QED BY <3>1, <3>2
  <2> QED BY <1>6, <2>1, <2>2 DEF Covered
<1>11. StageOfKind' /\ ListComplete' /\ VerdictOfEach'
  BY <1>1, <1>6 DEF StageOfKind, ListComplete, VerdictOfEach, Working, Source, Prepared, Encoded, Decoded, Verified, ProofOf
<1> QED BY <1>8, <1>9, <1>10, <1>11 DEF Inv, WorkingInv

(* A goroutine that leaves is not counted any more.                        *)
LEMMA LeavePreserves ==
  ASSUME GoroutinesOK, CounterOK, Reach \in Nat, NEW i \in DOMAIN at, Leave(i),
         UNCHANGED <<call, stage, next>>, err' \in BOOLEAN, wg' \in {wg, wg - 1}
  PROVE  GoroutinesOK' /\ CounterOK' /\ \A j \in DOMAIN at \ {i} : j \in DOMAIN at' /\ at'[j] = at[j]
<1>1. at' = [j \in DOMAIN at \ {i} |-> at[j]]
  BY DEF Leave
<1>2. DOMAIN at' = DOMAIN at \ {i} /\ \A j \in DOMAIN at \ {i} : at'[j] = at[j]
  BY <1>1
<1>3. /\ IsFiniteSet(DOMAIN at') /\ Cardinality(DOMAIN at') = Cardinality(DOMAIN at) - 1
      /\ Cardinality(DOMAIN at) \in Nat
  BY <1>2, FS_RemoveElement, FS_CardinalityType DEF GoroutinesOK
<1>4. GoroutinesOK'
  <2>1. IsFiniteSet(DOMAIN at)'
    BY <1>3
  <2>2. \A j \in DOMAIN at' : j \in Nat \ {0} /\ j < next' /\ at'[j] \in Nat /\ j <= at'[j]
    BY <1>2 DEF GoroutinesOK
  <2>3. next' \in Nat \ {0}
    BY DEF GoroutinesOK
  <2> QED BY <2>1, <2>2, <2>3 DEF GoroutinesOK
<1>5. CounterOK'
  <2>1. ToCome' = ToCome
    BY DEF ToCome, Reach
  <2>2. wg \in Int /\ wg >= Cardinality(DOMAIN at) + ToCome
    BY DEF CounterOK
  <2>3. ToCome \in Int
    <3>1. CASE StartParallelized(stage) /\ next <= Reach
      BY <2>2, <3>1, <1>3 DEF ToCome, GoroutinesOK
    <3>2. CASE ~ (StartParallelized(stage) /\ next <= Reach)
      BY <3>2 DEF ToCome
    <3> QED BY <3>1, <3>2
  <2>4. wg' \in Int /\ wg' >= Cardinality(DOMAIN at') + ToCome'
    BY <1>3, <2>1, <2>2, <2>3
  <2> QED BY <2>4 DEF CounterOK
<1> QED BY <1>2, <1>4, <1>5

LEMMA FailPreserves ==
  ASSUME NoDeparture, Inv, stage \in Working, NEW i \in Position, Fail(i)
  PROVE  Inv'
<1>1. /\ StageOfKind /\ ListComplete /\ GoroutinesOK /\ CounterOK /\ Covered
      /\ i \in DOMAIN at /\ Reach \in Nat
  BY Parameters DEF Inv, WorkingInv, Fail, HasElement
<1>2. ~ (call.kind = "tag" /\ stage = "create")
  BY DEF Fail, MayFail, NoDeparture
<1>3. /\ Leave(i) /\ err' = TRUE /\ wg' \in {wg, wg - 1}
      /\ UNCHANGED <<call, stage, in, out, next>>
  BY <1>2 DEF Fail
<1>4. GoroutinesOK' /\ CounterOK'
  <2>1. err' \in BOOLEAN
    BY <1>3, Zenon
  <2> QED BY <1>1, <1>3, <2>1, LeavePreserves
<1>5. Covered'
  BY <1>1, <1>3 DEF Covered, Room
<1>6. StageOfKind' /\ ListComplete' /\ VerdictOfEach'
  BY <1>1, <1>3 DEF StageOfKind, ListComplete, VerdictOfEach, Working, Source, Prepared, Encoded, Decoded, Verified, ProofOf
<1> QED BY <1>4, <1>5, <1>6 DEF Inv, WorkingInv

(* A goroutine that ends has stored what it had to do.                     *)
LEMMA FinishPreserves ==
  ASSUME Inv, stage \in Working, NEW i \in Position, Finish(i)
  PROVE  Inv'
<1>1. /\ StageOfKind /\ ListComplete /\ GoroutinesOK /\ CounterOK /\ Covered
      /\ i \in DOMAIN at /\ Reach \in Nat /\ Room \in Nat /\ Room <= Reach
  BY Parameters DEF Inv, WorkingInv, Finish
<1>2. Leave(i) /\ wg' = wg - 1 /\ UNCHANGED <<call, stage, in, out, next, err>>
  BY DEF Finish
<1>3. /\ GoroutinesOK' /\ CounterOK'
      /\ \A j \in DOMAIN at \ {i} : j \in DOMAIN at' /\ at'[j] = at[j]
  <2>1. err' \in BOOLEAN
    BY <1>1, <1>2 DEF GoroutinesOK
  <2> QED BY <1>1, <1>2, <2>1, LeavePreserves
<1>4. ~ (at[i] < EndOf(i, stage, Reach))
  BY DEF Finish, HasElement, Reach
<1>5. Covered'
  <2>1. ASSUME NEW k \in 1..Room, k < next PROVE err' \/ Stored(k)' \/ Held(k)'
    <3>1. err \/ Stored(k) \/ Held(k)
      BY <1>1, <2>1 DEF Covered
    <3>2. CASE err \/ Stored(k)
      BY <1>2, <3>2 DEF Stored
    <3>3. CASE Held(k)
      <4>1. PICK j \in DOMAIN at : at[j] <= k /\ k < EndOf(j, stage, Reach)
        BY <3>3 DEF Held
      <4>2. j # i
        <5>1. at[i] \in Nat /\ i \in Nat /\ Chunk(stage) \in Nat
          BY <1>1, Parameters DEF GoroutinesOK, Stage
        <5>2. EndOf(i, stage, Reach) \in Int
          BY <1>1, <5>1 DEF EndOf
        <5> QED BY <1>4, <4>1, <5>1, <5>2
      <4>3. EndOf(j, stage', Reach') = EndOf(j, stage, Reach)
        BY <1>2 DEF Reach
      <4> QED BY <1>3, <4>1, <4>2, <4>3 DEF Held
    <3> QED BY <3>1, <3>2, <3>3
  <2>2. DOMAIN out' = 1..Room' /\ Room' = Room
    BY <1>1, <1>2 DEF Covered, Room
  <2> QED BY <1>2, <2>1, <2>2 DEF Covered
<1>6. StageOfKind' /\ ListComplete' /\ VerdictOfEach'
  BY <1>1, <1>2 DEF StageOfKind, ListComplete, VerdictOfEach, Working, Source, Prepared, Encoded, Decoded, Verified, ProofOf
<1> QED BY <1>3, <1>5, <1>6 DEF Inv, WorkingInv

(* Wait returns when no goroutine runs: without an error all is stored.    *)
LEMMA JoinPreserves ==
  ASSUME Inv, stage \in Working, Join
  PROVE  Inv'
<1>1. /\ StageOfKind /\ ListComplete /\ GoroutinesOK /\ CounterOK /\ Covered
      /\ N \in Nat /\ Room \in Nat /\ Reach \in Nat /\ Room <= Reach /\ Room <= N /\ next > Reach /\ wg = 0
  BY Parameters DEF Inv, WorkingInv, Join, Reach
<1>2. CASE err
  <2>1. stage' = "failed" /\ UNCHANGED <<call, in>>
    BY <1>2 DEF Join
  <2> QED BY <1>1, <2>1 DEF Inv, StageOfKind, ListComplete, VerdictOfEach, Working, Stage
<1>3. CASE ~ err
  <2> DEFINE st == After(call.kind, stage)
  <2>1. StartStage(call, st, out)
    BY <1>3 DEF Join
  <2>2. call' = call /\ stage' = st /\ in' = out /\ N' = N
    BY <2>1 DEF StartStage, N
  <2>3. DOMAIN at = {}
    <3>1. IsFiniteSet(DOMAIN at) /\ Cardinality(DOMAIN at) \in Nat
      BY <1>1, FS_CardinalityType DEF GoroutinesOK
    <3>2. ToCome = 0
      BY <1>1 DEF ToCome, GoroutinesOK
    <3>3. Cardinality(DOMAIN at) = 0
      BY <1>1, <3>1, <3>2 DEF CounterOK
    <3> QED BY <3>1, <3>3, FS_EmptySet
  <2>4. \A k \in 1..Room : out[k] = Element(call, stage, Source(call, stage, k))
    <3> SUFFICES ASSUME NEW k \in 1..Room PROVE out[k] = Element(call, stage, Source(call, stage, k))
      OBVIOUS
    <3>1. k < next /\ ~ Held(k)
      BY <1>1, <2>3 DEF Held, GoroutinesOK
    <3>2. out[k] = Element(call, stage, in[k])
      BY <1>1, <1>3, <3>1 DEF Covered, Stored
    <3>3. in[k] = Source(call, stage, k)
      BY <1>1 DEF ListComplete, N
    <3> QED BY <3>2, <3>3
  <2>5. CASE stage \in Making
    <3>1. st \in Working /\ Room = N
      BY <1>1, <2>5, Parameters DEF StageOfKind, After, Making, Working
    <3>2. \A k \in 1..N : out[k] = Source(call, st, k)
      BY <1>1, <2>4, <2>5, <3>1, SourceAfter
    <3>3. \A k \in 1..N : Source(call', stage', k) = Source(call, st, k)
      BY <2>2
    <3>4. ListComplete'
      BY <2>2, <3>2, <3>3 DEF ListComplete, N
    <3>5. StageOfKind'
      BY <1>1, <2>2, <2>5 DEF StageOfKind, After, Making, Working, Stage
    <3>6. WorkingInv'
      BY <1>1, <2>1, <3>1, StartPreserves DEF StageOfKind, N
    <3>7. VerdictOfEach'
      BY <2>2, <3>1 DEF VerdictOfEach, Working
    <3> QED BY <3>4, <3>5, <3>6, <3>7 DEF Inv
  <2>6. CASE stage = "verify"
    <3>1. st = "done" /\ Room = ToVerify
      BY <2>6 DEF After, Room, ToVerify, Size
    <3>2. ListComplete' /\ StageOfKind' /\ stage' \notin Working
      BY <1>1, <2>2, <3>1 DEF ListComplete, StageOfKind, Working, Stage
    <3>3. \A k \in 1..ToVerify : out[k] = Verdict(k)
      BY <2>4, <2>6, <3>1 DEF Verdict
    <3>4. ToVerify' = ToVerify /\ \A k \in 1..ToVerify : Verdict(k)' = Verdict(k)
      BY <2>2 DEF ToVerify, Verdict
    <3>5. VerdictOfEach'
      BY <1>1, <2>2, <3>1, <3>3, <3>4 DEF VerdictOfEach, Covered
    <3> QED BY <3>2, <3>5 DEF Inv
  <2> QED BY <2>5, <2>6 DEF Making
<1> QED BY <1>2, <1>3

LEMMA StepInv == NoDeparture /\ Inv /\ [Next]_vars => Inv'
<1> SUFFICES ASSUME NoDeparture, Inv, [Next]_vars PROVE Inv'
  OBVIOUS
<1>1. CASE UNCHANGED vars
  <2>1. UNCHANGED <<call, stage, in, out, next, at, wg, err>>
    BY <1>1 DEF vars
  <2>2. StageOfKind' /\ ListComplete'
    BY <2>1 DEF Inv, StageOfKind, ListComplete
  <2>4. VerdictOfEach'
    <3>1. ToVerify' = ToVerify /\ \A k \in 1..ToVerify : Verdict(k)' = Verdict(k)
      BY <2>1 DEF ToVerify, Verdict
    <3> QED BY <2>1, <3>1 DEF Inv, VerdictOfEach
  <2>3. stage' \in Working => WorkingInv'
    BY <2>1 DEF Inv, WorkingInv, GoroutinesOK, CounterOK, ToCome, Covered, Stored, Held, Room, Reach
  <2> QED BY <2>2, <2>3, <2>4 DEF Inv
<1>2. CASE Next /\ stage \notin Working
  BY <1>2 DEF Next, Spawn, Goroutine, Work, Fail, Finish, HasElement, Join
<1>3. CASE Next /\ stage \in Working
  <2>1. CASE Spawn
    <3>1. WorkingInv'
      BY <1>3, <2>1, SpawnPreserves
    <3>2. StageOfKind' /\ ListComplete' /\ VerdictOfEach'
      BY <2>1 DEF Inv, Spawn, StageOfKind, ListComplete, VerdictOfEach, Working
    <3> QED BY <3>1, <3>2 DEF Inv
  <2>2. CASE Join
    BY <1>3, <2>2, JoinPreserves
  <2>3. ASSUME NEW i \in Position, Goroutine(i) PROVE Inv'
    BY <1>3, <2>3, WorkPreserves, FailPreserves, FinishPreserves DEF Goroutine
  <2> QED BY <1>3, <2>1, <2>2, <2>3 DEF Next
<1> QED BY <1>1, <1>2, <1>3

(* With any number of elements, chunks of any size and whatever the order  *)
(* of the goroutines and their errors, the lists that the stages hand on   *)
(* are complete and in order, but for the two departures.                  *)
THEOREM ListsComplete == NoDeparture => (Spec => []ListComplete)
<1> SUFFICES ASSUME NoDeparture PROVE Spec => []ListComplete
  OBVIOUS
<1>1. Inv /\ [Next]_vars => Inv'
  BY StepInv
<1>2. Inv => ListComplete
  BY DEF Inv
<1> QED BY InitInv, <1>1, <1>2, PTL DEF Spec

(* In the same generality, the verification of a list ends with a verdict  *)
(* for each element of the share, which is that of its own proof.          *)
THEOREM VerdictsComplete == NoDeparture => (Spec => []VerdictOfEach)
<1> SUFFICES ASSUME NoDeparture PROVE Spec => []VerdictOfEach
  OBVIOUS
<1>1. Inv /\ [Next]_vars => Inv'
  BY StepInv
<1>2. Inv => VerdictOfEach
  BY DEF Inv
<1> QED BY InitInv, <1>1, <1>2, PTL DEF Spec

-----------------------------------------------------------------------------
(***************************************************************************)
(* The safety in CallReturns: as long as a list is being worked on, the    *)
(* caller or a goroutine can go on.                                        *)
(***************************************************************************)
(* The two ways in which a call does not return: an error of a key switch  *)
(* proof skips Done, and the verification of a part of a list of add_rm    *)
(* proofs goes beyond its results.                                         *)
WaitsForAll ==
  /\ <<"key_switch", "create">> \notin Faulty
  /\ \A cl \in Calls : cl.kind = "add_rm" => cl.share[1] = cl.share[2]

(* The caller has a goroutine to start, one has an element to do or leaves *)
(* or the caller is not held by Wait (the guards of the actions).          *)
CanGoOn ==
  \/ next <= Bound(call, stage)
  \/ \E i \in Position : HasElement(i)
  \/ \E i \in Position : i \in DOMAIN at /\ ~ HasElement(i)
  \/ next > Bound(call, stage) /\ wg = 0

NobodyWaitsInVain == stage # "panic" /\ (stage \in Working => CanGoOn)

(* The WaitGroup counts exactly the goroutines that run and are to come.   *)
Counted ==
  /\ next \in Nat \ {0} /\ IsFiniteSet(DOMAIN at)
  /\ \A i \in DOMAIN at : i \in 1..Reach /\ i < next /\ at[i] \in Nat \ {0}
  /\ DOMAIN out = 1..Room
  /\ wg = Cardinality(DOMAIN at) + ToCome

WaitInv == StageOfKind /\ stage # "panic" /\ (stage \in Working => Counted)

LEMMA WholeShare ==
  ASSUME NEW n \in Nat, NEW b \in Nat \ {0}
  PROVE  (n * b + b - 1) \div b = n
<1> DEFINE u == n * b
<1> DEFINE q == (u + b - 1) \div b
<1>1. u \in Nat /\ b <= b /\ q \in 0..n
  <2>1. u \in Nat /\ b \in Nat /\ b <= b
    OBVIOUS
  <2>2. q \in 0..n
    BY <2>1, ShareOf
  <2> QED BY <2>1, <2>2
<1>2. u + b - 1 < b * q + b
  <2> HIDE DEF u
  <2>1. u + b - 1 \in Nat
    BY <1>1
  <2>2. \A a \in Nat : a < b * (a \div b) + b
    OBVIOUS
  <2> QED BY <2>1, <2>2
<1>3. q >= n
  <2> HIDE DEF q
  <2>1. SUFFICES ASSUME q + 1 <= n PROVE FALSE
    BY <1>1
  <2>2. b * (q + 1) <= b * n
    BY <1>1, <2>1
  <2>3. b * (q + 1) = b * q + b /\ b * n = u /\ b * q \in Nat
    BY <1>1
  <2> HIDE DEF u
  <2> QED BY <1>1, <1>2, <2>2, <2>3
<1> QED BY <1>1, <1>3 DEF q, u

LEMMA RoomForAll ==
  ASSUME WaitsForAll, StageOfKind
  PROVE  Room = Reach /\ Reach \in 0..N /\ N \in Nat /\ N = Len(call.items) /\ call \in Calls
<1>1. N \in Nat /\ Room \in Nat /\ Reach \in Nat /\ Room <= N /\ N = Len(call.items) /\ call \in Calls
  BY Parameters DEF N, StageOfKind
<1>2. CASE call.kind # "add_rm"
  BY <1>1, <1>2 DEF Room, Reach, Bound
<1>3. CASE call.kind = "add_rm"
  <2>1. Reach = N
    BY <1>3 DEF Reach, Bound, N
  <2>2. call.share[1] = call.share[2] /\ call.share[2] \in Nat \ {0}
    BY <1>1, <1>3, ShareAssumption DEF WaitsForAll
  <2>3. NbrProofsToVerify(call) = N
    BY <1>1, <2>2, WholeShare DEF NbrProofsToVerify
  <2> QED BY <1>1, <2>1, <2>3 DEF Room, Size, N
<1> QED BY <1>2, <1>3

LEMMA StartCounted ==
  ASSUME NEW cl \in Calls, NEW st \in Working, NEW elements, StartStage(cl, st, elements)
  PROVE  Counted'
<1>1. call' = cl /\ stage' = st /\ Room' = Size(cl, st) /\ Reach' = Bound(cl, st) /\ next' = 1
  BY DEF StartStage, Room, Reach
<1>2. DOMAIN at' = {} /\ IsFiniteSet({}) /\ Cardinality({}) = 0 /\ Len(cl.items) \in Nat
  BY FS_EmptySet, CallsAssumption DEF StartStage
<1>3. wg' = Cardinality(DOMAIN at') + ToCome'
  <2>1. CASE StartParallelized(st)
    <3>1. Reach' = Len(cl.items) /\ wg' = Len(cl.items)
      BY <1>1, <2>1, ParallelizedSize DEF StartStage
    <3>2. ToCome' = IF 1 <= Reach' THEN Reach' + 1 - 1 ELSE 0
      BY <1>1, <2>1 DEF ToCome
    <3> QED BY <1>2, <3>1, <3>2
  <2>2. CASE ~ StartParallelized(st)
    BY <1>1, <1>2, <2>2 DEF ToCome, StartStage
  <2> QED BY <2>1, <2>2
<1>4. DOMAIN out' = 1..Room'
  BY <1>1 DEF StartStage
<1>5. IsFiniteSet(DOMAIN at)' /\ next' \in Nat \ {0}
  BY <1>1, <1>2
<1>6. \A i \in DOMAIN at' : i \in 1..Reach' /\ i < next' /\ at'[i] \in Nat \ {0}
  BY <1>2
<1> QED BY <1>3, <1>4, <1>5, <1>6 DEF Counted

LEMMA InitCounted == Init => WaitInv
<1> SUFFICES ASSUME Init PROVE WaitInv
  OBVIOUS
<1>1. StageOfKind /\ GoroutinesOK
  <2>1. stage \in Working
    BY DEF Init, FirstStage, Working
  <2> QED BY <2>1, InitInv DEF Inv, WorkingInv
<1>2. stage # "panic" /\ ~ StartParallelized(stage)
  BY DEF Init, FirstStage, StartParallelized
<1>3. DOMAIN at = {} /\ IsFiniteSet({}) /\ Cardinality({}) = 0
  BY FS_EmptySet DEF Init
<1>4. wg = Cardinality(DOMAIN at) + ToCome
  BY <1>2, <1>3 DEF Init, ToCome
<1>5. DOMAIN out = 1..Room
  BY DEF Init, Room
<1>6. next \in Nat \ {0} /\ IsFiniteSet(DOMAIN at)
  BY <1>3 DEF Init
<1>7. \A i \in DOMAIN at : i \in 1..Reach /\ i < next /\ at[i] \in Nat \ {0}
  BY <1>3
<1> QED BY <1>1, <1>2, <1>4, <1>5, <1>6, <1>7 DEF WaitInv, Counted

LEMMA SpawnCounted ==
  ASSUME WaitsForAll, WaitInv, stage \in Working, Spawn
  PROVE  WaitInv'
<1>1. /\ UNCHANGED <<call, stage, in, out, err>> /\ Room' = Room /\ Reach' = Reach
      /\ at' = [i \in DOMAIN at \cup {next} |-> IF i = next THEN next ELSE at[i]]
      /\ next' = next + Chunk(stage)
      /\ wg' = IF StartParallelized(stage) THEN wg ELSE wg + 1
  BY DEF Spawn, Room, Reach
<1>2. StageOfKind /\ Counted /\ Reach \in Nat /\ Chunk(stage) \in Nat \ {0} /\ next <= Reach
  BY Parameters, RoomForAll DEF WaitInv, Spawn, Stage, Reach
<1>3. /\ DOMAIN at' = DOMAIN at \cup {next} /\ next \notin DOMAIN at /\ next \in Nat \ {0}
      /\ IsFiniteSet(DOMAIN at)
  BY <1>1, <1>2 DEF Counted
<1>4. /\ IsFiniteSet(DOMAIN at') /\ Cardinality(DOMAIN at') = Cardinality(DOMAIN at) + 1
      /\ Cardinality(DOMAIN at) \in Nat
  BY <1>3, FS_AddElement, FS_CardinalityType
<1>5. wg' = Cardinality(DOMAIN at') + ToCome'
  <2>1. CASE StartParallelized(stage)
    <3>1. Chunk(stage) = 1
      BY <2>1 DEF Chunk
    <3>2. ToCome = Reach + 1 - next
      BY <1>2, <2>1 DEF ToCome
    <3>3. ToCome' = IF next + 1 <= Reach THEN Reach + 1 - (next + 1) ELSE 0
      BY <1>1, <2>1, <3>1 DEF ToCome
    <3>4. wg' = Cardinality(DOMAIN at) + ToCome
      BY <1>1, <1>2, <2>1 DEF Counted
    <3> QED BY <1>2, <1>3, <1>4, <3>2, <3>3, <3>4
  <2>2. CASE ~ StartParallelized(stage)
    <3>1. ToCome = 0 /\ ToCome' = 0
      BY <1>1, <2>2 DEF ToCome
    <3>2. wg' = (Cardinality(DOMAIN at) + 0) + 1
      BY <1>1, <1>2, <2>2, <3>1 DEF Counted
    <3> QED BY <1>4, <3>1, <3>2
  <2> QED BY <2>1, <2>2
<1>6. ASSUME NEW i \in DOMAIN at'
      PROVE  i \in 1..Reach' /\ i < next' /\ at'[i] \in Nat \ {0}
  <2>1. CASE i = next
    BY <1>1, <1>2, <1>3, <2>1
  <2>2. CASE i # next
    <3>1. i \in DOMAIN at /\ at'[i] = at[i]
      BY <1>1, <1>3, <2>2
    <3> QED BY <1>1, <1>2, <1>3, <3>1 DEF Counted
  <2> QED BY <2>1, <2>2
<1>7. DOMAIN out' = 1..Room' /\ next' \in Nat \ {0} /\ IsFiniteSet(DOMAIN at)'
  BY <1>1, <1>2, <1>3, <1>4 DEF Counted
<1>8. StageOfKind' /\ stage' # "panic"
  BY <1>1, <1>2 DEF StageOfKind, WaitInv
<1> QED BY <1>5, <1>6, <1>7, <1>8 DEF WaitInv, Counted

(* A goroutine stores something and moves on.                              *)
LEMMA StoreCounted ==
  ASSUME WaitInv, stage \in Working, NEW i \in DOMAIN at, NEW x, Store(i, x)
  PROVE  WaitInv'
<1>1. /\ UNCHANGED <<call, stage, in, next, wg, err>> /\ Room' = Room /\ Reach' = Reach
      /\ DOMAIN out' = DOMAIN out /\ DOMAIN at' = DOMAIN at /\ at'[i] = at[i] + 1
      /\ \A j \in DOMAIN at : j # i => at'[j] = at[j]
  BY DEF Store, Room, Reach
<1>2. StageOfKind' /\ stage' # "panic"
  BY <1>1 DEF StageOfKind, WaitInv
<1>3. Counted
  BY DEF WaitInv
<1>4. \A j \in DOMAIN at' : j \in 1..Reach' /\ j < next' /\ at'[j] \in Nat \ {0}
  BY <1>1, <1>3 DEF Counted
<1>5. /\ next' \in Nat \ {0} /\ IsFiniteSet(DOMAIN at)' /\ DOMAIN out' = 1..Room'
      /\ wg' = Cardinality(DOMAIN at') + ToCome'
  BY <1>1, <1>3 DEF Counted, ToCome
<1> QED BY <1>2, <1>4, <1>5 DEF WaitInv, Counted

(* A goroutine leaves and is not counted any more.                         *)
LEMMA LeaveCounted ==
  ASSUME WaitsForAll, WaitInv, stage \in Working, NEW i \in DOMAIN at, Leave(i), wg' = wg - 1,
         UNCHANGED <<call, stage, in, out, next>>
  PROVE  WaitInv'
<1>1. Counted /\ IsFiniteSet(DOMAIN at) /\ Room' = Room /\ Reach' = Reach /\ ToCome' = ToCome
  BY DEF WaitInv, Counted, Room, Reach, ToCome
<1>2. DOMAIN at' = DOMAIN at \ {i} /\ \A j \in DOMAIN at' : at'[j] = at[j]
  BY DEF Leave
<1>3. /\ IsFiniteSet(DOMAIN at') /\ Cardinality(DOMAIN at') = Cardinality(DOMAIN at) - 1
      /\ Cardinality(DOMAIN at) \in Nat
  BY <1>1, <1>2, FS_RemoveElement, FS_CardinalityType
<1>4. ToCome \in Int
  <2>1. Reach \in Nat /\ next \in Nat
    BY <1>1, RoomForAll DEF WaitInv, Counted
  <2> QED BY <2>1 DEF ToCome
<1>5. wg' = Cardinality(DOMAIN at') + ToCome'
  <2>1. wg = Cardinality(DOMAIN at) + ToCome
    BY <1>1 DEF Counted
  <2> QED BY <1>1, <1>3, <1>4, <2>1
<1>6. \A j \in DOMAIN at' : j \in 1..Reach' /\ j < next' /\ at'[j] \in Nat \ {0}
  BY <1>1, <1>2 DEF Counted
<1>7. next' \in Nat \ {0} /\ IsFiniteSet(DOMAIN at)' /\ DOMAIN out' = 1..Room'
  BY <1>1, <1>3 DEF Counted
<1>8. StageOfKind' /\ stage' # "panic"
  BY DEF StageOfKind, WaitInv
<1> QED BY <1>5, <1>6, <1>7, <1>8 DEF WaitInv, Counted

LEMMA WorkCounted ==
  ASSUME WaitsForAll, WaitInv, stage \in Working, NEW i \in Position, Work(i)
  PROVE  WaitInv'
<1>1. /\ StageOfKind /\ Counted /\ Room = Reach /\ Reach \in Nat /\ Chunk(stage) \in Nat \ {0}
      /\ i \in DOMAIN at /\ at[i] < EndOf(i, stage, Reach)
  BY Parameters, RoomForAll DEF WaitInv, Work, HasElement, Reach, Stage
<1>2. at[i] \in DOMAIN out
  <2>1. i \in 1..Reach /\ at[i] \in Nat \ {0} /\ DOMAIN out = 1..Reach
    BY <1>1 DEF Counted
  <2>2. EndOf(i, stage, Reach) <= Reach + 1 /\ EndOf(i, stage, Reach) \in Int
    BY <1>1, <2>1 DEF EndOf
  <2> QED BY <1>1, <2>1, <2>2
<1>3. Store(i, Element(call, stage, Argument(call, stage, i)))
  BY <1>2 DEF Work
<1> QED BY <1>1, <1>3, StoreCounted

LEMMA FailCounted ==
  ASSUME WaitsForAll, WaitInv, stage \in Working, NEW i \in Position, Fail(i)
  PROVE  WaitInv'
<1>1. i \in DOMAIN at /\ MayFail(call, stage, Argument(call, stage, i))
  BY DEF Fail, HasElement
<1>2. CASE call.kind = "tag" /\ stage = "create"
  BY <1>1, <1>2, StoreCounted DEF Fail
<1>3. CASE ~ (call.kind = "tag" /\ stage = "create")
  <2>1. DoneAfterError(call, stage)
    BY <1>1 DEF DoneAfterError, MayFail, WaitsForAll
  <2>2. Leave(i) /\ wg' = wg - 1 /\ UNCHANGED <<call, stage, in, out, next>>
    BY <1>3, <2>1 DEF Fail
  <2> QED BY <1>1, <2>2, LeaveCounted
<1> QED BY <1>2, <1>3

LEMMA JoinCounted ==
  ASSUME WaitInv, stage \in Working, Join
  PROVE  WaitInv'
<1>1. CASE err
  BY <1>1 DEF Join, WaitInv, StageOfKind, Working, Stage
<1>2. CASE ~ err
  <2> DEFINE st == After(call.kind, stage)
  <2>1. StartStage(call, st, out) /\ call' = call /\ stage' = st /\ call \in Calls
    BY <1>2 DEF Join, StartStage, WaitInv, StageOfKind
  <2>2. StageOfKind' /\ stage' # "panic"
    BY <2>1 DEF WaitInv, StageOfKind, After, Working, Stage
  <2>3. stage' \in Working => Counted'
    <3> HIDE DEF st
    <3> QED BY <2>1, StartCounted
  <2> QED BY <2>2, <2>3 DEF WaitInv
<1> QED BY <1>1, <1>2

(* With lists of any kind and size, errors anywhere else and any order of  *)
(* the goroutines, no call is held for ever by a Wait whose goroutines are *)
(* gone, and none takes the process down (key_switch_proofs.go:105-124 and *)
(* those like it; that every call ends follows with fairness, by TLC).     *)
THEOREM WaitsEnd == WaitsForAll => (Spec => []NobodyWaitsInVain)
<1> SUFFICES ASSUME WaitsForAll PROVE Spec => []NobodyWaitsInVain
  OBVIOUS
<1>1. WaitInv /\ [Next]_vars => WaitInv'
  <2> SUFFICES ASSUME WaitInv, [Next]_vars PROVE WaitInv'
    OBVIOUS
  <2>1. CASE UNCHANGED vars
    <3>1. UNCHANGED <<call, stage, in, out, next, at, wg, err>>
      BY <2>1 DEF vars
    <3> QED BY <3>1 DEF WaitInv, StageOfKind, Counted, Room, Reach, ToCome
  <2>2. CASE Next /\ stage \notin Working
    BY <2>2 DEF Next, Spawn, Goroutine, Work, Fail, Finish, HasElement, Join
  <2>3. CASE Next /\ stage \in Working
    <3>1. CASE Spawn
      BY <2>3, <3>1, SpawnCounted
    <3>2. CASE Join
      BY <2>3, <3>2, JoinCounted
    <3>3. ASSUME NEW i \in Position, Finish(i) PROVE WaitInv'
      <4>1. i \in DOMAIN at /\ Leave(i) /\ wg' = wg - 1 /\ UNCHANGED <<call, stage, in, out, next>>
        BY <3>3 DEF Finish
      <4> QED BY <2>3, <4>1, LeaveCounted
    <3> QED BY <2>3, <3>1, <3>2, <3>3, WorkCounted, FailCounted DEF Next, Goroutine
  <2> QED BY <2>1, <2>2, <2>3
<1>2. WaitInv => NobodyWaitsInVain
  <2> SUFFICES ASSUME WaitInv, stage \in Working PROVE CanGoOn
    BY DEF WaitInv, NobodyWaitsInVain
  <2>1. Counted /\ Reach \in 0..N /\ N = Len(call.items) /\ N \in Nat /\ call \in Calls
    BY RoomForAll DEF WaitInv
  <2>2. CASE next <= Reach
    BY <2>2 DEF CanGoOn, Reach
  <2>3. CASE DOMAIN at = {} /\ ~ (next <= Reach)
    <3>1. ToCome = 0 /\ Cardinality(DOMAIN at) = 0
      BY <2>3, FS_EmptySet DEF ToCome
    <3>2. wg = 0 /\ next > Reach
      BY <2>1, <2>3, <3>1 DEF Counted
    <3> QED BY <3>2 DEF CanGoOn, Reach
  <2>4. CASE DOMAIN at # {}
    <3>1. PICK i \in DOMAIN at : TRUE
      BY <2>4
    <3>2. i \in 1..Len(call.items)
      BY <2>1 DEF Counted
    <3>3. i \in Position
      BY <2>1, <3>2 DEF Position
    <3> QED BY <3>3 DEF CanGoOn
  <2> QED BY <2>2, <2>3, <2>4
<1> QED BY InitCounted, <1>1, <1>2, PTL DEF Spec

-----------------------------------------------------------------------------
(***************************************************************************)
(* The predicates of ProofPredicates hold exactly for what the protocols   *)
(* should have computed, whatever the keys, the secrets and the points.    *)
(***************************************************************************)
(* A row with one term, made with the points pval and read with pv.        *)
LEMMA OneTerm ==
  ASSUME NEW P, NEW a, NEW b, NEW sval, NEW pval, NEW pv
  PROVE  LET rep == Rep(P, << <<a, b>> >>)
         IN  RepHolds(rep, pv, TermsOf(rep, sval, pval))
               <=> pval[b] = pv[b] /\ sval[a] * pval[b] = pv[P]
<1> DEFINE rep == Rep(P, << <<a, b>> >>)
<1> DEFINE terms == TermsOf(rep, sval, pval)
<1>1. rep.P = P /\ rep.terms = << <<a, b>> >>
  BY DEF Rep
<1>2. DOMAIN terms = {1} /\ terms[1] = [x |-> sval[a], B |-> pval[b]]
  BY <1>1 DEF TermsOf
<1>3. SumOfTerms(terms) = sval[a] * pval[b]
  BY <1>2 DEF SumOfTerms
<1>4. (\A j \in DOMAIN terms : terms[j].B = pv[rep.terms[j][2]]) <=> pval[b] = pv[b]
  BY <1>1, <1>2
<1> QED BY <1>1, <1>3, <1>4 DEF RepHolds

(* A row with two terms.                                                   *)
LEMMA TwoTerms ==
  ASSUME NEW P, NEW a, NEW b, NEW d, NEW e, NEW sval, NEW pval, NEW pv
  PROVE  LET rep == Rep(P, << <<a, b>>, <<d, e>> >>)
         IN  RepHolds(rep, pv, TermsOf(rep, sval, pval))
               <=> /\ pval[b] = pv[b] /\ pval[e] = pv[e]
                   /\ sval[a] * pval[b] + sval[d] * pval[e] = pv[P]
<1> DEFINE rep == Rep(P, << <<a, b>>, <<d, e>> >>)
<1> DEFINE terms == TermsOf(rep, sval, pval)
<1>1. rep.P = P /\ rep.terms = << <<a, b>>, <<d, e>> >>
  BY DEF Rep
<1>2. /\ DOMAIN terms = {1, 2}
      /\ terms[1] = [x |-> sval[a], B |-> pval[b]] /\ terms[2] = [x |-> sval[d], B |-> pval[e]]
  BY <1>1 DEF TermsOf
<1>3. SumOfTerms(terms) = sval[a] * pval[b] + sval[d] * pval[e]
  BY <1>2 DEF SumOfTerms
<1>4. (\A j \in DOMAIN terms : terms[j].B = pv[rep.terms[j][2]]) <=> pval[b] = pv[b] /\ pval[e] = pv[e]
  BY <1>1, <1>2
<1> QED BY <1>1, <1>3, <1>4 DEF RepHolds

-----------------------------------------------------------------------------
(* What the three rows of the key switching predicate say.                 *)
LEMMA KeySwitchHolds ==
  ASSUME NEW sec, NEW pts
  PROVE  HashVerify(KeySwitchPredicate, pts, HashProve(KeySwitchPredicate, sec, pts))
        <=> /\ sec.vi * pts.B = pts.viB /\ sec.k * pts.B = pts.K
            /\ sec.k * pts.rBNeg + sec.vi * pts.Q = pts.ks2
<1> DEFINE pr == KeySwitchPredicate
<1> DEFINE h == HashProve(pr, sec, pts)
<1>1. /\ DOMAIN pr = {1, 2, 3}
      /\ pr[1] = Rep("viB", << <<"vi", "B">> >>) /\ pr[2] = Rep("K", << <<"k", "B">> >>)
      /\ pr[3] = Rep("ks2", << <<"k", "rBNeg">>, <<"vi", "Q">> >>)
  BY DEF KeySwitchPredicate
<1> HIDE DEF pr
<1>2. \A i \in {1, 2, 3} : h[i] = TermsOf(pr[i], sec, pts)
  BY <1>1 DEF HashProve
<1> HIDE DEF h
<1>3. RepHolds(pr[1], pts, h[1]) <=> sec.vi * pts.B = pts.viB
  BY <1>1, <1>2, OneTerm
<1>4. RepHolds(pr[2], pts, h[2]) <=> sec.k * pts.B = pts.K
  BY <1>1, <1>2, OneTerm
<1>5. RepHolds(pr[3], pts, h[3]) <=> sec.k * pts.rBNeg + sec.vi * pts.Q = pts.ks2
  BY <1>1, <1>2, TwoTerms
<1>6. HashVerify(pr, pts, h) <=> \A i \in {1, 2, 3} : RepHolds(pr[i], pts, h[i])
  BY <1>1 DEF HashVerify
<1> QED BY <1>3, <1>4, <1>5, <1>6 DEF pr, h
(* A key switching proof verifies exactly when the server has subtracted   *)
(* its own layer and added that of the querier, with the key it published  *)
(* (key_switch_proofs.go:35-138).                                          *)
THEOREM KeySwitchVerified ==
  ASSUME NEW cl, NEW x, cl.kind = "key_switch",
         cl.c.K \in Int, cl.c.Q \in Int, cl.c.k \in Int,
         x.ks2 \in Int, x.rBNeg \in Int, x.vi \in Int
  PROVE  KeySwitchProofVerification(KeySwitchProofCreation(cl.c, x, x.vi)) <=> Honest(cl, x)
<1> DEFINE c == cl.c
<1> DEFINE p == KeySwitchProofCreation(c, x, x.vi)
<1> DEFINE pts == [K |-> c.K, viB |-> x.vi, ks2 |-> x.ks2, rBNeg |-> x.rBNeg, Q |-> c.Q, B |-> 1]
<1> DEFINE sec == [vi |-> x.vi, k |-> c.k]
<1>1. KeySwitchPoints(p) = pts /\ p.Proof = HashProve(KeySwitchPredicate, sec, pts)
  BY DEF KeySwitchProofCreation, KeySwitchPoints
<1>2. KeySwitchProofVerification(p)
        <=> HashVerify(KeySwitchPredicate, pts, HashProve(KeySwitchPredicate, sec, pts))
  BY <1>1 DEF KeySwitchProofVerification
<1>3. HashVerify(KeySwitchPredicate, pts, HashProve(KeySwitchPredicate, sec, pts))
        <=> c.k = c.K /\ c.k * x.rBNeg + x.vi * c.Q = x.ks2
  <2>1. sec.vi * pts.B = pts.viB /\ (sec.k * pts.B = pts.K <=> c.k = c.K)
    OBVIOUS
  <2> QED BY <2>1, KeySwitchHolds
<1>4. Honest(cl, x) <=> c.K = c.k /\ ((-x.rBNeg) * c.k + x.ks2) - c.Q * x.vi = 0
  BY DEF Honest, Decrypt
<1>5. ((-x.rBNeg) * c.k + x.ks2) - c.Q * x.vi = 0 <=> c.k * x.rBNeg + x.vi * c.Q = x.ks2
  <2> DEFINE u == c.k * x.rBNeg
  <2> DEFINE minusU == (-x.rBNeg) * c.k
  <2> DEFINE w == x.vi * c.Q
  <2> DEFINE sameW == c.Q * x.vi
  <2>1. minusU = -u /\ sameW = w /\ u \in Int /\ w \in Int
    OBVIOUS
  <2> HIDE DEF u, minusU, w, sameW
  <2>2. (minusU + x.ks2) - sameW = 0 <=> u + w = x.ks2
    BY <2>1
  <2> QED BY <2>2 DEF u, minusU, w, sameW
<1> HIDE DEF p, pts, sec
<1> QED BY <1>2, <1>3, <1>4, <1>5 DEF p

-----------------------------------------------------------------------------
(* What the four rows of the tagging predicate say.                        *)
LEMMA TagHolds ==
  ASSUME NEW sec, NEW pts, NEW pv
  PROVE  HashVerify(TagCrPredicate, pv, HashProve(TagCrPredicate, sec, pts))
        <=> /\ pts.ciminus11 = pv.ciminus11 /\ sec.s * pts.ciminus11 = pv.ci1
            /\ pts.B = pv.B /\ sec.k * pts.B = pv.K
            /\ pts.ciminus12 = pv.ciminus12 /\ pts.ciminus11Si = pv.ciminus11Si
            /\ sec.s * pts.ciminus12 + sec.k * pts.ciminus11Si = pv.ci2
            /\ sec.s * pts.B = pv.SB
<1> DEFINE pr == TagCrPredicate
<1> DEFINE h == HashProve(pr, sec, pts)
<1>1. /\ DOMAIN pr = {1, 2, 3, 4}
      /\ pr[1] = Rep("ci1", << <<"s", "ciminus11">> >>) /\ pr[2] = Rep("K", << <<"k", "B">> >>)
      /\ pr[3] = Rep("ci2", << <<"s", "ciminus12">>, <<"k", "ciminus11Si">> >>)
      /\ pr[4] = Rep("SB", << <<"s", "B">> >>)
  BY DEF TagCrPredicate
<1> HIDE DEF pr
<1>2. \A i \in {1, 2, 3, 4} : h[i] = TermsOf(pr[i], sec, pts)
  BY <1>1 DEF HashProve
<1> HIDE DEF h
<1>3. RepHolds(pr[1], pv, h[1]) <=> pts.ciminus11 = pv.ciminus11 /\ sec.s * pts.ciminus11 = pv.ci1
  BY <1>1, <1>2, OneTerm
<1>4. RepHolds(pr[2], pv, h[2]) <=> pts.B = pv.B /\ sec.k * pts.B = pv.K
  BY <1>1, <1>2, OneTerm
<1>5. RepHolds(pr[3], pv, h[3])
        <=> /\ pts.ciminus12 = pv.ciminus12 /\ pts.ciminus11Si = pv.ciminus11Si
            /\ sec.s * pts.ciminus12 + sec.k * pts.ciminus11Si = pv.ci2
  BY <1>1, <1>2, TwoTerms
<1>6. RepHolds(pr[4], pv, h[4]) <=> pts.B = pv.B /\ sec.s * pts.B = pv.SB
  BY <1>1, <1>2, OneTerm
<1>7. HashVerify(pr, pv, h) <=> \A i \in {1, 2, 3, 4} : RepHolds(pr[i], pv, h[i])
  BY <1>1 DEF HashVerify
<1> QED BY <1>3, <1>4, <1>5, <1>6, <1>7 DEF pr, h

(* A tagging proof verifies exactly when the server has taken its layer    *)
(* off and multiplied by its secret, with the key it published             *)
(* (deterministic_tag_proofs.go:50-145).                                   *)
THEOREM TagVerified ==
  ASSUME NEW cl, NEW x, cl.kind = "tag",
         cl.c.K \in Int, cl.c.k \in Int, cl.c.s \in Int,
         x.bef \in Ciphertext, x.aft \in Ciphertext
  PROVE  DeterministicTagCrProofVerification(cl.c, DeterministicTagCrProofCreation(cl.c, x))
           <=> Honest(cl, x)
<1> DEFINE c == cl.c
<1> DEFINE k == c.k
<1> DEFINE s == c.s
<1> DEFINE si == -(s * x.bef.K)
<1> DEFINE p == DeterministicTagCrProofCreation(c, x)
<1> DEFINE pts == TagCrPoints(c.K, c.s, x.bef, x.aft, si)
<1> DEFINE sec == [k |-> c.k, s |-> c.s]
<1>1. /\ p.Proof = HashProve(TagCrPredicate, sec, pts)
      /\ p.Ciminus11Si = si /\ p.CTbef = x.bef /\ p.CTaft = x.aft
  BY DEF DeterministicTagCrProofCreation
<1>2. /\ x.bef.K \in Int /\ x.bef.C \in Int /\ x.aft.K \in Int /\ x.aft.C \in Int
      /\ k \in Int /\ s \in Int
  BY DEF Ciphertext
<1>3. DeterministicTagCrProofVerification(c, p)
        <=> c.K = k /\ s * x.bef.K = x.aft.K /\ s * x.bef.C + k * si = x.aft.C
  <2>1. DeterministicTagCrProofVerification(c, p)
          <=> HashVerify(TagCrPredicate, pts, HashProve(TagCrPredicate, sec, pts))
    BY <1>1 DEF DeterministicTagCrProofVerification
  <2>2. /\ pts.B = 1 /\ pts.K = c.K /\ pts.SB = s /\ pts.ciminus11Si = si
        /\ pts.ciminus11 = x.bef.K /\ pts.ciminus12 = x.bef.C /\ pts.ci1 = x.aft.K /\ pts.ci2 = x.aft.C
    BY DEF TagCrPoints
  <2>3. sec.k = k /\ sec.s = s /\ k * 1 = k /\ s * 1 = s
    BY <1>2
  <2> HIDE DEF pts, sec, si, p
  <2> QED BY <2>1, <2>2, <2>3, TagHolds
<1>4. Honest(cl, x)
        <=> /\ c.K = k
            /\ x.aft.C - 0 * x.aft.K = s * (x.bef.C - (0 + k) * x.bef.K)
            /\ x.aft.C - 1 * x.aft.K = s * (x.bef.C - (1 + k) * x.bef.K)
  <2>1. Keys = {0, 1}
    BY DEF Keys
  <2> QED BY <2>1 DEF Honest, Decrypt
<1>5. /\ s * (x.bef.C - (0 + k) * x.bef.K) = s * x.bef.C + k * si
      /\ s * (x.bef.C - (1 + k) * x.bef.K) = s * x.bef.C + k * si - s * x.bef.K
  <2> DEFINE a == x.bef.K
  <2> DEFINE b == x.bef.C
  <2>1. a \in Int /\ b \in Int
    BY <1>2
  <2>2. (0 + k) * a = k * a /\ (1 + k) * a = a + k * a /\ k * a \in Int
    BY <1>2, <2>1
  <2>3. k * (-(s * a)) = -(s * (k * a))
    BY <1>2, <2>1
  <2>4. s * (b - k * a) = s * b - s * (k * a)
    BY <1>2, <2>1
  <2>5. s * (b - (a + k * a)) = s * b - s * a - s * (k * a)
    BY <1>2, <2>1
  <2>6. s * b \in Int /\ s * a \in Int /\ s * (k * a) \in Int
    BY <1>2, <2>1, <2>2
  <2> QED BY <2>2, <2>3, <2>4, <2>5, <2>6
<1> DEFINE sC == s * x.bef.C
<1> DEFINE sK == s * x.bef.K
<1> DEFINE ksi == k * si
<1>6. sC \in Int /\ sK \in Int /\ ksi \in Int
  BY <1>2
<1>7. 0 * x.aft.K = 0 /\ 1 * x.aft.K = x.aft.K
  BY <1>2
<1>8. DeterministicTagCrProofVerification(c, p) <=> c.K = k /\ sK = x.aft.K /\ sC + ksi = x.aft.C
  BY <1>3
<1>9. Honest(cl, x) <=> c.K = k /\ x.aft.C - 0 = sC + ksi /\ x.aft.C - x.aft.K = sC + ksi - sK
  BY <1>4, <1>5, <1>7
<1> HIDE DEF p, pts, sec, si, k, s, sC, sK, ksi
<1>10. DeterministicTagCrProofVerification(c, p) <=> Honest(cl, x)
  BY <1>2, <1>6, <1>8, <1>9
<1> QED BY <1>10 DEF p

(* A proof of an addition verifies exactly when the point that was added   *)
(* is that of the secret (deterministic_tag_proofs.go:175-252).            *)
THEOREM AdditionVerified ==
  ASSUME NEW cl, NEW x, cl.kind = "tag_addition",
         x.c1 \in Int, x.s \in Int, x.c2 \in Int, x.r \in Int
  PROVE  DeterministicTagAdditionProofVerification(DeterministicTagAdditionProofCreation(x))
           <=> Honest(cl, x)
<1> DEFINE p == DeterministicTagAdditionProofCreation(x)
<1> DEFINE pr == TagAdditionPredicate
<1> DEFINE h == HashProve(pr, [s |-> x.s], [c2 |-> x.c2, B |-> 1])
<1>1. p.Proof = h /\ p.C1 = x.c1 /\ p.C2 = x.c2 /\ p.R = x.r
  BY DEF DeterministicTagAdditionProofCreation
<1>2. HashVerify(pr, [c2 |-> x.c2, B |-> 1], h) <=> x.s = x.c2
  <2>1. DOMAIN pr = {1} /\ pr[1] = Rep("c2", << <<"s", "B">> >>)
    BY DEF TagAdditionPredicate
  <2> HIDE DEF pr
  <2>2. h[1] = TermsOf(pr[1], [s |-> x.s], [c2 |-> x.c2, B |-> 1])
    BY <2>1 DEF HashProve
  <2> HIDE DEF h
  <2>3. RepHolds(pr[1], [c2 |-> x.c2, B |-> 1], h[1]) <=> x.s * 1 = x.c2
    BY <2>1, <2>2, OneTerm
  <2> QED BY <2>1, <2>3 DEF HashVerify
<1>3. DeterministicTagAdditionProofVerification(p) <=> x.s = x.c2 /\ x.c1 + x.c2 = x.r
  BY <1>1, <1>2 DEF DeterministicTagAdditionProofVerification
<1>4. Honest(cl, x) <=> x.c2 = x.s /\ x.r = x.c1 + x.s
  BY DEF Honest
<1> QED BY <1>3, <1>4

(* A proof that a server joined or left verifies when the ciphertext has   *)
(* its layer more or less and the same plaintext; and, for those that kept *)
(* their left half, only then (add_rm_proofs.go:33-128).                   *)
THEOREM AddRmVerified ==
  ASSUME NEW cl, NEW x, cl.kind = "add_rm", cl.c.toAdd \in BOOLEAN,
         cl.c.K \in Int, cl.c.k \in Int, x.bef \in Ciphertext, x.aft \in Ciphertext
  PROVE  /\ Honest(cl, x) => AddRmProofVerification(cl.c, AddRmProofCreation(cl.c, x))
         /\ AddRmProofVerification(cl.c, AddRmProofCreation(cl.c, x)) /\ x.aft.K = x.bef.K => Honest(cl, x)
<1> DEFINE c == cl.c
<1> DEFINE k == c.k
<1> DEFINE p == AddRmProofCreation(c, x)
<1> DEFINE pr == AddRmPredicate
<1> DEFINE pts == AddRmPoints(c, x.bef, x.aft)
<1> DEFINE h == HashProve(pr, [k |-> c.k], pts)
<1> DEFINE diff == IF c.toAdd THEN x.aft.C - x.bef.C ELSE x.bef.C - x.aft.C
<1>1. x.bef.K \in Int /\ x.bef.C \in Int /\ x.aft.K \in Int /\ x.aft.C \in Int /\ k \in Int
  BY DEF Ciphertext
<1>2. p.Proof = h /\ p.CtBef = x.bef /\ p.CtAft = x.aft
  BY DEF AddRmProofCreation
<1>3. pts.B = 1 /\ pts.Krm = c.K /\ pts.rB = x.bef.K /\ pts.c2 = diff
  BY DEF AddRmPoints
<1>4. AddRmProofVerification(c, p) <=> HashVerify(pr, pts, h)
  BY <1>2 DEF AddRmProofVerification
<1>5. HashVerify(pr, pts, h) <=> k = c.K /\ k * x.bef.K = diff
  <2>1. DOMAIN pr = {1, 2} /\ pr[1] = Rep("Krm", << <<"k", "B">> >>) /\ pr[2] = Rep("c2", << <<"k", "rB">> >>)
    BY DEF AddRmPredicate
  <2> HIDE DEF pr
  <2>2. h[1] = TermsOf(pr[1], [k |-> c.k], pts) /\ h[2] = TermsOf(pr[2], [k |-> c.k], pts)
    BY <2>1 DEF HashProve
  <2> HIDE DEF h, pts
  <2>3. (RepHolds(pr[1], pts, h[1]) <=> k * 1 = c.K) /\ k * 1 = k
    BY <1>1, <1>3, <2>1, <2>2, OneTerm
  <2>4. RepHolds(pr[2], pts, h[2]) <=> k * x.bef.K = diff
    BY <1>3, <2>1, <2>2, OneTerm
  <2> QED BY <2>1, <2>3, <2>4 DEF HashVerify
<1>6. Keys = {0, 1}
  BY DEF Keys
<1>7. (0 + k) * x.aft.K = k * x.aft.K /\ (1 + k) * x.aft.K = x.aft.K + k * x.aft.K
      /\ (0 + k) * x.bef.K = k * x.bef.K /\ (1 + k) * x.bef.K = x.bef.K + k * x.bef.K
      /\ k * x.aft.K \in Int /\ k * x.bef.K \in Int
  <2> DEFINE a == x.aft.K
  <2> DEFINE b == x.bef.K
  <2>1. a \in Int /\ b \in Int
    BY <1>1
  <2> HIDE DEF a, b, k
  <2>2. (0 + k) * a = k * a /\ (1 + k) * a = a + k * a /\ k * a \in Int
    BY <1>1, <2>1
  <2>3. (0 + k) * b = k * b /\ (1 + k) * b = b + k * b /\ k * b \in Int
    BY <1>1, <2>1
  <2> QED BY <2>2, <2>3 DEF a, b
<1> DEFINE kA == k * x.aft.K
<1> DEFINE kB == k * x.bef.K
<1>8. Honest(cl, x) <=> k = c.K /\ k * x.bef.K = diff /\ x.aft.K = x.bef.K
  <2>1. CASE c.toAdd
    <3>1. Honest(cl, x)
            <=> /\ c.K = k
                /\ x.aft.C - (0 + k) * x.aft.K = x.bef.C - 0 * x.bef.K
                /\ x.aft.C - (1 + k) * x.aft.K = x.bef.C - 1 * x.bef.K
      BY <1>6, <2>1 DEF Honest, Decrypt
    <3>2. diff = x.aft.C - x.bef.C
      BY <2>1
    <3>3. Honest(cl, x) <=> /\ c.K = k /\ x.aft.C - kA = x.bef.C
                            /\ x.aft.C - (x.aft.K + kA) = x.bef.C - x.bef.K
      BY <1>1, <1>7, <3>1
    <3>4. kA \in Int /\ kB \in Int /\ (x.aft.K = x.bef.K => kA = kB)
      BY <1>7
    <3> HIDE DEF diff, k, kA, kB
    <3>5. (/\ x.aft.C - kA = x.bef.C
           /\ x.aft.C - (x.aft.K + kA) = x.bef.C - x.bef.K)
             <=> kB = diff /\ x.aft.K = x.bef.K
      BY <1>1, <3>2, <3>4
    <3> QED BY <3>3, <3>5 DEF kB
  <2>2. CASE ~ c.toAdd
    <3>1. Honest(cl, x)
            <=> /\ c.K = k
                /\ x.aft.C - 0 * x.aft.K = x.bef.C - (0 + k) * x.bef.K
                /\ x.aft.C - 1 * x.aft.K = x.bef.C - (1 + k) * x.bef.K
      BY <1>6, <2>2 DEF Honest, Decrypt
    <3>2. diff = x.bef.C - x.aft.C
      BY <2>2
    <3>3. Honest(cl, x) <=> /\ c.K = k /\ x.aft.C = x.bef.C - kB
                            /\ x.aft.C - x.aft.K = x.bef.C - (x.bef.K + kB)
      BY <1>1, <1>7, <3>1
    <3>4. kB \in Int
      BY <1>7
    <3> HIDE DEF diff, k, kA, kB
    <3>5. (/\ x.aft.C = x.bef.C - kB
           /\ x.aft.C - x.aft.K = x.bef.C - (x.bef.K + kB))
             => x.bef.C - x.aft.C = kB /\ x.aft.K = x.bef.K
      BY <1>1, <3>4
    <3>6. x.bef.C - x.aft.C = kB /\ x.aft.K = x.bef.K
             => (/\ x.aft.C = x.bef.C - kB
                 /\ x.aft.C - x.aft.K = x.bef.C - (x.bef.K + kB))
      BY <1>1, <3>4
    <3> QED BY <3>2, <3>3, <3>5, <3>6 DEF kB
  <2> QED BY <2>1, <2>2
<1> HIDE DEF p, pr, h, pts, diff, k
<1> QED BY <1>4, <1>5, <1>8 DEF p

-----------------------------------------------------------------------------
(***************************************************************************)
(* Aggregation: the sum of ciphertexts is an encryption of the sum of what *)
(* they contain, for any number of them.                                   *)
(***************************************************************************)
(* Induction over an interval of numbers, for a set given as a value.      *)
LEMMA BoundedInduct ==
  ASSUME NEW n \in Nat, NEW m \in Nat, m <= n, NEW T, m \in T,
         \A i \in m..n : i \in T /\ i < n => i + 1 \in T
  PROVE  n \in T
<1> DEFINE Out == {i \in m..n : i \notin T}
<1> DEFINE Less == OpToRel(<, Nat)
<1>1. SUFFICES ASSUME n \notin T PROVE FALSE
  OBVIOUS
<1>2. n \in Out /\ Out \subseteq Nat
  BY <1>1
<1>3. PICK i \in Out : \A j \in Out : ~ (<<j, i>> \in Less)
  <2>1. IsWellFoundedOn(Less, Nat)
    BY NatLessThanWellFounded
  <2> HIDE DEF Out, Less
  <2> QED BY <1>2, <2>1, WFMin, Zenon
<1> i \in m..n /\ i \notin T
  BY <1>3
<1>4. i # m
  OBVIOUS
<1>5. i - 1 \in m..n /\ i - 1 < n /\ (i - 1) + 1 = i /\ i - 1 \in Nat /\ i \in Nat
  BY <1>4
<1>6. i - 1 \in Out
  <2>1. i - 1 \in T => (i - 1) + 1 \in T
    BY <1>5
  <2> QED BY <1>5, <2>1
<1>7. <<i - 1, i>> \in Less
  BY <1>5 DEF OpToRel
<1> QED BY <1>3, <1>6, <1>7

(* A function that is defined along an interval, from its first value.     *)
Recursion(f, m, n, X, base, step) ==
  f \in [m..n -> X] /\ f[m] = base /\ \A i \in (m + 1)..n : f[i] = step[<<i, f[i - 1]>>]

LEMMA RecursionExists ==
  ASSUME NEW n \in Nat, NEW m \in Nat, m <= n,
         NEW X, NEW base \in X, NEW step \in [(m..n) \X X -> X]
  PROVE  \E f : Recursion(f, m, n, X, base, step)
<1> DEFINE T == {j \in m..n : \E f : Recursion(f, m, j, X, base, step)}
<1>1. m \in T
  <2>1. Recursion([i \in m..m |-> base], m, m, X, base, step)
    BY DEF Recursion
  <2> QED BY <2>1
<1>2. ASSUME NEW j \in m..n, j \in T, j < n PROVE j + 1 \in T
  <2>1. PICK f : Recursion(f, m, j, X, base, step)
    BY <1>2
  <2> DEFINE v == step[<<j + 1, f[j]>>]
  <2> DEFINE g == [i \in m..(j + 1) |-> IF i = j + 1 THEN v ELSE f[i]]
  <2>2. j \in m..j /\ j + 1 \in m..n /\ f[j] \in X /\ v \in X
    BY <1>2, <2>1 DEF Recursion
  <2> HIDE DEF v
  <2>3. g \in [m..(j + 1) -> X] /\ g[m] = base
    BY <2>1, <2>2 DEF Recursion
  <2>4. ASSUME NEW i \in (m + 1)..(j + 1) PROVE g[i] = step[<<i, g[i - 1]>>]
    <3>1. i - 1 \in m..j /\ g[i - 1] = f[i - 1]
      BY <1>2
    <3>2. CASE i = j + 1
      <4>1. i - 1 = j /\ g[i] = v
        BY <1>2, <3>2
      <4>2. g[i - 1] = f[j]
        BY <3>1, <4>1
      <4> HIDE DEF g
      <4> QED BY <3>2, <4>1, <4>2 DEF v
    <3>3. CASE i # j + 1
      <4>1. i \in (m + 1)..j /\ g[i] = f[i]
        BY <3>3
      <4> QED BY <2>1, <3>1, <4>1 DEF Recursion
    <3> QED BY <3>2, <3>3
  <2>5. Recursion(g, m, j + 1, X, base, step)
    <3> HIDE DEF g
    <3> QED BY <2>3, <2>4 DEF Recursion
  <2> HIDE DEF g
  <2> QED BY <1>2, <2>2, <2>5
<1> HIDE DEF T
<1>3. n \in T
  BY <1>1, <1>2, BoundedInduct
<1> QED BY <1>3 DEF T

(* The loop of Acum, which starts with the first ciphertext.               *)
LEMMA AcumSteps ==
  ASSUME NEW data \in Seq(Ciphertext), Len(data) > 0
  PROVE  \E acum \in [1..Len(data) -> Ciphertext] :
           /\ acum[1] = data[1] /\ Acum(data) = acum[Len(data)]
           /\ \A i \in 2..Len(data) : acum[i] = AddCt(acum[i - 1], data[i])
<1> DEFINE n == Len(data)
<1> DEFINE step == [p \in (1..n) \X Ciphertext |-> AddCt(p[2], data[p[1]])]
<1>1. n \in Nat /\ 1 <= n /\ data[1] \in Ciphertext /\ \A i \in 1..n : data[i] \in Ciphertext
  OBVIOUS
<1>2. step \in [(1..n) \X Ciphertext -> Ciphertext]
  BY <1>1 DEF AddCt, Ciphertext
<1>3. PICK f : Recursion(f, 1, n, Ciphertext, data[1], step)
  <2> DEFINE first == data[1]
  <2>1. first \in Ciphertext
    BY <1>1
  <2> HIDE DEF step, n, first
  <2>2. \E f : Recursion(f, 1, n, Ciphertext, first, step)
    BY <1>1, <1>2, <2>1, RecursionExists
  <2> QED BY <2>2 DEF first
<1>4. f \in [1..n -> Ciphertext] /\ f[1] = data[1]
  BY <1>3 DEF Recursion
<1>5. \A i \in 2..n : f[i] = AddCt(f[i - 1], data[i])
  <2>1. ASSUME NEW i \in 2..n PROVE step[<<i, f[i - 1]>>] = AddCt(f[i - 1], data[i])
    <3>1. i - 1 \in 1..n /\ i \in 1..n
      BY <1>1
    <3>2. <<i, f[i - 1]>> \in (1..n) \X Ciphertext
      BY <1>4, <3>1
    <3> QED BY <3>2
  <2>2. \A i \in 2..n : f[i] = step[<<i, f[i - 1]>>]
    <3>1. 1 + 1 = 2
      OBVIOUS
    <3> HIDE DEF step, n
    <3> QED BY <1>3, <3>1 DEF Recursion
  <2> HIDE DEF step
  <2> QED BY <2>1, <2>2
<1> DEFINE acum[i \in 1..n] == IF i = 1 THEN data[1] ELSE AddCt(acum[i - 1], data[i])
<1>6. acum = [i \in 1..n |-> IF i = 1 THEN data[1] ELSE AddCt(acum[i - 1], data[i])]
  <2>1. f = [i \in 1..n |-> IF i = 1 THEN data[1] ELSE AddCt(f[i - 1], data[i])]
    BY <1>1, <1>4, <1>5
  <2> HIDE DEF n
  <2>2. \E g : g = [i \in 1..n |-> IF i = 1 THEN data[1] ELSE AddCt(g[i - 1], data[i])]
    BY <2>1
  <2> QED BY <2>2, Zenon
<1>7. Acum(data) = acum[n]
  BY DEF Acum
<1> HIDE DEF acum
<1>8. ASSUME NEW m \in 1..n PROVE acum[m] = f[m]
  <2> DEFINE T == {i \in 1..m : acum[i] = f[i]}
  <2>1. 1 \in T
    BY <1>1, <1>4, <1>6
  <2>2. ASSUME NEW i \in 1..m, i \in T, i < m PROVE i + 1 \in T
    <3>1. i + 1 \in 1..n /\ i + 1 \in 2..n /\ (i + 1) - 1 = i /\ i + 1 \in 1..m /\ i + 1 # 1
      BY <1>1, <2>2
    <3>2. acum[i + 1] = AddCt(acum[i], data[i + 1])
      BY <1>6, <3>1
    <3>3. f[i + 1] = AddCt(f[i], data[i + 1])
      BY <1>5, <3>1
    <3> QED BY <2>2, <3>1, <3>2, <3>3
  <2> HIDE DEF T
  <2>3. m \in T
    BY <1>1, <2>1, <2>2, BoundedInduct
  <2> QED BY <2>3 DEF T
<1>9. acum[n] = f[n]
  BY <1>1, <1>8
<1> QED BY <1>4, <1>5, <1>7, <1>9

LEMMA AddCtDecrypts ==
  ASSUME NEW x \in Int, NEW a \in Ciphertext, NEW b \in Ciphertext
  PROVE  Decrypt(x, a) \in Int /\ Decrypt(x, AddCt(a, b)) = Decrypt(x, a) + Decrypt(x, b)
<1>1. a.K \in Int /\ a.C \in Int /\ b.K \in Int /\ b.C \in Int
  BY DEF Ciphertext
<1> DEFINE u == x * a.K
<1> DEFINE v == x * b.K
<1>2. x * (a.K + b.K) = u + v /\ u \in Int /\ v \in Int
  BY <1>1
<1>3. /\ Decrypt(x, a) = a.C - u /\ Decrypt(x, b) = b.C - v
      /\ Decrypt(x, AddCt(a, b)) = (a.C + b.C) - (u + v)
  BY <1>2 DEF Decrypt, AddCt
<1> HIDE DEF u, v
<1> QED BY <1>1, <1>2, <1>3

LEMMA AcumDecrypts ==
  ASSUME NEW data \in Seq(Ciphertext), Len(data) > 0, NEW x \in Int
  PROVE  Acum(data) \in Ciphertext /\ Decrypt(x, Acum(data)) = DecryptedSum(x, data)
<1> DEFINE n == Len(data)
<1>1. n \in Nat /\ 1 <= n /\ \A i \in 1..n : data[i] \in Ciphertext
  OBVIOUS
<1>2. PICK acum \in [1..n -> Ciphertext] :
        /\ acum[1] = data[1] /\ Acum(data) = acum[n]
        /\ \A i \in 2..n : acum[i] = AddCt(acum[i - 1], data[i])
  BY AcumSteps
<1> DEFINE sum[i \in 0..n] == IF i = 0 THEN 0 ELSE sum[i - 1] + Decrypt(x, data[i])
<1>3. sum = [i \in 0..n |-> IF i = 0 THEN 0 ELSE sum[i - 1] + Decrypt(x, data[i])]
  <2> DEFINE f == [i \in 0..n |-> IF i = 0 THEN 0 ELSE Decrypt(x, acum[i])]
  <2>1. ASSUME NEW i \in 1..n PROVE f[i] = f[i - 1] + Decrypt(x, data[i])
    <3>1. CASE i = 1
      <4>1. f[1] = Decrypt(x, data[1]) /\ f[0] = 0 /\ Decrypt(x, data[1]) \in Int
        BY <1>1, <1>2, AddCtDecrypts
      <4> QED BY <3>1, <4>1
    <3>2. CASE i \in 2..n
      <4>1. i - 1 \in 1..n /\ acum[i - 1] \in Ciphertext /\ data[i] \in Ciphertext
        BY <1>1, <1>2, <3>2
      <4>2. Decrypt(x, acum[i]) = Decrypt(x, acum[i - 1]) + Decrypt(x, data[i])
        BY <1>2, <3>2, <4>1, AddCtDecrypts
      <4> QED BY <1>1, <4>1, <4>2
    <3> QED BY <1>1, <3>1, <3>2
  <2>2. f[0] = 0
    BY <1>1
  <2>3. f = [i \in 0..n |-> f[i]]
    OBVIOUS
  <2> HIDE DEF f
  <2>4. f = [i \in 0..n |-> IF i = 0 THEN 0 ELSE f[i - 1] + Decrypt(x, data[i])]
    <3>1. \A i \in 0..n : f[i] = IF i = 0 THEN 0 ELSE f[i - 1] + Decrypt(x, data[i])
      BY <1>1, <2>1, <2>2
    <3> QED BY <2>3, <3>1
  <2> HIDE DEF n
  <2>5. \E g : g = [i \in 0..n |-> IF i = 0 THEN 0 ELSE g[i - 1] + Decrypt(x, data[i])]
    BY <2>4
  <2> QED BY <2>5, Zenon
<1>4. DecryptedSum(x, data) = sum[n]
  BY DEF DecryptedSum
<1> HIDE DEF sum
<1> DEFINE T == {i \in 1..n : Decrypt(x, acum[i]) = sum[i]}
<1>5. 1 \in T
  <2>1. sum[0] = 0 /\ sum[1] = sum[0] + Decrypt(x, data[1])
    BY <1>1, <1>3
  <2>2. Decrypt(x, data[1]) \in Int
    BY <1>1, AddCtDecrypts
  <2> QED BY <1>1, <1>2, <2>1, <2>2
<1>6. ASSUME NEW i \in 1..n, i \in T, i < n PROVE i + 1 \in T
  <2>1. i + 1 \in 0..n /\ i + 1 \in 2..n /\ (i + 1) - 1 = i /\ i + 1 \in 1..n /\ i + 1 # 0
    BY <1>1, <1>6
  <2>2. sum[i + 1] = sum[i] + Decrypt(x, data[i + 1])
    BY <1>3, <2>1
  <2>3. acum[i + 1] = AddCt(acum[i], data[i + 1])
    BY <1>2, <2>1
  <2>4. acum[i] \in Ciphertext /\ data[i + 1] \in Ciphertext
    BY <1>1, <1>2, <2>1
  <2> QED BY <1>6, <2>1, <2>2, <2>3, <2>4, AddCtDecrypts
<1> HIDE DEF T
<1>7. n \in T
  BY <1>1, <1>5, <1>6, BoundedInduct
<1>8. acum[n] \in Ciphertext
  BY <1>1, <1>2
<1> QED BY <1>2, <1>4, <1>7, <1>8 DEF T

(* An aggregation verifies exactly when the result decrypts to the sum of  *)
(* what its data decrypts to (aggregation_proofs.go:36-66).                *)
THEOREM AggregationVerified ==
  ASSUME NEW cl, NEW x, cl.kind = "aggregation",
         x.data \in Seq(Ciphertext), Len(x.data) > 0, x.result \in Ciphertext
  PROVE  AggregationProofVerification(AggregationProofCreation(x)) <=> Honest(cl, x)
<1> DEFINE a == Acum(x.data)
<1>1. AggregationProofVerification(AggregationProofCreation(x)) <=> a = x.result
  BY DEF AggregationProofVerification, AggregationProofCreation
<1>2. /\ a \in Ciphertext
      /\ DecryptedSum(0, x.data) = Decrypt(0, a) /\ DecryptedSum(1, x.data) = Decrypt(1, a)
  BY AcumDecrypts
<1>3. Honest(cl, x) <=> Decrypt(0, x.result) = Decrypt(0, a) /\ Decrypt(1, x.result) = Decrypt(1, a)
  <2>1. Keys = {0, 1}
    BY DEF Keys
  <2> HIDE DEF a
  <2> QED BY <1>2, <2>1 DEF Honest
<1> HIDE DEF a
<1>4. a.K \in Int /\ a.C \in Int /\ x.result.K \in Int /\ x.result.C \in Int
      /\ (a = x.result <=> a.K = x.result.K /\ a.C = x.result.C)
  BY <1>2 DEF Ciphertext
<1>5. \A ct \in {a, x.result} : Decrypt(0, ct) = ct.C /\ Decrypt(1, ct) = ct.C - ct.K
  BY <1>4 DEF Decrypt
<1> QED BY <1>1, <1>3, <1>4, <1>5 DEF a

-----------------------------------------------------------------------------
(***************************************************************************)
(* Shuffles: each row is compressed to one ciphertext.  That is linear, so *)
(* the compressed rows of a shuffled matrix are the compressed rows of the *)
(* matrix, permuted and rerandomized with the compressed factors.          *)
(***************************************************************************)
(* The loop of InnerProduct.                                               *)
LEMMA InnerProductSteps ==
  ASSUME NEW n \in Nat, NEW v \in [1..n -> Int], NEW e \in [1..n -> Int]
  PROVE  \E sum \in [0..n -> Int] :
           /\ sum[0] = 0 /\ InnerProduct(v, e) = sum[n]
           /\ \A j \in 1..n : sum[j] = sum[j - 1] + v[j] * e[j]
<1> DEFINE step == [p \in (0..n) \X Int |-> IF p[1] = 0 THEN 0 ELSE p[2] + v[p[1]] * e[p[1]]]
<1>1. \A j \in 1..n : v[j] \in Int /\ e[j] \in Int /\ v[j] * e[j] \in Int
  OBVIOUS
<1>2. step \in [(0..n) \X Int -> Int]
  <2>1. ASSUME NEW p \in (0..n) \X Int
        PROVE  (IF p[1] = 0 THEN 0 ELSE p[2] + v[p[1]] * e[p[1]]) \in Int
    <3>1. p[1] \in 0..n /\ p[2] \in Int
      OBVIOUS
    <3>2. CASE p[1] = 0
      BY <3>2
    <3>3. CASE p[1] \in 1..n
      <4> DEFINE a == v[p[1]] * e[p[1]]
      <4>1. a \in Int
        BY <1>1, <3>3
      <4> HIDE DEF a
      <4>2. p[2] + a \in Int /\ p[1] # 0
        BY <3>1, <3>3, <4>1
      <4> QED BY <4>2 DEF a
    <3> QED BY <3>1, <3>2, <3>3
  <2> QED BY <2>1
<1>3. PICK f : Recursion(f, 0, n, Int, 0, step)
  <2> HIDE DEF step
  <2>1. 0 \in Nat /\ 0 <= n /\ 0 \in Int
    OBVIOUS
  <2>2. \E f : Recursion(f, 0, n, Int, 0, step)
    BY <1>2, <2>1, RecursionExists
  <2> QED BY <2>2
<1>4. f \in [0..n -> Int] /\ f[0] = 0
  BY <1>3 DEF Recursion
<1>5. \A j \in 1..n : f[j] = f[j - 1] + v[j] * e[j]
  <2>1. ASSUME NEW j \in 1..n PROVE step[<<j, f[j - 1]>>] = f[j - 1] + v[j] * e[j]
    <3>1. j - 1 \in 0..n /\ j \in 0..n /\ j # 0
      OBVIOUS
    <3>2. <<j, f[j - 1]>> \in (0..n) \X Int
      BY <1>4, <3>1
    <3> QED BY <3>1, <3>2
  <2>2. \A j \in 1..n : f[j] = step[<<j, f[j - 1]>>]
    <3>1. 0 + 1 = 1
      OBVIOUS
    <3> HIDE DEF step
    <3> QED BY <1>3, <3>1 DEF Recursion
  <2> HIDE DEF step
  <2> QED BY <2>1, <2>2
<1> DEFINE sum[j \in 0..n] == IF j = 0 THEN 0 ELSE sum[j - 1] + v[j] * e[j]
<1>6. sum = [j \in 0..n |-> IF j = 0 THEN 0 ELSE sum[j - 1] + v[j] * e[j]]
  <2>1. f = [j \in 0..n |-> IF j = 0 THEN 0 ELSE f[j - 1] + v[j] * e[j]]
    <3>1. \A j \in 0..n : f[j] = IF j = 0 THEN 0 ELSE f[j - 1] + v[j] * e[j]
      BY <1>4, <1>5
    <3> QED BY <1>4, <3>1
  <2>2. \E g : g = [j \in 0..n |-> IF j = 0 THEN 0 ELSE g[j - 1] + v[j] * e[j]]
    BY <2>1
  <2> QED BY <2>2, Zenon
<1>7. InnerProduct(v, e) = sum[n]
  <2>1. Len(e) = n
    OBVIOUS
  <2> QED BY <2>1 DEF InnerProduct
<1> HIDE DEF sum
<1> DEFINE T == {j \in 0..n : sum[j] = f[j]}
<1>8. 0 \in T
  BY <1>4, <1>6
<1>9. ASSUME NEW j \in 0..n, j \in T, j < n PROVE j + 1 \in T
  <2>1. j + 1 \in 1..n /\ j + 1 \in 0..n /\ (j + 1) - 1 = j /\ j + 1 # 0
    BY <1>9
  <2>2. sum[j + 1] = sum[j] + v[j + 1] * e[j + 1]
    BY <1>6, <2>1
  <2>3. f[j + 1] = f[j] + v[j + 1] * e[j + 1]
    BY <1>5, <2>1
  <2> QED BY <1>9, <2>1, <2>2, <2>3
<1> HIDE DEF T
<1>10. n \in T
  BY <1>8, <1>9, BoundedInduct
<1>11. sum[n] = f[n]
  BY <1>10 DEF T
<1> QED BY <1>4, <1>5, <1>7, <1>11

(* Vectors of n integers; w is u and h times v.                            *)
Vector(n) == [1..n -> Int]
Combination(w, u, v, h, n) == \A j \in 1..n : w[j] = u[j] + v[j] * h

LEMMA InnerProductLinear ==
  ASSUME NEW n \in Nat, NEW e \in Vector(n), NEW h \in Int,
         NEW u \in Vector(n), NEW v \in Vector(n), NEW w \in Vector(n),
         Combination(w, u, v, h, n)
  PROVE  InnerProduct(w, e) = InnerProduct(u, e) + InnerProduct(v, e) * h
<1> USE DEF Vector, Combination
<1>1. PICK U \in [0..n -> Int] :
        /\ U[0] = 0 /\ InnerProduct(u, e) = U[n]
        /\ \A j \in 1..n : U[j] = U[j - 1] + u[j] * e[j]
  BY InnerProductSteps
<1>2. PICK V \in [0..n -> Int] :
        /\ V[0] = 0 /\ InnerProduct(v, e) = V[n]
        /\ \A j \in 1..n : V[j] = V[j - 1] + v[j] * e[j]
  BY InnerProductSteps
<1>3. PICK W \in [0..n -> Int] :
        /\ W[0] = 0 /\ InnerProduct(w, e) = W[n]
        /\ \A j \in 1..n : W[j] = W[j - 1] + w[j] * e[j]
  BY InnerProductSteps
<1> DEFINE T == {j \in 0..n : W[j] = U[j] + V[j] * h}
<1>4. 0 \in T
  BY <1>1, <1>2, <1>3
<1>5. ASSUME NEW j \in 0..n, j \in T, j < n PROVE j + 1 \in T
  <2> DEFINE i == j + 1
  <2>1. i \in 1..n /\ i \in 0..n /\ i - 1 = j
    BY <1>5
  <2> HIDE DEF i
  <2>2. U[j] \in Int /\ V[j] \in Int /\ u[i] \in Int /\ v[i] \in Int /\ e[i] \in Int
    BY <2>1
  <2>3. W[i] = (U[j] + V[j] * h) + (u[i] + v[i] * h) * e[i]
    <3>1. W[i] = W[j] + w[i] * e[i] /\ w[i] = u[i] + v[i] * h
      BY <1>3, <2>1
    <3> QED BY <1>5, <3>1
  <2>4. U[i] = U[j] + u[i] * e[i] /\ V[i] = V[j] + v[i] * e[i]
    BY <1>1, <1>2, <2>1
  <2> DEFINE bh == V[j] * h
  <2> DEFINE cf == u[i] * e[i]
  <2> DEFINE df == v[i] * e[i]
  <2>5. (u[i] + v[i] * h) * e[i] = cf + df * h /\ (V[j] + df) * h = bh + df * h
    <3>1. (u[i] + v[i] * h) * e[i] = u[i] * e[i] + (v[i] * h) * e[i]
      BY <2>2
    <3>2. (v[i] * h) * e[i] = (v[i] * e[i]) * h
      BY <2>2
    <3>3. (V[j] + v[i] * e[i]) * h = V[j] * h + (v[i] * e[i]) * h
      BY <2>2
    <3> QED BY <3>1, <3>2, <3>3
  <2>6. bh \in Int /\ cf \in Int /\ df \in Int /\ df * h \in Int
    <3>0. \A a, b \in Int : a * b \in Int
      OBVIOUS
    <3>1. bh \in Int /\ cf \in Int /\ df \in Int
      BY <2>2, <3>0, Zenon
    <3> HIDE DEF df
    <3>2. df * h \in Int
      BY <3>1
    <3> QED BY <3>1, <3>2
  <2>7. W[i] = U[i] + V[i] * h
    <3> DEFINE dfh == df * h
    <3>1. W[i] = (U[j] + bh) + (cf + dfh) /\ U[i] = U[j] + cf /\ V[i] * h = bh + dfh
      BY <2>3, <2>4, <2>5
    <3>2. dfh \in Int
      BY <2>6
    <3> HIDE DEF bh, cf, df, dfh
    <3> QED BY <2>2, <2>6, <3>1, <3>2
  <2> QED BY <2>1, <2>7 DEF i
<1> HIDE DEF T
<1>6. n \in T
  BY <1>4, <1>5, BoundedInduct
<1> QED BY <1>1, <1>2, <1>3, <1>6 DEF T

(* A matrix with rows of one length, a factor for each element, and a      *)
(* permutation of the rows.                                                *)
TypedShuffle(x) ==
  /\ x.original \in Seq(Seq(Ciphertext)) /\ Len(x.original) > 0
  /\ \A i \in DOMAIN x.original : Len(x.original[i]) = NQ(x.original)
  /\ x.pi \in Permutation(Len(x.original)) /\ x.h \in Int
  /\ x.beta \in [1..Len(x.original) -> [1..NQ(x.original) -> Int]]

LEMMA Scalars ==
  ASSUME NEW h \in Int, NEW cv \in Seq(Ciphertext)
  PROVE  CipherVectorComputeE(h, cv) \in [1..Len(cv) -> Int]
<1>1. ASSUME NEW j \in 1..Len(cv) PROVE PickScalar(h, cv[j]) \in Int
  <2>1. cv[j] \in Ciphertext
    OBVIOUS
  <2>2. cv[j].K \in Int /\ cv[j].C \in Int
    BY <2>1 DEF Ciphertext
  <2> QED BY <2>2 DEF PickScalar
<1> QED BY <1>1 DEF CipherVectorComputeE

(* A matrix that was shuffled as the protocol does has a proof that        *)
(* verifies, whatever the key, the permutation and the factors             *)
(* (shuffle_proofs.go:47-101 and :139-193).                                *)
THEOREM ShuffleVerified ==
  ASSUME NEW cl, NEW x, cl.kind = "shuffle", TypedShuffle(x), Honest(cl, x)
  PROVE  ShuffleProofVerification(cl.c.seed, ShuffleProofCreation(x)) /\ ~ ShuffleProofFails(x)
<1> DEFINE m == x.original
<1> DEFINE k == Len(m)
<1> DEFINE n == NQ(m)
<1> DEFINE e == CipherVectorComputeE(x.h, m[1])
<1> DEFINE XY == CompressListCipherVector(m, e)
<1> DEFINE b == CompressBeta(x.beta, e)
<1>1. x.g = 1 /\ x.h = cl.c.seed /\ x.shuffled = ShuffleWith(m, x.pi, x.beta, x.h)
  BY DEF Honest
<1>2. /\ k \in Nat /\ 1 \in 1..k /\ DOMAIN m = 1..k /\ n \in Nat /\ x.h \in Int
      /\ \A i \in 1..k : m[i] \in Seq(Ciphertext) /\ Len(m[i]) = n
  BY DEF TypedShuffle, NQ
<1>3. \A i \in 1..k : x.pi[i] \in 1..k /\ x.beta[i] \in [1..n -> Int]
  BY <1>2 DEF TypedShuffle, Permutation
<1>4. DOMAIN x.beta = 1..k
  BY DEF TypedShuffle
<1>5. e \in [1..n -> Int] /\ Len(e) = n
  <2>1. e \in [1..n -> Int]
    BY <1>2, Scalars
  <2> HIDE DEF e
  <2> QED BY <1>2, <2>1
<1>6. ASSUME NEW i \in 1..k
      PROVE  /\ Len(x.shuffled[i]) = n
             /\ CompressCipherVector(x.shuffled[i], e) = Rerandomize(XY[x.pi[i]], b[x.pi[i]], x.h)
  <2> DEFINE q == x.pi[i]
  <2> DEFINE row == m[q]
  <2> DEFINE beta == x.beta[q]
  <2> DEFINE shuffled == [j \in 1..n |-> Rerandomize(row[j], beta[j], x.h)]
  <2>1. q \in 1..k /\ beta \in [1..n -> Int] /\ row \in Seq(Ciphertext) /\ Len(row) = n
    BY <1>2, <1>3
  <2>2. x.shuffled[i] = shuffled
    BY <1>1, <1>2 DEF ShuffleWith
  <2>3. \A j \in 1..n : row[j].K \in Int /\ row[j].C \in Int /\ beta[j] \in Int
    <3> HIDE DEF row, beta, n
    <3>1. \A j \in 1..n : row[j] \in Ciphertext
      BY <2>1
    <3> QED BY <2>1, <3>1 DEF Ciphertext
  <2> DEFINE K == [j \in DOMAIN row |-> row[j].K]
  <2> DEFINE C == [j \in DOMAIN row |-> row[j].C]
  <2> DEFINE K2 == [j \in DOMAIN shuffled |-> shuffled[j].K]
  <2> DEFINE C2 == [j \in DOMAIN shuffled |-> shuffled[j].C]
  <2>4. K \in [1..n -> Int] /\ C \in [1..n -> Int]
    BY <2>1, <2>3
  <2>5. \A j \in 1..n : shuffled[j].K = row[j].K + beta[j] /\ shuffled[j].C = row[j].C + beta[j] * x.h
    BY DEF Rerandomize
  <2>6. /\ K2 \in [1..n -> Int] /\ \A j \in 1..n : K2[j] = K[j] + beta[j] * 1
    <3>1. DOMAIN shuffled = 1..n /\ DOMAIN row = 1..n
      BY <2>1
    <3> HIDE DEF shuffled, row, beta
    <3> QED BY <2>3, <2>5, <3>1
  <2>7. /\ C2 \in [1..n -> Int] /\ \A j \in 1..n : C2[j] = C[j] + beta[j] * x.h
    <3>1. DOMAIN shuffled = 1..n /\ DOMAIN row = 1..n
      BY <2>1
    <3> HIDE DEF shuffled, row, beta
    <3>2. \A j \in 1..n : beta[j] * x.h \in Int
      BY <1>2, <2>3
    <3> QED BY <2>3, <2>5, <3>1, <3>2
  <2>8. /\ CompressCipherVector(x.shuffled[i], e) = [K |-> InnerProduct(K2, e), C |-> InnerProduct(C2, e)]
        /\ XY[q] = [K |-> InnerProduct(K, e), C |-> InnerProduct(C, e)]
        /\ b[q] = InnerProduct(beta, e)
    <3>1. CompressCipherVector(shuffled, e) = [K |-> InnerProduct(K2, e), C |-> InnerProduct(C2, e)]
      BY DEF CompressCipherVector
    <3>2. CompressCipherVector(row, e) = [K |-> InnerProduct(K, e), C |-> InnerProduct(C, e)]
      BY DEF CompressCipherVector
    <3>3. XY[q] = CompressCipherVector(row, e)
      BY <1>2, <2>1 DEF CompressListCipherVector
    <3>4. b[q] = InnerProduct(beta, e)
      BY <1>4, <2>1 DEF CompressBeta
    <3> HIDE DEF shuffled, K2, C2, K, C, XY, b
    <3> QED BY <2>2, <3>1, <3>2, <3>3, <3>4
  <2>9. InnerProduct(beta, e) \in Int
    <3> HIDE DEF beta, e
    <3>1. PICK sum \in [0..n -> Int] : InnerProduct(beta, e) = sum[n]
      BY <1>2, <1>5, <2>1, InnerProductSteps
    <3> QED BY <1>2, <3>1
  <2>10. /\ InnerProduct(K2, e) = InnerProduct(K, e) + InnerProduct(beta, e) * 1
         /\ InnerProduct(C2, e) = InnerProduct(C, e) + InnerProduct(beta, e) * x.h
    <3> DEFINE one == 1
    <3> DEFINE h == x.h
    <3>1. /\ n \in Nat /\ e \in Vector(n) /\ beta \in Vector(n)
          /\ one \in Int /\ h \in Int
          /\ Combination(K2, K, beta, one, n) /\ Combination(C2, C, beta, h, n)
      <4>1. one \in Int /\ h \in Int
        BY <1>2
      <4>2. Combination(C2, C, beta, h, n)
        BY <2>7 DEF Combination
      <4>3. Combination(K2, K, beta, one, n)
        BY <2>6 DEF Combination
      <4>4. n \in Nat /\ e \in Vector(n) /\ beta \in Vector(n)
        BY <1>2, <1>5, <2>1 DEF Vector
      <4> HIDE DEF K, C, K2, C2, beta, e, n, one, h
      <4> QED BY <4>1, <4>2, <4>3, <4>4
    <3>2. K \in Vector(n) /\ C \in Vector(n) /\ K2 \in Vector(n) /\ C2 \in Vector(n)
      BY <2>4, <2>6, <2>7 DEF Vector
    <3> HIDE DEF K, C, K2, C2, beta, e, n, one, h
    <3>3. InnerProduct(K2, e) = InnerProduct(K, e) + InnerProduct(beta, e) * one
      BY <3>1, <3>2, InnerProductLinear
    <3>4. InnerProduct(C2, e) = InnerProduct(C, e) + InnerProduct(beta, e) * h
      BY <3>1, <3>2, InnerProductLinear
    <3> QED BY <3>3, <3>4 DEF one, h
  <2>11. CompressCipherVector(x.shuffled[i], e) = Rerandomize(XY[q], b[q], x.h)
    <3> HIDE DEF K, C, K2, C2, beta, e, n, XY, b, q
    <3>1. InnerProduct(beta, e) * 1 = InnerProduct(beta, e)
      BY <2>9
    <3> QED BY <2>8, <2>10, <3>1 DEF Rerandomize
  <2>12. Len(x.shuffled[i]) = n
    <3>1. Len(shuffled) = n
      BY <1>2
    <3> QED BY <2>2, <3>1
  <2> QED BY <2>11, <2>12
<1>7. DOMAIN x.shuffled = 1..k
  BY <1>1, <1>2 DEF ShuffleWith
<1>8. SameLength(m, e) /\ SameLength(x.shuffled, e)
  <2> HIDE DEF e, n
  <2> QED BY <1>2, <1>5, <1>6, <1>7 DEF SameLength
<1>9. ~ ShuffleProofFails(x)
  BY <1>8 DEF ShuffleProofFails
<1>10. CompressListCipherVector(x.shuffled, e) =
         [i \in DOMAIN XY |-> Rerandomize(XY[x.pi[i]], b[x.pi[i]], x.h)]
  <2>1. DOMAIN XY = 1..k
    BY <1>2 DEF CompressListCipherVector
  <2>2. CompressListCipherVector(x.shuffled, e) = [i \in 1..k |-> CompressCipherVector(x.shuffled[i], e)]
    BY <1>7 DEF CompressListCipherVector
  <2> HIDE DEF XY, b, e
  <2> QED BY <1>6, <2>1, <2>2
<1>11. ShuffleProofVerification(cl.c.seed, ShuffleProofCreation(x))
  <2>1. ShuffleProofCreation(x) =
          [OriginalList |-> m, ShuffledList |-> x.shuffled, G |-> x.g, H |-> x.h,
           HashProof |-> [XY |-> XY, h |-> x.h, pi |-> x.pi, beta |-> b]]
    BY DEF ShuffleProofCreation
  <2>2. cl.c.seed = x.h
    BY <1>1
  <2> HIDE DEF XY, b
  <2> QED BY <1>1, <1>8, <1>10, <2>1, <2>2 DEF ShuffleProofVerification, XY
<1> QED BY <1>9, <1>11

-----------------------------------------------------------------------------
(***************************************************************************)
(* The verdict on a list.                                                  *)
(***************************************************************************)
(* What an element reads of its list and its item are integers, points and *)
(* ciphertexts; there is something to aggregate, and a server that joins   *)
(* or leaves keeps the left half.                                          *)
TypedItem(cl, x) ==
  LET c == cl.c
      k == cl.kind
  IN  /\ k = "key_switch" => {c.K, c.Q, c.k, x.ks2, x.rBNeg, x.vi} \subseteq Int
      /\ k = "tag" => {c.K, c.k, c.s} \subseteq Int /\ {x.bef, x.aft} \subseteq Ciphertext
      /\ k = "tag_addition" => {x.c1, x.s, x.c2, x.r} \subseteq Int
      /\ k = "aggregation" => x.data \in Seq(Ciphertext) /\ Len(x.data) > 0 /\ x.result \in Ciphertext
      /\ k = "add_rm" => /\ c.toAdd \in BOOLEAN /\ {c.K, c.k} \subseteq Int
                         /\ {x.bef, x.aft} \subseteq Ciphertext /\ x.aft.K = x.bef.K

(* Lists of these items, not of shuffles: what a shuffle proof compresses  *)
(* to one ciphertext per row agrees for other rows too.                    *)
ItemsTyped ==
  \A cl \in Calls : cl.kind # "shuffle" /\ \A k \in DOMAIN cl.items : TypedItem(cl, cl.items[k])

(* The points of a key switching proof are those before the journey.       *)
LEMMA KeySwitchTravels ==
  ASSUME NEW c, NEW x, NEW viB
  PROVE  LET p == KeySwitchProofCreation(c, x, viB)
         IN  KeySwitchFromBytes(KeySwitchToBytes(p)) = p
BY DEF KeySwitchProofCreation, KeySwitchFromBytes, KeySwitchToBytes

(* So are the ciphertexts of an aggregation.                               *)
LEMMA AggregationTravels ==
  ASSUME NEW x, x.data \in Seq(Ciphertext), x.result \in Ciphertext
  PROVE  LET p == AggregationProofCreation(x)
         IN  AggregationFromBytes(AggregationToBytes(p)) = p
<1> DEFINE n == Len(x.data)
<1> DEFINE bytes == [i \in 1..2 * n |-> IF i % 2 = 1 THEN x.data[(i + 1) \div 2].K
                                                    ELSE x.data[i \div 2].C]
<1>1. n \in Nat /\ \A i \in 1..n : x.data[i] \in Ciphertext
  OBVIOUS
<1>2. ASSUME NEW i \in 1..n
      PROVE  [K |-> bytes[2 * i - 1], C |-> bytes[2 * i]] = x.data[i]
  <2>1. 2 * i - 1 \in 1..2 * n /\ 2 * i \in 1..2 * n
    BY <1>1
  <2>2. (2 * i - 1) % 2 = 1 /\ (2 * i - 1 + 1) \div 2 = i /\ (2 * i) % 2 = 0 /\ (2 * i) \div 2 = i
    BY <1>1
  <2>3. bytes[2 * i - 1] = x.data[i].K /\ bytes[2 * i] = x.data[i].C
    BY <2>1, <2>2
  <2> QED BY <1>1, <2>3 DEF Ciphertext
<1>3. [i \in 1..n |-> [K |-> bytes[2 * i - 1], C |-> bytes[2 * i]]] = x.data
  <2>1. x.data = [i \in 1..n |-> x.data[i]]
    OBVIOUS
  <2> HIDE DEF bytes, n
  <2> QED BY <1>2, <2>1
<1>4. [K |-> x.result.K, C |-> x.result.C] = x.result
  BY DEF Ciphertext
<1> QED BY <1>3, <1>4 DEF AggregationProofCreation, AggregationFromBytes, AggregationToBytes

(* Each element's verdict is that of its item.                             *)
LEMMA VerdictOfItem ==
  ASSUME NEW cl \in Calls, NEW k \in 1..Len(cl.items),
         cl.kind # "shuffle", TypedItem(cl, cl.items[k])
  PROVE  Element(cl, "verify", Source(cl, "verify", k)) <=> Honest(cl, cl.items[k])
<1> DEFINE x == cl.items[k]
<1>1. k \in DOMAIN cl.items /\ TypedItem(cl, x) /\ cl.kind \in Kind \ {"shuffle"}
  BY CallsAssumption
<1>2. Source(cl, "verify", k) = Verified(cl, k)
  BY DEF Source
<1>3. Element(cl, "verify", Source(cl, "verify", k)) = Verify(cl.kind, cl.c, Verified(cl, k))
  BY <1>2 DEF Element
<1>4. CASE cl.kind = "key_switch"
  <2> DEFINE p == KeySwitchProofCreation(cl.c, x, x.vi)
  <2>1. ProofOf(cl, k) = p
    BY <1>4 DEF ProofOf, Prepared, Element, Create
  <2>2. Verified(cl, k) = KeySwitchFromBytes(KeySwitchToBytes(p))
    BY <1>4, <2>1 DEF Verified, Decoded, Encoded, Element, Encode, Decode
  <2>3. Verified(cl, k) = p
    BY <2>2, KeySwitchTravels
  <2>4. Verify(cl.kind, cl.c, p) = KeySwitchProofVerification(p)
    BY <1>4 DEF Verify
  <2>5. KeySwitchProofVerification(p) <=> Honest(cl, x)
    BY <1>1, <1>4, KeySwitchVerified DEF TypedItem
  <2> HIDE DEF p, x
  <2> QED BY <1>3, <2>3, <2>4, <2>5, Zenon DEF x
<1>5. CASE cl.kind = "tag"
  <2> DEFINE p == DeterministicTagCrProofCreation(cl.c, x)
  <2>1. Verified(cl, k) = p
    BY <1>5 DEF Verified, ProofOf, Prepared, Element, Create
  <2>2. p # Empty
    BY <1>1, <1>5, EmptyAssumption
  <2>3. Verify(cl.kind, cl.c, p) = (p # Empty /\ DeterministicTagCrProofVerification(cl.c, p))
    BY <1>5 DEF Verify
  <2>4. DeterministicTagCrProofVerification(cl.c, p) <=> Honest(cl, x)
    BY <1>1, <1>5, TagVerified DEF TypedItem
  <2> HIDE DEF p, x
  <2> QED BY <1>3, <2>1, <2>2, <2>3, <2>4, Zenon DEF x
<1>6. CASE cl.kind = "tag_addition"
  <2> DEFINE p == DeterministicTagAdditionProofCreation(x)
  <2>1. Verified(cl, k) = p
    BY <1>6 DEF Verified, ProofOf, Prepared, Element, Create
  <2>2. Verify(cl.kind, cl.c, p) = DeterministicTagAdditionProofVerification(p)
    BY <1>6 DEF Verify
  <2>3. DeterministicTagAdditionProofVerification(p) <=> Honest(cl, x)
    BY <1>1, <1>6, AdditionVerified DEF TypedItem
  <2> HIDE DEF p, x
  <2> QED BY <1>3, <2>1, <2>2, <2>3, Zenon DEF x
<1>7. CASE cl.kind = "aggregation"
  <2> DEFINE p == AggregationProofCreation(x)
  <2>1. x.data \in Seq(Ciphertext) /\ Len(x.data) > 0 /\ x.result \in Ciphertext
    BY <1>1, <1>7 DEF TypedItem
  <2>2. ProofOf(cl, k) = p
    BY <1>7 DEF ProofOf, Prepared, Element, Create
  <2>3. Verified(cl, k) = AggregationFromBytes(AggregationToBytes(p))
    BY <1>7, <2>2 DEF Verified, Decoded, Encoded, Element, Encode, Decode
  <2>4. Verified(cl, k) = p
    BY <2>1, <2>3, AggregationTravels
  <2>5. Verify(cl.kind, cl.c, p) = AggregationProofVerification(p)
    BY <1>7 DEF Verify
  <2>6. AggregationProofVerification(p) <=> Honest(cl, x)
    BY <1>7, <2>1, AggregationVerified
  <2> HIDE DEF p, x
  <2> QED BY <1>3, <2>4, <2>5, <2>6, Zenon DEF x
<1>8. CASE cl.kind = "add_rm"
  <2> DEFINE p == AddRmProofCreation(cl.c, x)
  <2>1. Verified(cl, k) = p
    BY <1>8 DEF Verified, ProofOf, Prepared, Element, Create
  <2>2. Verify(cl.kind, cl.c, p) = AddRmProofVerification(cl.c, p)
    BY <1>8 DEF Verify
  <2>3. AddRmProofVerification(cl.c, p) <=> Honest(cl, x)
    BY <1>1, <1>8, AddRmVerified DEF TypedItem
  <2> HIDE DEF p, x
  <2> QED BY <1>3, <2>1, <2>2, <2>3, Zenon DEF x
<1> QED BY <1>1, <1>4, <1>5, <1>6, <1>7, <1>8 DEF Kind

(* The verification of a list says yes exactly when all items of the share *)
(* it looks at are what they should be, for any number of them and in any  *)
(* order of the goroutines (key_switch_proofs.go:141-166 and those like it).*)
THEOREM VerdictsCorrect == NoDeparture /\ ItemsTyped => (Spec => []VerdictIsAll)
<1> SUFFICES ASSUME NoDeparture, ItemsTyped PROVE Spec => []VerdictIsAll
  OBVIOUS
<1>1. Inv /\ [Next]_vars => Inv'
  BY StepInv
<1>2. Inv => VerdictIsAll
  <2> SUFFICES ASSUME Inv, stage = "done"
               PROVE  (\A k \in DOMAIN in : in[k]) = (\A k \in 1..ToVerify : Honest(call, call.items[k]))
    BY DEF VerdictIsAll, ToVerify
  <2>1. DOMAIN in = 1..ToVerify /\ \A k \in 1..ToVerify : in[k] = Verdict(k)
    BY DEF Inv, VerdictOfEach
  <2>2. call \in Calls /\ 1..ToVerify \subseteq 1..Len(call.items)
    BY Parameters DEF Inv, StageOfKind, N
  <2>3. \A k \in 1..ToVerify : Verdict(k) <=> Honest(call, call.items[k])
    <3>1. \A k \in 1..Len(call.items) : k \in DOMAIN call.items
      BY <2>2, CallsAssumption
    <3> QED BY <2>2, <3>1, VerdictOfItem DEF Verdict, ItemsTyped
  <2>4. \A k \in 1..ToVerify : in[k] <=> Honest(call, call.items[k])
    BY <2>1, <2>3, Zenon
  <2> QED BY <2>1, <2>4, Zenon
<1> QED BY InitInv, <1>1, <1>2, PTL DEF Spec

TypedList(cl) ==
  \A k \in DOMAIN cl.items :
    IF cl.kind = "shuffle" THEN TypedShuffle(cl.items[k]) ELSE TypedItem(cl, cl.items[k])

(* The verdict on a list of any of the six kinds, shuffles too, is yes     *)
(* when all items of the share are what they should be.                    *)
RightListsAccepted ==
  stage = "done" /\ TypedList(call) /\ (\A k \in 1..ToVerify : Honest(call, call.items[k]))
    => \A k \in DOMAIN in : in[k]

LEMMA RightItemAccepted ==
  ASSUME NEW cl \in Calls, TypedList(cl), NEW k \in 1..Len(cl.items), Honest(cl, cl.items[k])
  PROVE  Element(cl, "verify", Source(cl, "verify", k))
<1>1. k \in DOMAIN cl.items
  BY CallsAssumption
<1>2. CASE cl.kind # "shuffle"
  BY <1>1, <1>2, VerdictOfItem DEF TypedList
<1>3. CASE cl.kind = "shuffle"
  <2> DEFINE x == cl.items[k]
  <2> DEFINE p == ShuffleProofCreation(x)
  <2>1. Source(cl, "verify", k) = p
    BY <1>3 DEF Source, Verified, ProofOf, Prepared, Element, Create
  <2>2. Element(cl, "verify", p) = ShuffleProofVerification(cl.c.seed, p)
    BY <1>3 DEF Element, Verify
  <2>3. TypedShuffle(x)
    BY <1>1, <1>3 DEF TypedList
  <2>4. ShuffleProofVerification(cl.c.seed, p)
    BY <1>3, <2>3, ShuffleVerified
  <2> HIDE DEF p
  <2> QED BY <2>1, <2>2, <2>4, Zenon
<1> QED BY <1>2, <1>3

(* No right list is turned down, whatever the share and the order of the   *)
(* goroutines (shuffle_proofs.go:196-217 and those like it).               *)
THEOREM RightListsPass == NoDeparture => (Spec => []RightListsAccepted)
<1> SUFFICES ASSUME NoDeparture PROVE Spec => []RightListsAccepted
  OBVIOUS
<1>1. Inv /\ [Next]_vars => Inv'
  BY StepInv
<1>2. Inv => RightListsAccepted
  <2> SUFFICES ASSUME Inv, stage = "done", TypedList(call),
                      \A k \in 1..ToVerify : Honest(call, call.items[k])
               PROVE  \A k \in DOMAIN in : in[k]
    BY DEF RightListsAccepted
  <2>1. DOMAIN in = 1..ToVerify /\ \A k \in 1..ToVerify : in[k] = Verdict(k)
    BY DEF Inv, VerdictOfEach
  <2>2. call \in Calls /\ 1..ToVerify \subseteq 1..Len(call.items)
    BY Parameters DEF Inv, StageOfKind, N
  <2>3. \A k \in 1..ToVerify : Verdict(k)
    BY <2>2, RightItemAccepted DEF Verdict
  <2> QED BY <2>1, <2>3, Zenon
<1> QED BY InitInv, <1>1, <1>2, PTL DEF Spec
=============================================================================
