------------------------------- MODULE ProofLists -------------------------------
(* Lists of proofs (lib/*/*_proofs.go): creation, encoding and verification *)
(* hand the elements of a list to goroutines and wait for all of them.      *)
EXTENDS ProofPredicates, FiniteSets

CONSTANTS VPARALLELIZE,  \* how many elements a goroutine takes
          Calls,         \* the lists: kind, what all elements share, items, share to verify
          Faulty,        \* pairs <<kind, stage>> in which an element may give an error
          Empty          \* an element nothing was stored in

Kind == {"key_switch", "tag", "tag_addition", "aggregation", "shuffle", "add_rm"}
Working == {"prepare", "create", "encode", "decode", "verify"}
Stage == Working \cup {"done", "failed", "panic"}

ASSUME ChunkAssumption == VPARALLELIZE \in Nat \ {0}
ASSUME CallsAssumption ==
  \A cl \in Calls : cl.kind \in Kind /\ Len(cl.items) \in Nat /\ DOMAIN cl.items = 1..Len(cl.items)
ASSUME FaultyAssumption ==
  Faulty \subseteq ((Kind \ {"aggregation"}) \X {"create"})
                   \cup ({"key_switch", "aggregation"} \X {"encode", "decode"})

(* A share is at most the whole list.  An element nothing was stored in is *)
(* not a proof.                                                            *)
ASSUME ShareAssumption ==
  \A cl \in Calls : /\ cl.share[1] \in Nat /\ cl.share[2] \in Nat \ {0}
                     /\ cl.share[1] <= cl.share[2]
ASSUME EmptyAssumption ==
  \A cl \in Calls : cl.kind = "tag" =>
    \A k \in DOMAIN cl.items : DeterministicTagCrProofCreation(cl.c, cl.items[k]) # Empty

VARIABLES call,   \* the list at hand
          stage,  \* what is being done with it
          in,     \* the elements the stage starts from
          out,    \* the elements it makes
          next,   \* the first element of the next goroutine
          at,     \* the goroutines by first element: the element each is at
          wg,     \* the counter of the WaitGroup
          err     \* whether an error was recorded

vars == <<call, stage, in, out, next, at, wg, err>>

-----------------------------------------------------------------------------
(* What is done with one element.  The stages of a list of this kind.      *)
FirstStage(kind) == IF kind = "key_switch" THEN "prepare" ELSE "create"

After(kind, st) ==
  CASE st = "prepare" -> "create"
    [] st = "create" -> IF kind \in {"key_switch", "aggregation"} THEN "encode" ELSE "verify"
    [] st = "encode" -> "decode"
    [] st = "decode" -> "verify"
    [] st = "verify" -> "done"

Create(kind, c, x) ==
  CASE kind = "key_switch" -> KeySwitchProofCreation(c, x.item, x.viB)
    [] kind = "tag" -> DeterministicTagCrProofCreation(c, x)
    [] kind = "tag_addition" -> DeterministicTagAdditionProofCreation(x)
    [] kind = "aggregation" -> AggregationProofCreation(x)
    [] kind = "shuffle" -> ShuffleProofCreation(x)
    [] kind = "add_rm" -> AddRmProofCreation(c, x)

Encode(kind, p) == IF kind = "key_switch" THEN KeySwitchToBytes(p) ELSE AggregationToBytes(p)
Decode(kind, b) == IF kind = "key_switch" THEN KeySwitchFromBytes(b) ELSE AggregationFromBytes(b)

Verify(kind, c, p) ==
  CASE kind = "key_switch" -> KeySwitchProofVerification(p)
    [] kind = "tag" -> p # Empty /\ DeterministicTagCrProofVerification(c, p)
    [] kind = "tag_addition" -> DeterministicTagAdditionProofVerification(p)
    [] kind = "aggregation" -> AggregationProofVerification(p)
    [] kind = "shuffle" -> ShuffleProofVerification(c.seed, p)
    [] kind = "add_rm" -> AddRmProofVerification(c, p)

Element(cl, st, x) ==
  CASE st = "prepare" -> [item |-> x, viB |-> x.vi]
    [] st = "create" -> Create(cl.kind, cl.c, x)
    [] st = "encode" -> Encode(cl.kind, x)
    [] st = "decode" -> Decode(cl.kind, x)
    [] st = "verify" -> Verify(cl.kind, cl.c, x)

MayFail(cl, st, x) ==
  \/ <<cl.kind, st>> \in Faulty
  \/ cl.kind = "shuffle" /\ st = "create" /\ ShuffleProofFails(x)
MustFail(cl, st, x) == cl.kind = "shuffle" /\ st = "create" /\ ShuffleProofFails(x)

-----------------------------------------------------------------------------
(* math.Ceil(percent * len), with percent = share[1] / share[2].           *)
NbrProofsToVerify(cl) == (Len(cl.items) * cl.share[1] + cl.share[2] - 1) \div cl.share[2]

(* The length of the slice of results, and how far the loops go.           *)
Size(cl, st) == IF st = "verify" THEN NbrProofsToVerify(cl) ELSE Len(cl.items)
Bound(cl, st) == IF cl.kind = "add_rm" THEN Len(cl.items) ELSE Size(cl, st)

(* StartParallelize counts all goroutines at once, one for each element;   *)
(* the other loops count each goroutine when they start it.                *)
StartParallelized(st) == st \in {"encode", "decode"}
Chunk(st) == IF StartParallelized(st) THEN 1 ELSE VPARALLELIZE

(* Mutant of EndOf: the last element of a chunk is left to the next one.   *)
EndOfShort(i, st, b) == IF i + Chunk(st) - 1 > b THEN b + 1 ELSE i + Chunk(st) - 1

(* The goroutine that starts at i works on the elements before this one.   *)
EndOf(i, st, b) == IF i + Chunk(st) > b THEN b + 1 ELSE i + Chunk(st)

(* Proofs of an addition are made from the first arguments of the chunk.   *)
Argument(cl, st, i) ==
  IF cl.kind = "tag_addition" /\ st = "create" THEN in[i] ELSE in[at[i]]

StartStage(cl, st, elements) ==
  /\ call' = cl /\ stage' = st /\ in' = elements
  /\ out' = [k \in 1..Size(cl, st) |-> Empty]
  /\ next' = 1 /\ at' = << >> /\ err' = FALSE
  /\ wg' = IF StartParallelized(st) THEN Size(cl, st) ELSE 0

Init ==
  /\ call \in Calls /\ stage = FirstStage(call.kind) /\ in = call.items
  /\ out = [k \in 1..Size(call, stage) |-> Empty]
  /\ next = 1 /\ at = << >> /\ err = FALSE /\ wg = 0

(* The caller starts the next goroutine.                                   *)
Spawn ==
  /\ stage \in Working /\ next <= Bound(call, stage)
  /\ at' = [i \in DOMAIN at \cup {next} |-> IF i = next THEN next ELSE at[i]]
  /\ next' = next + Chunk(stage)
  /\ wg' = IF StartParallelized(stage) THEN wg ELSE wg + 1
  /\ UNCHANGED <<call, stage, in, out, err>>

Store(i, x) ==
  /\ out' = [out EXCEPT ![at[i]] = x]
  /\ at' = [at EXCEPT ![i] = at[i] + 1]
  /\ UNCHANGED <<call, stage, in, next, wg, err>>

Leave(i) == at' = [j \in DOMAIN at \ {i} |-> at[j]]

HasElement(i) == stage \in Working /\ i \in DOMAIN at /\ at[i] < EndOf(i, stage, Bound(call, stage))

(* One turn of the inner loop.  A position out of the range of the slice   *)
(* of results takes the process down.                                      *)
Work(i) ==
  /\ HasElement(i) /\ ~ MustFail(call, stage, Argument(call, stage, i))
  /\ IF at[i] \in DOMAIN out
     THEN Store(i, Element(call, stage, Argument(call, stage, i)))
     ELSE stage' = "panic" /\ UNCHANGED <<call, in, out, next, at, wg, err>>

(* Mutant of DoneAfterError: Done is not deferred.                         *)
NeverDoneAfterError(cl, st) == FALSE

(* The goroutine of KeySwitchListProofCreation defers Done after its loop. *)
DoneAfterError(cl, st) == ~ (cl.kind = "key_switch" /\ st = "create")

(* An element that gives an error ends its goroutine; that of              *)
(* DeterministicTagCrListProofCreation looks at err in place of tmpErr,    *)
(* stores the empty proof and goes on.                                     *)
Fail(i) ==
  /\ HasElement(i) /\ MayFail(call, stage, Argument(call, stage, i))
  /\ IF call.kind = "tag" /\ stage = "create"
     THEN Store(i, Empty)
     ELSE /\ Leave(i) /\ err' = TRUE
          /\ wg' = IF DoneAfterError(call, stage) THEN wg - 1 ELSE wg
          /\ UNCHANGED <<call, stage, in, out, next>>

(* The loop has ended: Done.                                               *)
Finish(i) ==
  /\ stage \in Working /\ i \in DOMAIN at /\ ~ HasElement(i)
  /\ Leave(i) /\ wg' = wg - 1
  /\ UNCHANGED <<call, stage, in, out, next, err>>

(* Wait returns: the result of the stage goes to the next one.             *)
Join ==
  /\ stage \in Working /\ next > Bound(call, stage) /\ wg = 0
  /\ IF err
     THEN stage' = "failed" /\ UNCHANGED <<call, in, out, next, at, wg, err>>
     ELSE StartStage(call, After(call.kind, stage), out)

Position == UNION {1..Len(cl.items) : cl \in Calls}

Goroutine(i) == Work(i) \/ Fail(i) \/ Finish(i)

Next == Spawn \/ Join \/ \E i \in Position : Goroutine(i)

(* Goroutines run; whether an element gives an error is left open.         *)
Spec == Init /\ [][Next]_vars /\ WF_vars(Spawn) /\ WF_vars(Join)
             /\ \A i \in Position : WF_vars(Goroutine(i))

-----------------------------------------------------------------------------
(* What each element is, made one after the other without goroutines.      *)
Prepared(cl, k) == IF cl.kind = "key_switch" THEN Element(cl, "prepare", cl.items[k]) ELSE cl.items[k]
ProofOf(cl, k) == Element(cl, "create", Prepared(cl, k))
Encoded(cl, k) == Element(cl, "encode", ProofOf(cl, k))
Decoded(cl, k) == Element(cl, "decode", Encoded(cl, k))
Verified(cl, k) == IF cl.kind \in {"key_switch", "aggregation"} THEN Decoded(cl, k) ELSE ProofOf(cl, k)

Source(cl, st, k) ==
  CASE st = "prepare" -> cl.items[k]
    [] st = "create" -> Prepared(cl, k)
    [] st = "encode" -> ProofOf(cl, k)
    [] st = "decode" -> Encoded(cl, k)
    [] st = "verify" -> Verified(cl, k)

(* A list that a stage hands on is that of its elements, each made from    *)
(* the element with its number, whatever the order of the goroutines: none *)
(* is missing, made twice from another or handed on before it is stored.   *)
ListComplete ==
  stage \in Working => \A k \in 1..Len(call.items) : in[k] = Source(call, stage, k)

-----------------------------------------------------------------------------
Decrypt(x, ct) == ct.C - x * ct.K
Keys == 0..1

DecryptedSum(x, data) ==
  LET sum[i \in 0..Len(data)] == IF i = 0 THEN 0 ELSE sum[i - 1] + Decrypt(x, data[i])
  IN  sum[Len(data)]

(* What an item should be for its proof to hold: said of ciphertexts and   *)
(* the keys that decrypt them, without the predicates.                     *)
Honest(cl, x) ==
  LET c == cl.c
      k == cl.kind
  IN  CASE k = "key_switch" ->
             \* ks2 takes an encryption of 0 under k, of randomness -rBNeg, to one under Q
             c.K = c.k /\ Decrypt(c.Q, [K |-> x.vi, C |-> (-x.rBNeg) * c.k + x.ks2]) = 0
        [] k = "tag" ->
             \* one layer k less, and s times the plaintext
             c.K = c.k /\ \A r \in Keys : Decrypt(r, x.aft) = c.s * Decrypt(r + c.k, x.bef)
        [] k = "tag_addition" -> x.c2 = x.s /\ x.r = x.c1 + x.s
        [] k = "aggregation" ->
             \A r \in Keys : Decrypt(r, x.result) = DecryptedSum(r, x.data)
        [] k = "shuffle" -> x.g = 1 /\ x.h = c.seed /\ x.shuffled = ShuffleWith(x.original, x.pi, x.beta, x.h)
        [] k = "add_rm" ->
             \* one layer k more or less, and the same plaintext
             c.K = c.k /\ \A r \in Keys :
               IF c.toAdd THEN Decrypt(r + c.k, x.aft) = Decrypt(r, x.bef)
                          ELSE Decrypt(r, x.aft) = Decrypt(r + c.k, x.bef)

(* The list verification says yes exactly when all items of the share it   *)
(* looks at are what they should be.                                       *)
VerdictIsAll ==
  stage = "done" =>
    (\A k \in DOMAIN in : in[k]) = (\A k \in 1..NbrProofsToVerify(call) : Honest(call, call.items[k]))

(* Creation and verification return, with a list or with an error: no      *)
(* goroutine is waited for in vain and none takes the process down.        *)
CallReturns == <>(stage \in {"done", "failed"})
=============================================================================
