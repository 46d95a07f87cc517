---------------------------- MODULE LocalProtocols ----------------------------
(***************************************************************************)
(* The protocols of protocols/utils, each run by one server alone: local   *)
(* aggregation, local aggregation of clear data, adding or removing a      *)
(* server's key, and the verification of proofs.                           *)
(*                                                                         *)
(* All four are built the same way.  Start computes the result and puts it *)
(* into an unbuffered channel, from which Dispatch, another goroutine,     *)
(* takes it to hand it to whoever reads the FeedbackChannel.  The channel  *)
(* is a variable of the package: all instances of a protocol in the        *)
(* process share it.                                                       *)
(*                                                                         *)
(* Names begin with Local where DecryptionTable has the same one: the two  *)
(* are treated together in SharedStateProofs.                              *)
(***************************************************************************)
EXTENDS Integers, Sequences, FiniteSets, FiniteSetsExt

CONSTANTS
  Instance,   \* the instances run in one process
  Kind,       \* the protocol each instance is of
  Target,     \* what each instance is given
  Secret,     \* the private key the AddRm targets are encrypted for
  Serial,     \* an instance begins when no caller waits for one of its kind
  Timeouts    \* the instances whose Dispatch may stop waiting

Protocol == {"LocalAggregation", "LocalClearAggregation", "AddRmServer",
             "ProofsVerification"}

ASSUME InstanceAssumption ==
  /\ IsFiniteSet(Instance)
  /\ Kind \in [Instance -> Protocol]
  /\ DOMAIN Target = Instance
  /\ \A i \in Instance : Kind[i] = "AddRmServer" =>
       Target[i] \in [add : BOOLEAN, key : Int, cts : Seq([K : Int, C : Int])]
  /\ Secret \in Int
  /\ Serial \in BOOLEAN
  /\ Timeouts \subseteq Instance

VARIABLES
  start,      \* where the Start of each instance is
  dispatch,   \* where its Dispatch is
  result,     \* what Start has computed
  taken,      \* what Dispatch has received
  feedback    \* what was read from its FeedbackChannel

localVars == <<start, dispatch, result, taken, feedback>>

-----------------------------------------------------------------------------
(* What the protocols compute.                                             *)

(* AddInMap on each response: the values of one tag are added.             *)
LocalAggregation(t) ==
  [k \in {t[i].tag : i \in DOMAIN t} |->
     MapThenSumSet(LAMBDA i : t[i].value, {i \in DOMAIN t : t[i].tag = k})]

(* AddInClear reads whether a response matches in the last character of    *)
(* its key, the last digit of the last where attribute.                    *)
Discarded(r) == r.where # <<>> /\ r.where[Len(r.where)] % 10 = 0

KeyOf(r) == <<r.group, r.where>>

LocalClearAggregation(t) ==
  LET kept == {i \in DOMAIN t : ~ Discarded(t[i])}
  IN  [k \in {KeyOf(t[i]) : i \in kept} |->
         MapThenSumSet(LAMBDA i : t[i].value, {i \in kept : KeyOf(t[i]) = k})]

(* Mutant of ChangeEncryption: removing a key adds it.                     *)
AlwaysAdded(t) ==
  [i \in DOMAIN t.cts |->
     [K |-> t.cts[i].K, C |-> t.cts[i].C + t.key * t.cts[i].K]]

(* changeEncryption: the server's key is added to the key of the           *)
(* ciphertexts or removed from it.                                         *)
ChangeEncryption(t) ==
  [i \in DOMAIN t.cts |->
     [K |-> t.cts[i].K,
      C |-> IF t.add THEN t.cts[i].C + t.key * t.cts[i].K
            ELSE t.cts[i].C - t.key * t.cts[i].K]]

(* Verification of the six lists of proofs, given as the sets of those     *)
(* that are right and wrong.                                               *)
ProofsVerification(t) == [p \in 1..6 |-> \A proof \in t[p] : proof]

ResultOf(i) ==
  CASE Kind[i] = "LocalAggregation" -> LocalAggregation(Target[i])
    [] Kind[i] = "LocalClearAggregation" -> LocalClearAggregation(Target[i])
    [] Kind[i] = "AddRmServer" -> ChangeEncryption(Target[i])
    [] Kind[i] = "ProofsVerification" -> ProofsVerification(Target[i])

-----------------------------------------------------------------------------
Nothing == {}

LocalInit ==
  /\ start = [i \in Instance |-> "idle"]
  /\ dispatch = [i \in Instance |-> "idle"]
  /\ result = [i \in Instance |-> Nothing]
  /\ taken = [i \in Instance |-> Nothing]
  /\ feedback = [i \in Instance |-> Nothing]

(* The caller has neither a result nor an error.  It does not see whether  *)
(* Start is still blocked.                                                 *)
Running(i) == dispatch[i] \in {"wait", "feedback"}

(* The protocol is created and its two goroutines begin.                   *)
Launch(i) ==
  /\ start[i] = "idle"
  /\ Serial => \A j \in Instance : Kind[j] = Kind[i] => ~ Running(j)
  /\ start' = [start EXCEPT ![i] = "compute"]
  /\ dispatch' = [dispatch EXCEPT ![i] = "wait"]
  /\ UNCHANGED <<result, taken, feedback>>

Compute(i) ==
  /\ start[i] = "compute"
  /\ start' = [start EXCEPT ![i] = "send"]
  /\ result' = [result EXCEPT ![i] = {ResultOf(i)}]
  /\ UNCHANGED <<dispatch, taken, feedback>>

(* Mutants of SameChannel: an instance does not receive what it sends, or  *)
(* two of the protocols use one variable.                                  *)
OtherInstance(i, j) == Kind[i] = Kind[j] /\ i # j
WrongVariable(i, j) ==
  \/ Kind[i] = Kind[j]
  \/ {Kind[i], Kind[j]} = {"LocalAggregation", "AddRmServer"}

(* The variable of the package the two instances use.                      *)
SameChannel(i, j) == Kind[i] = Kind[j]

(* The channel is unbuffered: a send of i and a receive of j meet.         *)
HandOver(i, j) ==
  /\ start[i] = "send" /\ dispatch[j] = "wait"
  /\ SameChannel(i, j)
  /\ start' = [start EXCEPT ![i] = "done"]
  /\ dispatch' = [dispatch EXCEPT ![j] = "feedback"]
  /\ taken' = [taken EXCEPT ![j] = result[i]]
  /\ UNCHANGED <<result, feedback>>

(* The caller reads FeedbackChannel.                                       *)
ReadFeedback(i) ==
  /\ dispatch[i] = "feedback"
  /\ dispatch' = [dispatch EXCEPT ![i] = "done"]
  /\ feedback' = [feedback EXCEPT ![i] = taken[i]]
  /\ UNCHANGED <<start, result, taken>>

TimeOut(i) ==
  /\ i \in Timeouts
  /\ dispatch[i] = "wait"
  /\ dispatch' = [dispatch EXCEPT ![i] = "failed"]
  /\ UNCHANGED <<start, result, taken, feedback>>

LocalNext ==
  \/ \E i \in Instance : Launch(i) \/ Compute(i) \/ ReadFeedback(i) \/ TimeOut(i)
  \/ \E i, j \in Instance : HandOver(i, j)

LocalSpec == LocalInit /\ [][LocalNext]_localVars

(* Goroutines that can run do, the caller runs the protocols it has to run *)
(* and reads their results.                                                *)
LocalFairSpec ==
  /\ LocalSpec
  /\ \A i \in Instance :
       /\ WF_localVars(Launch(i)) /\ WF_localVars(Compute(i)) /\ WF_localVars(ReadFeedback(i))
       /\ WF_localVars(\E j \in Instance : HandOver(i, j))

-----------------------------------------------------------------------------
LocalTypeOK ==
  /\ start \in [Instance -> {"idle", "compute", "send", "done"}]
  /\ dispatch \in [Instance -> {"idle", "wait", "feedback", "done", "failed"}]
  /\ DOMAIN result = Instance /\ DOMAIN taken = Instance /\ DOMAIN feedback = Instance
  /\ \A i \in Instance :
       /\ Cardinality(result[i]) <= 1
       /\ taken[i] \subseteq {ResultOf(j) : j \in Instance}
       /\ feedback[i] \subseteq taken[i]

(* The caller of an instance gets what that instance computed from its     *)
(* target (the tests of protocols/utils compare the two).                  *)
OwnResult == \A i \in Instance : feedback[i] \subseteq {ResultOf(i)}

(* What the caller of AddRmServer gets decrypts, under the key with the    *)
(* server's key added or removed, to what the target decrypts to under the *)
(* old one.                                                                *)
AddRmKeepsPlaintext ==
  \A i \in Instance : Kind[i] = "AddRmServer" =>
    LET t == Target[i]
        new == IF t.add THEN Secret + t.key ELSE Secret - t.key
    IN  \A cts \in feedback[i] : \A n \in DOMAIN t.cts :
          cts[n].C - new * cts[n].K = t.cts[n].C - Secret * t.cts[n].K

(* "if the where matches (all 1s) -> filter responses" (store.go): a       *)
(* response with a where attribute that is not 1 is not in the aggregate.  *)
OnlyMatchesAggregated ==
  \A i \in Instance : Kind[i] = "LocalClearAggregation" =>
    \A groups \in feedback[i] : \A k \in DOMAIN groups :
      \A n \in DOMAIN k[2] : k[2][n] = 1

(* Every caller gets a result, unless its Dispatch stops waiting.          *)
CallerAnswered ==
  \A i \in Instance : <>(feedback[i] # Nothing \/ dispatch[i] = "failed")
=============================================================================
