---------------------------- MODULE ShufflingPlusDDT ----------------------------
(***************************************************************************)
(* The protocol that shuffles and tags in one round (protocols/            *)
(* shuffling+ddt_protocol.go).  Every server, the root last, shuffles the  *)
(* matrix, adds its survey secret to each element and removes its layer of *)
(* encryption at once.  What is left to the next server is encrypted under *)
(* the remaining keys only: their sum travels with the matrix, for the     *)
(* next rerandomization.                                                   *)
(*                                                                         *)
(* No server uses precomputed values.  A point is represented by its       *)
(* discrete logarithm, an integer.                                         *)
(***************************************************************************)
EXTENDS ShufflingCircuit

CONSTANTS
  Priv,       \* the share of the collective key of each server
  Contrib,    \* SurveySecretKey of each server
  TargetData  \* the matrix the root starts with

(* A secret that is zero would make all tags equal.                        *)
ASSUME TargetAssumption ==
  /\ Priv \in [Server -> Int] /\ Contrib \in [Server -> Int \ {0}]
  /\ TargetData \in Seq(Seq(Ciphertext)) /\ TargetData # <<>>

VARIABLES
  started,      \* where the root's Start is
  at,           \* where Dispatch is, at each server
  lengthNode,   \* LengthNodeChannel of each server
  previousNode, \* PreviousNodeInPathChannel of each server
  tagged        \* what the root puts into FeedbackChannel

roundVars == <<started, at, lengthNode, previousNode, tagged>>

Message == [Data : Seq(Ciphertext), ShuffKey : Int]

RoundTypeOK ==
  /\ started \in {"no", "done", "failed"}
  /\ at \in [Server -> {"length", "data", "done", "failed"}]
  /\ lengthNode \in [Server -> Seq(Seq(Nat))]
  /\ previousNode \in [Server -> Seq(Message)]
  /\ tagged \subseteq Seq(Seq(Int))

-----------------------------------------------------------------------------
(* The share of each server of S, added in the order of the roster.        *)
SumOfShares(S) ==
  LET sum[i \in 0..Len(List)] ==
        IF i = 0 THEN 0 ELSE sum[i - 1] + (IF List[i] \in S THEN Priv[List[i]] ELSE 0)
  IN  sum[Len(List)]

AddContribution(ct, s) == [K |-> ct.K, C |-> ct.C + Contrib[s]]

DeterministicTag(ct, s) ==
  [K |-> Contrib[s] * ct.K, C |-> Contrib[s] * (ct.C - Priv[s] * ct.K)]

(* Mutant of Processed: the secret is added to the first column only.      *)
ProcessedFirst(m, s) ==
  [i \in DOMAIN m |-> [j \in DOMAIN m[i] |->
     DeterministicTag(IF j = 1 THEN AddContribution(m[i][j], s) ELSE m[i][j], s)]]

(* Steps 2 and 3 on the shuffled matrix.                                   *)
Processed(m, s) ==
  [i \in DOMAIN m |-> [j \in DOMAIN m[i] |->
     DeterministicTag(AddContribution(m[i][j], s), s)]]

(* Mutant of KeyAfter: the key is passed on as it came.                    *)
SameKey(h, s) == h

KeyAfter(h, s) == h - Priv[s]

TagsOf(m) == [i \in DOMAIN m |-> [j \in DOMAIN m[i] |-> m[i][j].C]]

RoundInit ==
  /\ started = "no"
  /\ at = [s \in Server |-> "length"]
  /\ lengthNode = [s \in Server |-> <<>>]
  /\ previousNode = [s \in Server |-> <<>>]
  /\ tagged = {}

(* The two messages to the next server; with faults either may be lost.    *)
SendOn(s, m, h) ==
  LET next == NextInCircuit(List, s)
  IN  /\ lengthNode' = [lengthNode EXCEPT ![next] = Append(@, LengthsOf(m))]
      /\ previousNode' = [previousNode EXCEPT
           ![next] = Append(@, [Data |-> ToBytes(m), ShuffKey |-> h])]

SendOnFails(s, m) ==
  LET next == NextInCircuit(List, s)
  IN  /\ Faults
      /\ UNCHANGED previousNode
      /\ \/ UNCHANGED lengthNode
         \/ lengthNode' = [lengthNode EXCEPT ![next] = Append(@, LengthsOf(m))]

(* Start, at the root: the matrix goes to the next server as it is.        *)
StartRound ==
  LET r == Root(List)
  IN  /\ started = "no"
      /\ \/ SendOn(r, TargetData, SumOfShares(Server)) /\ started' = "done"
         \/ SendOnFails(r, TargetData) /\ started' = "failed"
      /\ UNCHANGED <<at, tagged>>

TakeLength(s) ==
  /\ at[s] = "length" /\ lengthNode[s] # <<>>
  /\ at' = [at EXCEPT ![s] = "data"]
  /\ UNCHANGED <<started, lengthNode, previousNode, tagged>>

(* The matrix and the key a server has received.                           *)
ReceivedMatrix(s) == FromBytes(Head(previousNode[s]).Data, Head(lengthNode[s]))
ShuffKey(s) == Head(previousNode[s]).ShuffKey

(* Dispatch from the second message on.                                    *)
ShuffleAndTag(s) ==
  LET m == ReceivedMatrix(s)
  IN  /\ at[s] = "data" /\ previousNode[s] # <<>>
      /\ \E pi \in Permutation(Len(m)), b \in Blinding(m) :
           LET out == Processed(ShuffleWith(m, pi, b, ShuffKey(s)), s)
           IN  IF s = Root(List)
               THEN /\ tagged' = tagged \cup {TagsOf(out)}
                    /\ at' = [at EXCEPT ![s] = "done"]
                    /\ UNCHANGED <<lengthNode, previousNode>>
               ELSE /\ UNCHANGED tagged
                    /\ \/ /\ SendOn(s, out, KeyAfter(ShuffKey(s), s))
                          /\ at' = [at EXCEPT ![s] = "done"]
                       \/ /\ SendOnFails(s, out)
                          /\ at' = [at EXCEPT ![s] = "failed"]
      /\ UNCHANGED started

(* Each of the two waits ends after TIMEOUT.                               *)
StopWaiting(s) ==
  /\ Faults
  /\ \/ at[s] = "data"
     \/ at[s] = "length" /\ s = Root(List)
  /\ at' = [at EXCEPT ![s] = "failed"]
  /\ UNCHANGED <<started, lengthNode, previousNode, tagged>>

RoundNext ==
  \/ StartRound
  \/ \E s \in Server : TakeLength(s) \/ ShuffleAndTag(s) \/ StopWaiting(s)

RoundSpec == RoundInit /\ [][RoundNext]_roundVars

(* Every server does what it can do; nothing has to fail.                  *)
RoundFairSpec ==
  /\ RoundSpec
  /\ WF_roundVars(StartRound)
  /\ \A s \in Server : WF_roundVars(TakeLength(s)) /\ WF_roundVars(ShuffleAndTag(s))

-----------------------------------------------------------------------------
(* The key that travels with a matrix is the one it is encrypted under:    *)
(* the sum of the shares of the servers that have not yet worked on it.    *)
(* The matrix and the key are updated in different steps of Dispatch, and  *)
(* the rerandomization of the next server is right only if they agree.     *)
KeyOfRemainingLayers ==
  \A s \in Server : at[s] # "done" /\ previousNode[s] # <<>> =>
    ShuffKey(s) = SumOfShares({t \in Server : at[t] # "done"})

DecryptElement(ct) == ct.C - SumOfShares(Server) * ct.K

(* Within a result two tags are equal exactly when the plaintexts are, and *)
(* the rows are those of the root, each once, in some order.               *)
TagsMatchPlaintexts ==
  \A tags \in tagged : \E pi \in Permutation(Len(TargetData)) :
    /\ Len(tags) = Len(TargetData)
    /\ \A i, k \in DOMAIN tags :
         /\ Len(tags[i]) = Len(TargetData[pi[i]])
         /\ \A j \in DOMAIN tags[i], l \in DOMAIN tags[k] :
              tags[i][j] = tags[k][l]
                <=> DecryptElement(TargetData[pi[i]][j]) = DecryptElement(TargetData[pi[k]][l])

(* The root gets its tags, unless a server could not send or stopped       *)
(* waiting.                                                                *)
TagsDelivered ==
  <>(\/ tagged # {}
     \/ started = "failed"
     \/ \E s \in Server : at[s] = "failed")
=============================================================================
