------------------------- MODULE DeterministicTagging -------------------------
(***************************************************************************)
(* The deterministic tagging protocol (protocols/                          *)
(* deterministic_tagging_protocol.go, lib/deterministic_tag).  A root      *)
(* sends its ciphertexts round a circuit of the servers twice.  In the     *)
(* first round every server adds its survey secret to each of them, in the *)
(* second it removes its share of the key and multiplies by the secret;    *)
(* what is left at the root is a deterministic tag of each plaintext.      *)
(*                                                                         *)
(* A message does not say which round it is of: a server takes the first   *)
(* one it gets as the first round's and the next one as the second's.      *)
(*                                                                         *)
(* Every server of a cothority tags its own responses, over its own tree,  *)
(* at the same time as the others, and the groups that the servers         *)
(* aggregate afterwards are matched by tag.                                *)
(*                                                                         *)
(* A point is represented by its discrete logarithm, an integer, so that   *)
(* adding points adds and multiplying a point by a scalar multiplies.  The *)
(* group order is left out.                                                *)
(***************************************************************************)
EXTENDS Integers, Sequences, FiniteSets, Circuit

CONSTANTS
  Server,
  ListOf,    \* Tree().List() of the tree of each root
  Priv,      \* the share of the collective key of each server
  Contrib,   \* SurveySecretKey of each server
  Target,    \* TargetOfSwitch of each root
  KeySum,    \* the sum of the key shares of each set of servers
  Faults     \* messages may be lost, and a server stops waiting for them

ASSUME CircuitAssumption ==
  /\ IsFiniteSet(Server)
  /\ ListOf \in [Server -> Seq(Server)]
  /\ \A r \in Server :
       /\ Len(ListOf[r]) > 0 /\ Root(ListOf[r]) = r
       /\ \A i, j \in DOMAIN ListOf[r] : ListOf[r][i] = ListOf[r][j] => i = j
       /\ \A s \in Server : \E i \in DOMAIN ListOf[r] : ListOf[r][i] = s

Ciphertext == [K : Int, C : Int]

(* A secret that is zero would make all tags equal.                        *)
ASSUME SecretAssumption ==
  /\ Priv \in [Server -> Int]
  /\ Contrib \in [Server -> Int \ {0}]
  /\ Target \in [Server -> Seq(Ciphertext)]
  /\ Faults \in BOOLEAN

ASSUME KeySumAssumption ==
  /\ KeySum \in [SUBSET Server -> Int]
  /\ KeySum[{}] = 0
  /\ \A S \in SUBSET Server : \A s \in Server \ S :
       KeySum[S \cup {s}] = KeySum[S] + Priv[s]

VARIABLES
  begun,     \* where Start is, at each root
  pc,        \* where Dispatch is, per root (the instance) and server
  inbox,     \* PreviousNodeInPathChannel, per root and server
  feedback   \* what was put into the FeedbackChannel of each root

vars == <<begun, pc, inbox, feedback>>

Vector == Seq(Ciphertext)

TypeOK ==
  /\ begun \in [Server -> {"no", "done", "failed"}]
  /\ pc \in [Server -> [Server -> {"round1", "round2", "done", "failed"}]]
  /\ inbox \in [Server -> [Server -> Seq(Vector)]]
  /\ feedback \in [Server -> Seq(Seq(Int))]

-----------------------------------------------------------------------------
(* The first round on one ciphertext: s B is added to C.                   *)
AddContribution(ct, s) == [K |-> ct.K, C |-> ct.C + Contrib[s]]

(* Mutant of DeterministicTag: K is left as it is.                         *)
TagWithoutK(ct, s) == [K |-> ct.K, C |-> Contrib[s] * (ct.C - Priv[s] * ct.K)]

(* The second round on one ciphertext.                                     *)
DeterministicTag(ct, s) ==
  [K |-> Contrib[s] * ct.K,
   C |-> Contrib[s] * (ct.C - Priv[s] * ct.K)]

AdditionRound(v, s) == [i \in DOMAIN v |-> AddContribution(v[i], s)]
DeterministicTagSequence(v, s) == [i \in DOMAIN v |-> DeterministicTag(v[i], s)]

TagsOf(v) == [i \in DOMAIN v |-> v[i].C]

(* sendingDet: the vector goes to the next node in the circuit of r.       *)
Sent(r, s, v) ==
  LET next == NextInCircuit(ListOf[r], s)
  IN  [inbox EXCEPT ![r][next] = Append(@, v)]

Init ==
  /\ begun = [r \in Server |-> "no"]
  /\ pc = [r \in Server |-> [s \in Server |-> "round1"]]
  /\ inbox = [r \in Server |-> [s \in Server |-> <<>>]]
  /\ feedback = [r \in Server |-> <<>>]

(* Start, at the root.  With faults the message may not reach the next     *)
(* node.                                                                   *)
Start(r) ==
  /\ begun[r] = "no"
  /\ \/ /\ inbox' = Sent(r, r, Target[r])
        /\ begun' = [begun EXCEPT ![r] = "done"]
     \/ /\ Faults
        /\ begun' = [begun EXCEPT ![r] = "failed"]
        /\ UNCHANGED inbox
  /\ UNCHANGED <<pc, feedback>>

Consumed(r, s, box) == [box EXCEPT ![r][s] = Tail(@)]

(* The first message: the secret is added and the vector passed on.  When  *)
(* the message cannot be sent Dispatch returns.                            *)
FirstRound(r, s) ==
  /\ pc[r][s] = "round1"
  /\ inbox[r][s] # <<>>
  /\ LET box == Sent(r, s, AdditionRound(Head(inbox[r][s]), s))
     IN  \/ /\ inbox' = Consumed(r, s, box)
            /\ pc' = [pc EXCEPT ![r][s] = "round2"]
         \/ /\ Faults
            /\ inbox' = Consumed(r, s, inbox)
            /\ pc' = [pc EXCEPT ![r][s] = "failed"]
  /\ UNCHANGED <<begun, feedback>>

(* The second message, at a server other than the root.                    *)
SecondRound(r, s) ==
  /\ pc[r][s] = "round2"
  /\ s # Root(ListOf[r])
  /\ inbox[r][s] # <<>>
  /\ LET box == Sent(r, s, DeterministicTagSequence(Head(inbox[r][s]), s))
     IN  \/ /\ inbox' = Consumed(r, s, box)
            /\ pc' = [pc EXCEPT ![r][s] = "done"]
         \/ /\ Faults
            /\ inbox' = Consumed(r, s, inbox)
            /\ pc' = [pc EXCEPT ![r][s] = "failed"]
  /\ UNCHANGED <<begun, feedback>>

(* The second message, at the root: the tags go to FeedbackChannel.        *)
Report(r) ==
  /\ pc[r][r] = "round2"
  /\ inbox[r][r] # <<>>
  /\ LET tags == TagsOf(DeterministicTagSequence(Head(inbox[r][r]), r))
     IN  feedback' = [feedback EXCEPT ![r] = Append(@, tags)]
  /\ inbox' = Consumed(r, r, inbox)
  /\ pc' = [pc EXCEPT ![r][r] = "done"]
  /\ UNCHANGED begun

(* Dispatch waits for each message for TIMEOUT.  It runs at the root from  *)
(* the start, at other servers from the arrival of their first message.    *)
TimeOut(r, s) ==
  /\ Faults
  /\ \/ pc[r][s] = "round2"
     \/ pc[r][s] = "round1" /\ s = Root(ListOf[r])
  /\ pc' = [pc EXCEPT ![r][s] = "failed"]
  /\ UNCHANGED <<begun, inbox, feedback>>

Next ==
  \/ \E r \in Server : Start(r) \/ Report(r)
  \/ \E r, s \in Server :
       FirstRound(r, s) \/ SecondRound(r, s) \/ TimeOut(r, s)

Spec == Init /\ [][Next]_vars

(* Nothing a node has to do waits for ever; nothing has to fail.           *)
FairSpec ==
  /\ Spec
  /\ \A r \in Server :
       /\ WF_vars(Start(r))
       /\ WF_vars(Report(r))
       /\ \A s \in Server : WF_vars(FirstRound(r, s)) /\ WF_vars(SecondRound(r, s))

-----------------------------------------------------------------------------
Decrypt(ct) == ct.C - KeySum[Server] * ct.K

(* Servers tell the rounds apart by counting messages (lines 158-217 of    *)
(* deterministic_tagging_protocol.go), which is right only if no server    *)
(* gets a second message while another has not had its first: the circuit  *)
(* passes every server before it comes back to one.                        *)
RoundsInOrder ==
  \A r, s \in Server :
    \/ pc[r][s] = "done"
    \/ pc[r][s] = "round2" /\ inbox[r][s] # <<>>
    => \A t \in Server : pc[r][t] # "round1"

(* Tags made by different roots, over different circuits and from          *)
(* ciphertexts with different randomness, are equal exactly when the       *)
(* plaintexts are: this is what lets the aggregation match the groups of   *)
(* different servers (FilterNone and collective aggregation use the tag as *)
(* the key of a map).                                                      *)
TagsComparable ==
  \A q, r \in Server :
    \A u \in 1..Len(feedback[q]), v \in 1..Len(feedback[r]) :
      /\ Len(feedback[q][u]) = Len(Target[q])
      /\ \A i \in 1..Len(Target[q]), j \in 1..Len(Target[r]) :
           feedback[q][u][i] = feedback[r][v][j]
             <=> Decrypt(Target[q][i]) = Decrypt(Target[r][j])

(* Every root gets its tags, unless a server of its circuit could not send *)
(* or stopped waiting.                                                     *)
TagsDelivered ==
  \A r \in Server :
    <>(\/ feedback[r] # <<>>
       \/ begun[r] = "failed"
       \/ \E s \in Server : pc[r][s] = "failed")
=============================================================================
