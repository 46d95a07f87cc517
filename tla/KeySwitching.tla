----------------------------- MODULE KeySwitching -----------------------------
(***************************************************************************)
(* The key switching protocol (protocols/key_switching_protocol.go,        *)
(* lib/key_switch): the ciphertexts of the root, encrypted under the       *)
(* collective key, become encryptions of the same values under a new key.  *)
(* The root announces the new key and the left halves of its ciphertexts   *)
(* down a tree; every node computes its contribution from them, adds those *)
(* of its children and sends the sum to its parent; the root adds the      *)
(* right halves to the total.                                              *)
(*                                                                         *)
(* The root runs Start and Dispatch as two goroutines.                     *)
(*                                                                         *)
(* A point is represented by its discrete logarithm, an integer.           *)
(***************************************************************************)
EXTENDS Integers, Sequences, FiniteSets

CONSTANTS
  Node,      \* the servers
  Root,
  Parent,    \* the parent of each other node
  Below,     \* the nodes of the subtree of each node
  Priv,      \* the share of the collective key of each node
  KeySum,    \* the sum of the key shares of each set of nodes
  NewPriv,   \* the private key of the new key
  Target,    \* TargetOfSwitch
  Rand,      \* the values of the random scalars v_i
  Faults     \* messages may be lost, and a node stops waiting for one

ASSUME TreeAssumption ==
  /\ IsFiniteSet(Node) /\ Root \in Node
  /\ Parent \in [Node \ {Root} -> Node]
ASSUME DataAssumption ==
  /\ Priv \in [Node -> Int] /\ NewPriv \in Int
  /\ Target \in Seq([K : Int, C : Int])
  /\ Rand \subseteq Int
  /\ Faults \in BOOLEAN
ASSUME KeySumAssumption ==
  /\ KeySum[{}] = 0
  /\ \A S \in SUBSET Node : \A n \in Node \ S :
       KeySum[S \cup {n}] = KeySum[S] + Priv[n]

VARIABLES
  start,         \* where the root's Start is
  pc,            \* where each node's Dispatch is
  down,          \* nodes with a DownMessageBytes in flight
  wire,          \* messages of each node to its parent, in order
  lengths,       \* LengthMessages arrived at each node, in order
  datas,         \* UpBytesMessages arrived at each node, in order
  contribution,  \* NodeContribution of each node: nothing or one vector
  feedback       \* what the root has put into FeedbackChannel

vars == <<start, pc, down, wire, lengths, datas, contribution, feedback>>

Children(n) == {c \in Node \ {Root} : Parent[c] = n}
IsLeaf(n) == Children(n) = {}

(* In a tree a node is not in the subtree of its child, and the subtrees   *)
(* of two children have no node in common.                                 *)
ASSUME BelowAssumption ==
  /\ Below \in [Node -> SUBSET Node]
  /\ Below[Root] = Node
  /\ \A n \in Node :
       /\ Below[n] = {n} \cup UNION {Below[c] : c \in Children(n)}
       /\ \A c \in Children(n) : n \notin Below[c]
       /\ \A c, d \in Children(n) : c # d => Below[c] \cap Below[d] = {}

Nil == <<>>
Vector == [DOMAIN Target -> [K : Int, C : Int]]

TypeOK ==
  /\ start \in {"contribute", "announce", "done", "failed"}
  /\ pc \in [Node -> {"announcement", "ascend", "report", "done", "failed", "panicked"}]
  /\ down \subseteq Node \ {Root}
  /\ \A n \in Node : contribution[n] = Nil \/ contribution[n][1] \in Vector
  /\ \A n \in Node : Len(wire[n]) <= 2 /\ Len(datas[n]) <= Len(lengths[n])
  /\ feedback \subseteq Vector

-----------------------------------------------------------------------------
NewKey == NewPriv

(* Mutant of KeySwitch: the own share is added instead of removed.         *)
KeyAdded(K, n, v) == [K |-> v, C |-> Priv[n] * K + v * NewKey]

(* One node's contribution for a ciphertext with left half K.              *)
KeySwitch(K, n, v) == [K |-> v, C |-> Priv[n] * (-K) + v * NewKey]

KeySwitchSequence(n, vs) == [i \in DOMAIN Target |-> KeySwitch(Target[i].K, n, vs[i])]

AddCt(a, b) == [K |-> a.K + b.K, C |-> a.C + b.C]
AddVector(u, v) == [i \in DOMAIN v |-> AddCt(u[i], v[i])]

(* FromBytes reads as many ciphertexts as the length message says.         *)
FromBytes(v, length) == [i \in 1..length |-> v[i]]

Length(l) == [type |-> "length", value |-> l]
Data(v) == [type |-> "data", value |-> v]

Init ==
  /\ start = "contribute"
  /\ pc = [n \in Node |-> IF n = Root THEN "ascend" ELSE "announcement"]
  /\ down = {}
  /\ wire = [n \in Node |-> <<>>]
  /\ lengths = [n \in Node |-> <<>>]
  /\ datas = [n \in Node |-> <<>>]
  /\ contribution = [n \in Node |-> Nil]
  /\ feedback = {}

Scalars == [DOMAIN Target -> Rand]

(* Start: the root's own contribution.                                     *)
StartContribution ==
  /\ start = "contribute"
  /\ \E vs \in Scalars :
       contribution' = [contribution EXCEPT ![Root] = <<KeySwitchSequence(Root, vs)>>]
  /\ start' = "announce"
  /\ UNCHANGED <<pc, down, wire, lengths, datas, feedback>>

(* Mutant of MayAnnounce: the announcement does not wait for the root's    *)
(* contribution.                                                           *)
AnnounceAtOnce == start \in {"contribute", "announce"}

MayAnnounce == start = "announce"

(* Start: SendToChildren.  With faults some children may not be reached,   *)
(* and Start fails.                                                        *)
StartAnnouncement ==
  /\ MayAnnounce
  /\ \/ down' = Children(Root) /\ start' = "done"
     \/ Faults /\ down' \in SUBSET Children(Root) /\ start' = "failed"
  /\ UNCHANGED <<pc, wire, lengths, datas, contribution, feedback>>

(* announcementKSPhase, and the contribution of a node that is not the     *)
(* root.                                                                   *)
AnnouncementKSPhase(n) ==
  /\ pc[n] = "announcement" /\ n \in down
  /\ \/ /\ down' = (down \ {n}) \cup Children(n)
        /\ \E vs \in Scalars :
             contribution' = [contribution EXCEPT ![n] = <<KeySwitchSequence(n, vs)>>]
        /\ pc' = [pc EXCEPT ![n] = "ascend"]
     \/ /\ Faults
        /\ \E some \in SUBSET Children(n) : down' = (down \ {n}) \cup some
        /\ pc' = [pc EXCEPT ![n] = "failed"]
        /\ UNCHANGED contribution
  /\ UNCHANGED <<start, wire, lengths, datas, feedback>>

(* The instance of a node that is not the root exists once a message for   *)
(* it has arrived; the timeout is over before it reads that message.       *)
AnnouncementTimeout(n) ==
  /\ Faults
  /\ pc[n] = "announcement" /\ n \in down
  /\ pc' = [pc EXCEPT ![n] = "failed"]
  /\ down' = down \ {n}
  /\ UNCHANGED <<start, wire, lengths, datas, contribution, feedback>>

(* The messages of one child arrive in order; those of several children in *)
(* any order.                                                              *)
Deliver(c) ==
  /\ c # Root /\ wire[c] # <<>>
  /\ LET n == Parent[c]
         m == Head(wire[c])
     IN  IF m.type = "length"
         THEN lengths' = [lengths EXCEPT ![n] = Append(@, m.value)] /\ UNCHANGED datas
         ELSE datas' = [datas EXCEPT ![n] = Append(@, m.value)] /\ UNCHANGED lengths
  /\ wire' = [wire EXCEPT ![c] = Tail(@)]
  /\ UNCHANGED <<start, pc, down, contribution, feedback>>

(* Mutants of AllChildrenSent: the parent goes on without its last child,  *)
(* or expects its own parent too.                                          *)
SomeChildrenSent(n) ==
  /\ Len(lengths[n]) + 1 >= Cardinality(Children(n))
  /\ Len(datas[n]) = Len(lengths[n])
NeighboursSent(n) == Len(datas[n]) = Cardinality(Children(n)) + 1

(* Each channel hands over its messages once every child has sent one.     *)
AllChildrenSent(n) ==
  /\ Len(lengths[n]) = Cardinality(Children(n))
  /\ Len(datas[n]) = Cardinality(Children(n))

(* The loop pairs the i-th length with the i-th data.                      *)
Collected(n) ==
  LET sum[i \in 0..Len(lengths[n])] ==
        IF i = 0 THEN contribution[n][1]
        ELSE AddVector(sum[i - 1], FromBytes(datas[n][i], lengths[n][i]))
  IN  sum[Len(lengths[n])]

UpMessages(v) == <<Length(Len(v)), Data(v)>>

(* With faults both messages may be lost, or the second one.               *)
SendUp(n, v) ==
  \/ /\ wire' = [wire EXCEPT ![n] = UpMessages(v)]
     /\ pc' = [pc EXCEPT ![n] = "done"]
  \/ /\ Faults
     /\ \E k \in {0, 1} : wire' = [wire EXCEPT ![n] = SubSeq(UpMessages(v), 1, k)]
     /\ pc' = [pc EXCEPT ![n] = "failed"]

(* ascendingKSPhase.  A node other than the root sends the sum up.         *)
AscendingKSPhase(n) ==
  /\ pc[n] = "ascend"
  /\ IsLeaf(n) \/ AllChildrenSent(n)
  /\ IF ~ IsLeaf(n) /\ contribution[n] = Nil
     THEN /\ pc' = [pc EXCEPT ![n] = "panicked"]
          /\ UNCHANGED <<wire, contribution>>
     ELSE /\ contribution' = IF IsLeaf(n) THEN contribution
                             ELSE [contribution EXCEPT ![n] = <<Collected(n)>>]
          /\ IF n = Root THEN pc' = [pc EXCEPT ![n] = "report"] /\ UNCHANGED wire
             ELSE SendUp(n, contribution'[n][1])
  /\ UNCHANGED <<start, down, lengths, datas, feedback>>

(* The root adds the right halves of its ciphertexts to the total.  When   *)
(* it has no children it may come here before Start has set                *)
(* NodeContribution, which is a nil pointer then.                          *)
ReportResult ==
  /\ pc[Root] = "report"
  /\ IF contribution[Root] = Nil /\ Target # <<>>
     THEN pc' = [pc EXCEPT ![Root] = "panicked"] /\ UNCHANGED feedback
     ELSE /\ feedback' = feedback \cup
               {[i \in DOMAIN Target |->
                   [K |-> contribution[Root][1][i].K,
                    C |-> contribution[Root][1][i].C + Target[i].C]]}
          /\ pc' = [pc EXCEPT ![Root] = "done"]
  /\ UNCHANGED <<start, down, wire, lengths, datas, contribution>>

Step(n) ==
  \/ AnnouncementKSPhase(n) \/ AnnouncementTimeout(n)
  \/ Deliver(n) \/ AscendingKSPhase(n)

Next ==
  \/ StartContribution \/ StartAnnouncement \/ ReportResult
  \/ \E n \in Node : Step(n)

Spec == Init /\ [][Next]_vars

(* Both goroutines of the root run, and every node handles what it         *)
(* receives; nothing has to fail.                                          *)
FairSpec ==
  /\ Spec
  /\ WF_vars(StartContribution \/ StartAnnouncement)
  /\ WF_vars(ReportResult)
  /\ \A n \in Node : WF_vars(Step(n))

-----------------------------------------------------------------------------
DecryptNew(ct) == ct.C - NewPriv * ct.K
DecryptCollective(ct) == ct.C - KeySum[Node] * ct.K

(* The new key decrypts the result to what the collective key decrypts the *)
(* target to: every node's share is removed exactly once.                  *)
SwitchKeepsPlaintext ==
  \A result \in feedback : \A i \in DOMAIN Target :
    DecryptNew(result[i]) = DecryptCollective(Target[i])

(* Whatever goes up the tree has removed the key shares of the sender's    *)
(* subtree and no others, and hides it with the new key only.              *)
SubtreeSharesRemoved ==
  \A n \in Node : pc[n] \in {"report", "done"} /\ contribution[n] # Nil =>
    \A i \in DOMAIN Target :
      DecryptNew(contribution[n][1][i]) = - KeySum[Below[n]] * Target[i].K

(* The root's Dispatch never reads a NodeContribution that Start has not   *)
(* set: it waits for a child, which only answers what Start sends last.    *)
ContributionSetBeforeUse ==
  /\ pc[Root] # "panicked"
  /\ pc[Root] = "report" => contribution[Root] # Nil

(* The root gets its result, unless a node could not send, stopped waiting *)
(* or panicked.                                                            *)
RootGetsResult ==
  <>(\/ feedback # {}
     \/ start = "failed"
     \/ \E n \in Node : pc[n] \in {"failed", "panicked"})
=============================================================================
