------------------------ MODULE CollectiveAggregation ------------------------
(***************************************************************************)
(* The collective aggregation protocol (protocols/                         *)
(* collective_aggregation_protocol.go): the root of a tree triggers the    *)
(* aggregation, every node adds what its children send to its own grouped  *)
(* data and sends the sum to its parent, as two messages: the lengths that *)
(* are needed to parse the data, and the data.                             *)
(*                                                                         *)
(* A ciphertext is represented by the integer it encrypts, which is what   *)
(* adding ciphertexts adds.  The data of a node maps the tag of a group to *)
(* the vector of that group's aggregating attributes.                      *)
(***************************************************************************)
EXTENDS Integers, Sequences, FiniteSets, FiniteSetsExt

CONSTANTS
  Node,       \* the nodes of the tree
  Root,
  Parent,     \* the parent of each other node
  Below,      \* the nodes of the subtree of each node
  EMPTYKEY,   \* the group of data given as a simple vector
  Inputs,     \* what the nodes may be given: the nodes with GroupedData,
              \* each with its data, and those with SimpleData
  Timeouts    \* a node may give up waiting for the announcement

ASSUME TreeAssumption ==
  /\ IsFiniteSet(Node) /\ Root \in Node
  /\ Parent \in [Node \ {Root} -> Node]
ASSUME DataAssumption ==
  \A given \in Inputs :
    /\ DOMAIN given.Grouped \cup DOMAIN given.Simple \subseteq Node
    /\ \A n \in DOMAIN given.Grouped :
         given.Grouped[n] \in [DOMAIN given.Grouped[n] -> Seq(Int)]
    /\ given.Simple \in [DOMAIN given.Simple -> Seq(Int)]
ASSUME ModeAssumption == Timeouts \in BOOLEAN

VARIABLES
  input,      \* what the nodes are given
  pc,         \* where each node's Dispatch is
  started,    \* the root has called Start
  trigger,    \* nodes with a DataReferenceMessage in flight
  wire,       \* messages of each node to its parent, in order
  lengths,    \* CADBLengthMessages arrived at each node, in order of arrival
  datas,      \* ChildAggregatedDataBytesMessages arrived, likewise
  grouped,    \* p.GroupedData of each node
  feedback    \* what the root has put into FeedbackChannel

vars == <<input, pc, started, trigger, wire, lengths, datas, grouped, feedback>>

Children(n) == {c \in Node \ {Root} : Parent[c] = n}
IsLeaf(n) == Children(n) = {}

(* In a tree a node is not in the subtree of its child, and the subtrees   *)
(* of two children have no node in common.                                 *)
ASSUME BelowAssumption ==
  /\ Below \in [Node -> SUBSET Node]
  /\ Below[Root] = Node
  /\ \A n \in Node :
       /\ Below[n] = {n} \cup UNION {Below[c] : c \in Children(n)}
       /\ \A c \in Children(n) : n \notin Below[c]
       /\ \A c, d \in Children(n) : c # d => Below[c] \cap Below[d] = {}

-----------------------------------------------------------------------------
(* Grouped data.                                                           *)
NoGroup == [k \in {} |-> <<>>]

Longest(u, v) == IF Len(u) > Len(v) THEN Len(u) ELSE Len(v)
Shortest(u, v) == IF Len(u) > Len(v) THEN Len(v) ELSE Len(u)
Entry(v, i) == IF i \in DOMAIN v THEN v[i] ELSE 0

(* Mutant of AddVectors: the longer vector is cut instead of the shorter   *)
(* one being filled up with encryptions of zero.                           *)
AddShortest(u, v) == [i \in 1..Shortest(u, v) |-> u[i] + v[i]]

(* Vectors of different lengths are filled up with encryptions of zero.    *)
AddVectors(u, v) == [i \in 1..Longest(u, v) |-> Entry(u, i) + Entry(v, i)]

AddData(f, g) ==
  [k \in DOMAIN f \cup DOMAIN g |->
     IF k \notin DOMAIN g THEN f[k]
     ELSE IF k \notin DOMAIN f THEN g[k] ELSE AddVectors(f[k], g[k])]

(* The lengths ToBytes reports are those of one of the groups, 0 if there  *)
(* is none.                                                                *)
Width(f) == IF DOMAIN f = {} THEN 0 ELSE Len(f[CHOOSE k \in DOMAIN f : TRUE])

(* FromBytes cuts the bytes into elements of the length it is told: none   *)
(* when that is 0 or more than there is, several when it is less; pieces   *)
(* of the data of one tag have that tag and end up added to each other.    *)
FromBytes(f, width) ==
  LET pieces(v) == {j * width : j \in 0..(Len(v) \div width) - 1}
      long == {k \in DOMAIN f : Len(f[k]) >= width}
  IN  IF width = 0 THEN NoGroup
      ELSE [k \in long |->
              [i \in 1..width |-> MapThenSumSet(LAMBDA j : f[k][i + j], pieces(f[k]))]]

-----------------------------------------------------------------------------
(* checkData: exactly one of the two data references is set; simple data   *)
(* becomes grouped data with one group, or none if the vector is empty.    *)
HasData(n) == (n \in DOMAIN input.Grouped) # (n \in DOMAIN input.Simple)

OwnData(n) ==
  IF n \in DOMAIN input.Grouped THEN input.Grouped[n]
  ELSE IF input.Simple[n] = <<>> THEN NoGroup
  ELSE [k \in {EMPTYKEY} |-> input.Simple[n]]

Length(w) == [type |-> "length", value |-> w]
Data(f) == [type |-> "data", value |-> f]

Messages(f) == <<Length(Width(f)), Data(f)>>

Init ==
  /\ input \in Inputs
  /\ pc = [n \in Node |-> "check"]
  /\ started = FALSE
  /\ trigger = {}
  /\ wire = [n \in Node |-> <<>>]
  /\ lengths = [n \in Node |-> <<>>]
  /\ datas = [n \in Node |-> <<>>]
  /\ grouped = [n \in Node |-> NoGroup]
  /\ feedback = {}

Start ==
  /\ ~ started
  /\ started' = TRUE
  /\ trigger' = Children(Root)
  /\ UNCHANGED <<input, pc, wire, lengths, datas, grouped, feedback>>

(* The instance of a node other than the root is created, and its Dispatch *)
(* begins, with the first message for it.                                  *)
CheckData(n) ==
  /\ pc[n] = "check"
  /\ n # Root => n \in trigger
  /\ IF HasData(n)
     THEN /\ grouped' = [grouped EXCEPT ![n] = OwnData(n)]
          /\ pc' = [pc EXCEPT ![n] = IF n = Root THEN "ascend" ELSE "announcement"]
     ELSE /\ pc' = [pc EXCEPT ![n] = "failed"]
          /\ UNCHANGED grouped
  /\ UNCHANGED <<input, started, trigger, wire, lengths, datas, feedback>>

AggregationAnnouncement(n) ==
  /\ pc[n] = "announcement"
  /\ n \in trigger
  /\ trigger' = (trigger \ {n}) \cup Children(n)
  /\ pc' = [pc EXCEPT ![n] = "ascend"]
  /\ UNCHANGED <<input, started, wire, lengths, datas, grouped, feedback>>

AnnouncementTimeout(n) ==
  /\ Timeouts
  /\ pc[n] = "announcement"
  /\ pc' = [pc EXCEPT ![n] = "failed"]
  /\ UNCHANGED <<input, started, trigger, wire, lengths, datas, grouped, feedback>>

(* The messages of one child arrive in order; those of several children in *)
(* any order.                                                              *)
Deliver(c) ==
  /\ c # Root /\ wire[c] # <<>>
  /\ LET n == Parent[c]
         m == Head(wire[c])
     IN  IF m.type = "length"
         THEN lengths' = [lengths EXCEPT ![n] = Append(@, m.value)] /\ UNCHANGED datas
         ELSE datas' = [datas EXCEPT ![n] = Append(@, m.value)] /\ UNCHANGED lengths
  /\ wire' = [wire EXCEPT ![c] = Tail(@)]
  /\ UNCHANGED <<input, pc, started, trigger, grouped, feedback>>

(* Both channels hand over what they received once every child has sent;   *)
(* the loop pairs the i-th length with the i-th data.                      *)
Collected(n) ==
  LET sum[i \in 0..Len(lengths[n])] ==
        IF i = 0 THEN grouped[n]
        ELSE AddData(sum[i - 1], FromBytes(datas[n][i], lengths[n][i]))
  IN  sum[Len(lengths[n])]

(* Mutants: the parent goes on without its last child.                     *)
SomeChildrenSent(n) ==
  /\ Len(lengths[n]) + 1 >= Cardinality(Children(n))
  /\ Len(datas[n]) = Len(lengths[n])
(* The parent expects data from its own parent too.                        *)
NeighboursSent(n) ==
  /\ Len(lengths[n]) = Cardinality(Children(n)) + 1
  /\ Len(datas[n]) = Len(lengths[n])

AllChildrenSent(n) ==
  /\ Len(lengths[n]) = Cardinality(Children(n))
  /\ Len(datas[n]) = Cardinality(Children(n))

AscendingAggregation(n) ==
  /\ pc[n] = "ascend"
  /\ IsLeaf(n) \/ AllChildrenSent(n)
  /\ LET sum == IF IsLeaf(n) THEN grouped[n] ELSE Collected(n)
     IN  /\ grouped' = [grouped EXCEPT ![n] = sum]
         /\ wire' = IF n = Root THEN wire ELSE [wire EXCEPT ![n] = Messages(sum)]
  /\ pc' = [pc EXCEPT ![n] = IF n = Root THEN "report" ELSE "done"]
  /\ UNCHANGED <<input, started, trigger, lengths, datas, feedback>>

ReportResult ==
  /\ pc[Root] = "report"
  /\ feedback' = feedback \cup {grouped[Root]}
  /\ pc' = [pc EXCEPT ![Root] = "done"]
  /\ UNCHANGED <<input, started, trigger, wire, lengths, datas, grouped>>

Step(n) ==
  \/ CheckData(n) \/ AggregationAnnouncement(n) \/ AnnouncementTimeout(n)
  \/ Deliver(n) \/ AscendingAggregation(n)

Next == Start \/ ReportResult \/ \E n \in Node : Step(n)

Spec == Init /\ [][Next]_vars
FairSpec == Spec /\ WF_vars(Start \/ ReportResult) /\ \A n \in Node : WF_vars(Step(n))

-----------------------------------------------------------------------------
TypeOK ==
  /\ input \in Inputs
  /\ pc \in [Node -> {"check", "announcement", "ascend", "report", "done", "failed"}]
  /\ started \in BOOLEAN
  /\ trigger \subseteq Node \ {Root}
  /\ \A n \in Node :
       /\ Len(wire[n]) <= 2
       /\ Len(lengths[n]) <= Cardinality(Children(n))
       /\ Len(datas[n]) <= Len(lengths[n])

(* Reference: group by group and position by position, the sum of what the *)
(* nodes were given.                                                       *)
GivenAt(n, k, i) ==
  IF HasData(n) /\ k \in DOMAIN OwnData(n) THEN Entry(OwnData(n)[k], i) ELSE 0

SumOver(S) ==
  LET keys == UNION {DOMAIN OwnData(n) : n \in S}
      length(k) == Max({Len(OwnData(n)[k]) : n \in {m \in S : k \in DOMAIN OwnData(m)}})
  IN  [k \in keys |-> [i \in 1..length(k) |-> MapThenSumSet(LAMBDA n : GivenAt(n, k, i), S)]]

(* The result is the aggregate of the data of every node, whatever the     *)
(* order in which the children's messages arrive and whoever gives up.     *)
ResultIsWholeSum == \A result \in feedback : result = SumOver(Node)

(* A node reports once, after all its children, and its children's data    *)
(* is in what it reports: nothing that arrives later is lost.              *)
NothingLeftBehind ==
  \A c \in Node \ {Root} :
    pc[Parent[c]] \in {"report", "done"} => pc[c] = "done" /\ wire[c] = <<>>

(* "the root sends down an aggregation trigger message ... these nodes     *)
(* forward the aggregation result up the tree": unless a node gives up or  *)
(* has no data, the root gets a result.                                    *)
RootGetsResult == <>(feedback # {} \/ \E n \in Node : pc[n] = "failed")
=============================================================================
