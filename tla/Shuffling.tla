------------------------------- MODULE Shuffling -------------------------------
(***************************************************************************)
(* The shuffling protocol (protocols/shuffling_protocol.go, lib/shuffle)   *)
(* with the conversions the service makes around it (protocols/            *)
(* tools_protocol.go).  The root turns its responses into a matrix of      *)
(* ciphertexts, permutes and rerandomizes its rows and sends it round a    *)
(* circuit in which every other server does the same.                      *)
(*                                                                         *)
(* The rerandomization adds b g, b h to a ciphertext, with h the           *)
(* collective key.  A server takes these pairs from values computed at the *)
(* creation of the survey; an app keeps them in a file, and reads that     *)
(* file in later surveys.                                                  *)
(*                                                                         *)
(* A point is represented by its discrete logarithm, an integer.           *)
(***************************************************************************)
EXTENDS ShufflingCircuit

CONSTANTS
  Collective, \* the collective key, Roster().Aggregate
  Inputs      \* the surveys that may be run, see Survey

Response == [key : Seq(Ciphertext), agg : Seq(Ciphertext)]
Precomputation == [key : Int, width : Nat]

(* A survey as far as shuffling sees it: the root's responses (where and   *)
(* group-by attributes, and aggregating ones), lineSize of the query,      *)
(* whether precomputed values are kept in a file, and the file an earlier  *)
(* survey left at each server: nothing, or its key and width.              *)
Survey == [Responses : Seq(Response) \ {<<>>}, LineSize : Nat, AppFlag : BOOLEAN,
           OldFile : [Server -> Seq(Precomputation)]]

(* ShufflingPhase does not start the protocol without responses.           *)
ASSUME DataAssumption ==
  Collective \in Int /\ \A survey \in Inputs : survey \in Survey

VARIABLES
  input,        \* the survey
  file,         \* the .gob file of each server: nothing or one value
  precomputed,  \* ShufflePrecompute of each server: nothing or one value
  pc,           \* where Dispatch is, at each server
  begun,        \* where the root's Start is
  lengths,      \* LengthNodeChannel of each server
  datas,        \* PreviousNodeInPathChannel of each server
  feedback      \* responses rebuilt from what is put into FeedbackChannel

vars == <<input, file, precomputed, pc, begun, lengths, datas, feedback>>

TypeOK ==
  /\ input \in Inputs
  /\ file \in [Server -> Seq(Precomputation)]
  /\ precomputed \in [Server -> Seq(Precomputation)]
  /\ pc \in [Server -> {"length", "data", "done", "failed", "panicked"}]
  /\ begun \in {"no", "done", "failed", "panicked"}
  /\ lengths \in [Server -> Seq(Seq(Nat))]
  /\ datas \in [Server -> Seq(Seq(Ciphertext))]
  /\ feedback \subseteq Seq(Response)

-----------------------------------------------------------------------------
(* Conversions.                                                            *)
Zero == [K |-> 0, C |-> 0]

(* A single response gets a second one with the same where and group-by    *)
(* attributes that adds zero to the aggregate.                             *)
WithDummy(rs) ==
  IF Len(rs) = 1
  THEN Append(rs, [rs[1] EXCEPT !.agg = [i \in DOMAIN @ |-> Zero]])
  ELSE rs

ToMatrix(rs) == [i \in DOMAIN rs |-> rs[i].key \o rs[i].agg]
Shape(rs) == [i \in DOMAIN rs |-> Len(rs[i].key)]

(* The i-th row is cut as the i-th response was, although the rows have    *)
(* been permuted.                                                          *)
FromMatrix(m, shape) ==
  [i \in DOMAIN m |-> [key |-> SubSeq(m[i], 1, shape[i]),
                       agg |-> SubSeq(m[i], shape[i] + 1, Len(m[i]))]]

-----------------------------------------------------------------------------
(* The key whose multiples a server adds, and how many it has per row.     *)
Pairs(s, m) ==
  IF precomputed[s] = <<>> THEN [key |-> Collective, width |-> NQ(m)]
  ELSE precomputed[s][1]

Shuffled(s, m, pi, b) == ShuffleWith(m, pi, b, Pairs(s, m).key)

Init ==
  /\ input \in Inputs
  /\ file = input.OldFile
  /\ precomputed = [s \in Server |-> <<>>]
  /\ pc = [s \in Server |-> "length"]
  /\ begun = "no"
  /\ lengths = [s \in Server |-> <<>>]
  /\ datas = [s \in Server |-> <<>>]
  /\ feedback = {}

(* Mutant of NewPrecomputation: a line has no room for the count.          *)
NoRoomForCount == [key |-> Collective, width |-> input.LineSize - 1]

NewPrecomputation == [key |-> Collective, width |-> 2 * input.LineSize]

(* What PrecomputationWritingForShuffling returns.                         *)
Precomputed(s) ==
  IF input.AppFlag /\ file[s] # <<>> THEN file[s] ELSE <<NewPrecomputation>>

(* The creation of the survey at a server.                                 *)
Precompute(s) ==
  /\ precomputed[s] = <<>>
  /\ precomputed' = [precomputed EXCEPT ![s] = Precomputed(s)]
  /\ file' = IF input.AppFlag THEN [file EXCEPT ![s] = Precomputed(s)] ELSE file
  /\ UNCHANGED <<input, pc, begun, lengths, datas, feedback>>

(* The two messages to the next server; the sending of either may fail.    *)
Send(s, m) ==
  LET next == NextInCircuit(List, s)
  IN  /\ lengths' = [lengths EXCEPT ![next] = Append(@, LengthsOf(m))]
      /\ datas' = [datas EXCEPT ![next] = Append(@, ToBytes(m))]

SendFails(s, m) ==
  /\ Faults
  /\ UNCHANGED datas
  /\ \/ UNCHANGED lengths
     \/ LET next == NextInCircuit(List, s)
        IN  lengths' = [lengths EXCEPT ![next] = Append(@, LengthsOf(m))]

(* Start, at the root.                                                     *)
Start ==
  LET r == Root(List)
      m == ToMatrix(WithDummy(input.Responses))
  IN  /\ begun = "no"
      /\ \A s \in Server : precomputed[s] # <<>>
      /\ IF Pairs(r, m).width < NQ(m)
         THEN begun' = "panicked" /\ UNCHANGED <<lengths, datas>>
         ELSE \E pi \in Permutation(Len(m)), b \in Blinding(m) :
                LET out == Shuffled(r, m, pi, b)
                IN  \/ (Send(r, out) /\ begun' = "done")
                    \/ (SendFails(r, out) /\ begun' = "failed")
      /\ UNCHANGED <<input, file, precomputed, pc, feedback>>

(* Dispatch: the first wait.                                               *)
ReceiveLength(s) ==
  /\ pc[s] = "length" /\ lengths[s] # <<>>
  /\ pc' = [pc EXCEPT ![s] = "data"]
  /\ UNCHANGED <<input, file, precomputed, begun, lengths, datas, feedback>>

Received(s) == FromBytes(Head(datas[s]), Head(lengths[s]))

(* Dispatch of a server other than the root.                               *)
ShuffleOn(s) ==
  LET m == Received(s)
  IN  /\ pc[s] = "data" /\ datas[s] # <<>> /\ s # Root(List)
      /\ IF Pairs(s, m).width < NQ(m)
         THEN pc' = [pc EXCEPT ![s] = "panicked"] /\ UNCHANGED <<lengths, datas>>
         ELSE \E pi \in Permutation(Len(m)), b \in Blinding(m) :
                LET out == Shuffled(s, m, pi, b)
                IN  \/ (Send(s, out) /\ pc' = [pc EXCEPT ![s] = "done"])
                    \/ (SendFails(s, out) /\ pc' = [pc EXCEPT ![s] = "failed"])
      /\ UNCHANGED <<input, file, precomputed, begun, feedback>>

(* Dispatch of the root: the matrix is back, ShufflingPhase rebuilds the   *)
(* responses.                                                              *)
Report ==
  LET r == Root(List)
  IN  /\ pc[r] = "data" /\ datas[r] # <<>>
      /\ feedback' = feedback \cup
           {FromMatrix(Received(r), Shape(WithDummy(input.Responses)))}
      /\ pc' = [pc EXCEPT ![r] = "done"]
      /\ UNCHANGED <<input, file, precomputed, begun, lengths, datas>>

(* Dispatch waits for each message for TIMEOUT: at the root from the       *)
(* start, at other servers from the arrival of the first message.          *)
TimeOut(s) ==
  /\ Faults
  /\ \/ pc[s] = "data"
     \/ pc[s] = "length" /\ s = Root(List)
  /\ pc' = [pc EXCEPT ![s] = "failed"]
  /\ UNCHANGED <<input, file, precomputed, begun, lengths, datas, feedback>>

Next ==
  \/ Start \/ Report
  \/ \E s \in Server :
       Precompute(s) \/ ReceiveLength(s) \/ ShuffleOn(s) \/ TimeOut(s)

Spec == Init /\ [][Next]_vars

(* Every server does what it can do; nothing has to fail.                  *)
FairSpec ==
  /\ Spec
  /\ WF_vars(Start) /\ WF_vars(Report)
  /\ \A s \in Server :
       WF_vars(Precompute(s)) /\ WF_vars(ReceiveLength(s)) /\ WF_vars(ShuffleOn(s))

-----------------------------------------------------------------------------
DecryptVector(v) == [i \in DOMAIN v |-> v[i].C - Collective * v[i].K]
Decrypt(rs) ==
  [i \in DOMAIN rs |-> [key |-> DecryptVector(rs[i].key), agg |-> DecryptVector(rs[i].agg)]]

(* "It rerandomizes and shuffles a list of ciphertexts": the responses the *)
(* service takes back are, in some order, encryptions of those it gave,    *)
(* and of one with zeros when there was one response only.                 *)
PlaintextsPreserved ==
  LET given == Decrypt(input.Responses)
      zeros == [given[1] EXCEPT !.agg = [i \in DOMAIN @ |-> 0]]
      expected == IF Len(given) = 1 THEN Append(given, zeros) ELSE given
  IN  \A rs \in feedback : \E pi \in Permutation(Len(expected)) :
        Decrypt(rs) = [i \in DOMAIN expected |-> expected[pi[i]]]

(* The root gets the matrix back only after every other server has         *)
(* shuffled it: nothing in a message tells the root so, only the order of  *)
(* the circuit.                                                            *)
ShuffledByAll ==
  pc[Root(List)] \in {"data", "done"} =>
    begun # "no" /\ \A s \in Server \ {Root(List)} : pc[s] \in {"done", "failed"}

(* "if beta file is bigger than query line responses" (shuffle.go:36): a   *)
(* row of precomputed values is cut to the length of the rows of the       *)
(* matrix, which panics when it is shorter.                                *)
PrecomputationFits == begun # "panicked" /\ \A s \in Server : pc[s] # "panicked"

(* The root gets its responses back, unless a server could not send,       *)
(* stopped waiting or panicked.                                            *)
ResponsesReturn ==
  <>(\/ feedback # {}
     \/ begun \in {"failed", "panicked"}
     \/ \E s \in Server : pc[s] \in {"failed", "panicked"})
=============================================================================
