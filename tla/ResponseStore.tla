---------------------------- MODULE ResponseStore ----------------------------
(***************************************************************************)
(* What happens to the data of a survey: the responses that data providers *)
(* encrypt (services/api.go, lib/structs.go) go through the Store of their *)
(* server (lib/store/store.go) and the conversions between the protocols   *)
(* (protocols/tools_protocol.go) up to the answer the querier decrypts.    *)
(*                                                                         *)
(* A ciphertext is its plaintext, and a protocol does what its own module  *)
(* shows it to do: shuffling permutes the rows, tagging gives equal tags   *)
(* to equal plaintexts, aggregation adds, key switching keeps plaintexts.  *)
(* A phase is one action; the order in which messages, phases and copies   *)
(* of a survey can meet is the subject of SurveyService.                   *)
(***************************************************************************)
EXTENDS Integers, Sequences, FiniteSets, FiniteSetsExt, SequencesExt

CONSTANTS
  Server,      \* the roster
  Attribute,   \* the names of attributes, without "count"
  Inputs       \* the surveys that may be run: [query, uploads, queries, repetitions]

Field == {"GroupByClear", "GroupByEnc", "WhereClear", "WhereEnc",
          "AggregatingAttributesClear", "AggregatingAttributesEnc"}

IsSeq(s) == s \in Seq(Range(s))

(* A response of a data provider: six maps from some attributes to values. *)
DpClearResponse(r) ==
  /\ DOMAIN r = Field
  /\ \A f \in Field : DOMAIN r[f] \subseteq Attribute /\ r[f] \in [DOMAIN r[f] -> Int]

(* The predicate is a set of conjunctions of equalities between the        *)
(* parameters v0, v1, ...; the empty set is the empty predicate.           *)
Query ==
  [GroupBy : Seq(Attribute), Sum : Seq(Attribute \cup {"count"}),
   Where : Seq([Name : Attribute, Value : Int]), Count : BOOLEAN,
   Predicate : SUBSET SUBSET (Nat \X Nat)]

(* A predicate names parameters that exist: FilterResponses drops the      *)
(* error of an evaluation, and the conversion of a nil result panics.      *)
PredicateFits(q) ==
  \A conj \in q.Predicate : \A eq \in conj : {eq[1], eq[2]} \subseteq 0..(2 * Len(q.Where) - 1)

ASSUME ServerAssumption ==
  IsFiniteSet(Server) /\ Server # {} /\ IsFiniteSet(Attribute)

ASSUME InputsAssumption ==
  \A i \in Inputs :
    /\ i.query \in Query /\ PredicateFits(i.query)
    /\ i.queries \in Nat \ {0} /\ i.repetitions \in Nat \ {0}
    /\ DOMAIN i.uploads = Server
    /\ \A s \in Server :
         /\ IsSeq(i.uploads[s])
         /\ \A u \in Range(i.uploads[s]) : IsSeq(u) /\ \A r \in Range(u) : DpClearResponse(r)

VARIABLES
  in,         \* the survey
  uploaded,   \* how many uploads each server has had
  inserted,   \* how many responses of the next one it has stored
  tokens,     \* the tokens in each server's DpChannel
  store,      \* the Store of each server
  pc,         \* the phase each server is in
  asked,      \* how many queries for results there were
  answer,     \* what the querier got last
  received,   \* (history) the responses inserted since the last pull
  answered,   \* (history) the responses pulled for the query that runs
  published   \* (history) the proofs of the local aggregation of each server

vars == <<in, uploaded, inserted, tokens, store, pc, asked, answer, received, answered, published>>

query == in.query

(* An entry of a map is set.                                               *)
Put(map, key, value) ==
  [k \in DOMAIN map \cup {key} |-> IF k = key THEN value ELSE map[k]]

(* What a loop over s appends of it.                                       *)
Kept(s, keep) ==
  LET kept[n \in 0..Len(s)] ==
        IF n = 0 THEN <<>> ELSE IF keep[n] THEN Append(kept[n - 1], s[n]) ELSE kept[n - 1]
  IN  kept[Len(s)]

(* Every order in which a set can be gone through.                         *)
Orders(S) ==
  {f \in [1..Cardinality(S) -> S] : \A i, j \in DOMAIN f : f[i] = f[j] => i = j}

-----------------------------------------------------------------------------
(* The data provider.                                                      *)

(* "count" is one more encrypted attribute, 1 in every response.           *)
EncryptDpClearResponse(r, count) ==
  IF count
  THEN [r EXCEPT !.AggregatingAttributesEnc = Put(@, "count", 1)]
  ELSE r

(* Each response is sent as often as repetitions says.                     *)
EncryptDataToSurvey(rs, count, repetitions) ==
  [k \in 1..(Len(rs) * repetitions) |->
     EncryptDpClearResponse(rs[((k - 1) \div repetitions) + 1], count)]

-----------------------------------------------------------------------------
(* The store.                                                              *)

NewStore ==
  [DpResponses |-> <<>>, DpResponsesAggr |-> <<>>, ShuffledProcessResponses |-> <<>>,
   LocAggregatedProcessResponse |-> <<>>, GroupedDeterministicFilteredResponses |-> <<>>,
   DeliverableResults |-> <<>>]

(* Mutant of proccessParameters: an attribute that a response does not     *)
(* have is left out.                                                       *)
PresentParameters(data, clear, encrypted, noEnc) ==
  LET present == SelectSeq(data, LAMBDA v : v \in DOMAIN clear \cup DOMAIN encrypted)
  IN  [i \in DOMAIN present |-> IF present[i] \in DOMAIN encrypted THEN encrypted[present[i]]
                                ELSE clear[present[i]]]

(* An attribute that a response does not have counts as 0.                 *)
proccessParameters(data, clear, encrypted, noEnc) ==
  [i \in DOMAIN data |->
     IF ~ noEnc /\ data[i] \in DOMAIN encrypted THEN encrypted[data[i]]
     ELSE IF data[i] \in DOMAIN clear THEN clear[data[i]] ELSE 0]

(* CipherVector.Add.                                                       *)
AddVectors(a, b) == [i \in DOMAIN a |-> a[i] + b[i]]

(* A map that arrives empty is nil.                                        *)
NoEnc(cr) == DOMAIN cr.WhereEnc = {} /\ DOMAIN cr.GroupByEnc = {}

WhereNames(q) == [i \in DOMAIN q.Where |-> q.Where[i].Name]

NewResponse(cr, q) ==
  [GroupByEnc |-> proccessParameters(q.GroupBy, cr.GroupByClear, cr.GroupByEnc, NoEnc(cr)),
   WhereEnc |-> proccessParameters(WhereNames(q), cr.WhereClear, cr.WhereEnc, NoEnc(cr)),
   AggregatingAttributes |->
     proccessParameters(q.Sum, cr.AggregatingAttributesClear, cr.AggregatingAttributesEnc, FALSE)]

(* Responses whose group by and where attributes are all clear are added   *)
(* up under the two keys at once; the others are appended.                 *)
InsertDpResponse(st, cr, q) ==
  LET newResp == NewResponse(cr, q)
      key == <<newResp.GroupByEnc, newResp.WhereEnc>>
      map == st.DpResponsesAggr
  IN  IF ~ NoEnc(cr) THEN [st EXCEPT !.DpResponses = Append(@, newResp)]
      ELSE IF key \notin DOMAIN map THEN [st EXCEPT !.DpResponsesAggr = Put(@, key, newResp)]
      ELSE [st EXCEPT !.DpResponsesAggr[key].AggregatingAttributes =
                        AddVectors(@, newResp.AggregatingAttributes)]

(* The slice, then the entries of the map in any order.  The slice is      *)
(* emptied, the map is not.                                                *)
PullDpResponses(st) ==
  {st.DpResponses \o [i \in DOMAIN order |-> st.DpResponsesAggr[order[i]]]
     : order \in Orders(DOMAIN st.DpResponsesAggr)}

(* Mutant of AddInMap: the entry is replaced.                              *)
PutInMap(map, key, added) == Put(map, key, added)

AddInMap(map, key, added) ==
  IF key \notin DOMAIN map THEN Put(map, key, added)
  ELSE [map EXCEPT ![key].AggregatingAttributes =
                     AddVectors(@, added.AggregatingAttributes)]

(* FormatAggregationProofs for a sequence of responses: for each group and *)
(* attribute, the values that are added.                                   *)
FormatAggregationProofs(det) ==
  [key \in {det[i].DetTagGroupBy : i \in DOMAIN det} |->
     LET own == Kept(det, [i \in DOMAIN det |-> det[i].DetTagGroupBy = key])
     IN  [a \in DOMAIN own[1].Fr.AggregatingAttributes |->
            [i \in DOMAIN own |-> own[i].Fr.AggregatingAttributes[a]]]]

(* A proof for each group: the values and the sum that the map holds.      *)
AggregationProofs(map, det) ==
  LET data == FormatAggregationProofs(det)
  IN  {[Data |-> data[key], AggregationResult |-> map[key].AggregatingAttributes]
         : key \in DOMAIN data}

PushDeterministicFilteredResponses(map, det) ==
  LET pushed[n \in 0..Len(det)] ==
        IF n = 0 THEN map ELSE AddInMap(pushed[n - 1], det[n].DetTagGroupBy, det[n].Fr)
  IN  pushed[Len(det)]

-----------------------------------------------------------------------------
(* Conversions.                                                            *)

(* Mutant of WithDummy: the row that is added repeats the values.          *)
WithCopy(pr) == IF Len(pr) = 1 THEN pr \o pr ELSE pr

(* One row alone gets a second one of the same group and where attributes, *)
(* with zeros to add.                                                      *)
WithDummy(pr) ==
  IF Len(pr) = 1
  THEN Append(pr, [pr[1] EXCEPT !.AggregatingAttributes = [a \in DOMAIN @ |-> 0]])
  ELSE pr

ProcessResponseToMatrixCipherText(pr) ==
  [i \in DOMAIN pr |-> pr[i].GroupByEnc \o pr[i].WhereEnc \o pr[i].AggregatingAttributes]

LengthsOf(pr) == [i \in DOMAIN pr |-> <<Len(pr[i].GroupByEnc), Len(pr[i].WhereEnc)>>]

MatrixCipherTextToProcessResponse(cv, lengths) ==
  [i \in DOMAIN lengths |->
     LET groupByEncPos == lengths[i][1]
         whereEncPos == groupByEncPos + lengths[i][2]
     IN  [GroupByEnc |-> SubSeq(cv[i], 1, groupByEncPos),
          WhereEnc |-> SubSeq(cv[i], groupByEncPos + 1, whereEncPos),
          AggregatingAttributes |-> SubSeq(cv[i], whereEncPos + 1, Len(cv[i]))]]

(* Where attributes come before group by attributes here.                  *)
ProcessResponseToCipherVector(pr) ==
  FlattenSeq([i \in DOMAIN pr |-> pr[i].WhereEnc \o pr[i].GroupByEnc])

Tag(m) == <<"tag", m>>

(* How many ciphertexts lie before those of response i.                    *)
Before(lengths, i) ==
  LET sum[j \in 0..Len(lengths)] == IF j = 0 THEN 0 ELSE sum[j - 1] + lengths[j]
  IN  sum[i - 1]

TaggedLengths(target) ==
  [i \in DOMAIN target |-> Len(target[i].WhereEnc) + Len(target[i].GroupByEnc)]

DeterCipherVectorToProcessResponseDet(detCt, target) ==
  [i \in DOMAIN target |->
     LET pos == Before(TaggedLengths(target), i) + 1
         group == pos + Len(target[i].WhereEnc)
     IN  [PR |-> target[i],
          DetTagWhere |-> SubSeq(detCt, pos, group - 1),
          DetTagGroupBy |-> SubSeq(detCt, group, group + Len(target[i].GroupByEnc) - 1)]]

FilteredResponseToCipherVector(fr) ==
  FlattenSeq([i \in DOMAIN fr |-> fr[i].GroupByEnc \o fr[i].AggregatingAttributes])

FilteredLengths(fr) ==
  [i \in DOMAIN fr |-> <<Len(fr[i].GroupByEnc), Len(fr[i].AggregatingAttributes)>>]

WholeLengths(lengths) == [i \in DOMAIN lengths |-> lengths[i][1] + lengths[i][2]]

CipherVectorToFilteredResponse(cv, lengths) ==
  [i \in DOMAIN lengths |->
     LET pos == Before(WholeLengths(lengths), i) + 1
         group == pos + lengths[i][1]
     IN  [GroupByEnc |-> SubSeq(cv, pos, group - 1),
          AggregatingAttributes |-> SubSeq(cv, group, group + lengths[i][2] - 1)]]

-----------------------------------------------------------------------------
(* The filter.                                                             *)

(* v0, v2, ... are the tags of the query's values, v1, v3, ... those of    *)
(* the response.                                                           *)
Parameters(queryTags, whereTags) ==
  [i \in 0..(2 * Len(queryTags) - 1) |->
     IF i % 2 = 0 THEN queryTags[(i \div 2) + 1] ELSE whereTags[(i \div 2) + 1]]

(* Evaluation by govaluate.                                                *)
Evaluate(predicate, v) == \E conj \in predicate : \A eq \in conj : v[eq[1]] = v[eq[2]]

Filtered(det) ==
  [DetTagGroupBy |-> det.DetTagGroupBy,
   Fr |-> [GroupByEnc |-> det.PR.GroupByEnc,
           AggregatingAttributes |-> det.PR.AggregatingAttributes]]

FilterNone(det) == [i \in DOMAIN det |-> Filtered(det[i])]

FilterResponses(predicate, queryTags, det) ==
  FilterNone(Kept(det, [i \in DOMAIN det |->
                          Evaluate(predicate, Parameters(queryTags, det[i].DetTagWhere))]))

-----------------------------------------------------------------------------
Init ==
  /\ in \in Inputs
  /\ uploaded = [s \in Server |-> 0]
  /\ inserted = [s \in Server |-> 0]
  /\ tokens = [s \in Server |-> 0]
  /\ store = [s \in Server |-> NewStore]
  /\ pc = [s \in Server |-> "idle"]
  /\ asked = 0
  /\ answer = <<>>
  /\ received = [s \in Server |-> <<>>]
  /\ answered = [s \in Server |-> <<>>]
  /\ published = [s \in Server |-> {}]

(* MapDPs: the data providers of a server, each of which has one upload    *)
(* for each query.                                                         *)
NbrDPs(s) == Len(in.uploads[s]) \div in.queries

Upload(s) ==
  EncryptDataToSurvey(in.uploads[s][uploaded[s] + 1], query.Count, in.repetitions)

(* The loop of PushData.                                                   *)
PushData(s) ==
  /\ uploaded[s] < Len(in.uploads[s]) /\ inserted[s] < Len(Upload(s))
  /\ LET cr == Upload(s)[inserted[s] + 1]
     IN  /\ store' = [store EXCEPT ![s] = InsertDpResponse(@, cr, query)]
         /\ received' = [received EXCEPT ![s] = Append(@, cr)]
  /\ inserted' = [inserted EXCEPT ![s] = @ + 1]
  /\ UNCHANGED <<in, uploaded, tokens, pc, asked, answer, answered, published>>

(* HandleSurveyResponseQuery after it.                                     *)
SendDpToken(s) ==
  /\ uploaded[s] < Len(in.uploads[s]) /\ inserted[s] = Len(Upload(s))
  /\ uploaded' = [uploaded EXCEPT ![s] = @ + 1]
  /\ inserted' = [inserted EXCEPT ![s] = 0]
  /\ tokens' = [tokens EXCEPT ![s] = @ + 1]
  /\ UNCHANGED <<in, store, pc, asked, answer, received, answered, published>>

(* A querier asks, and all servers learn of it.                            *)
HandleSurveyResultsQuery ==
  /\ asked < in.queries
  /\ \A s \in Server : pc[s] = "idle"
  /\ asked' = asked + 1
  /\ pc' = [s \in Server |-> "waiting"]
  /\ UNCHANGED <<in, uploaded, inserted, tokens, store, answer, received, answered, published>>

(* The responses of this query's data providers are there.                 *)
StartService(s) ==
  /\ pc[s] = "waiting"
  /\ tokens[s] >= NbrDPs(s)
  /\ tokens' = [tokens EXCEPT ![s] = @ - NbrDPs(s)]
  /\ pc' = [pc EXCEPT ![s] = "shuffling"]
  /\ UNCHANGED <<in, uploaded, inserted, store, asked, answer, received, answered, published>>

(* The rows come back in another order, the lengths stay as they were.     *)
ShufflingPhase(s) ==
  /\ pc[s] = "shuffling"
  /\ pc' = [pc EXCEPT ![s] = "tagging"]
  /\ IF store[s].DpResponses = <<>> /\ store[s].DpResponsesAggr = <<>>
     THEN UNCHANGED store
     ELSE \E pulled \in PullDpResponses(store[s]) :
            LET pr == WithDummy(pulled)
                matrix == ProcessResponseToMatrixCipherText(pr)
            IN  \E pi \in Orders(DOMAIN matrix) :
                  store' = [store EXCEPT ![s].DpResponses = <<>>,
                              ![s].ShuffledProcessResponses =
                                @ \o MatrixCipherTextToProcessResponse(
                                       [i \in DOMAIN pi |-> matrix[pi[i]]], LengthsOf(pr))]
  /\ received' = [received EXCEPT ![s] = <<>>]
  /\ answered' = [answered EXCEPT ![s] = received[s]]
  /\ UNCHANGED <<in, uploaded, inserted, tokens, asked, answer, published>>

(* The values of the query are tagged together with the responses, as      *)
(* responses of their own, first.                                          *)
QueryWhereToTag(q) ==
  [i \in DOMAIN q.Where |->
     [WhereEnc |-> <<q.Where[i].Value>>, GroupByEnc |-> <<>>, AggregatingAttributes |-> <<>>]]

TaggedAndFiltered(q, rows) ==
  LET nbrWhere == Len(q.Where)
      target == QueryWhereToTag(q) \o rows
      cv == ProcessResponseToCipherVector(target)
      det == DeterCipherVectorToProcessResponseDet([i \in DOMAIN cv |-> Tag(cv[i])], target)
      queryTags == [i \in 1..nbrWhere |-> det[i].DetTagWhere[1]]
      responses == SubSeq(det, nbrWhere + 1, Len(det))
  IN  IF q.Predicate = {} \/ nbrWhere = 0 THEN FilterNone(responses)
      ELSE FilterResponses(q.Predicate, queryTags, responses)

TaggingPhase(s) ==
  /\ pc[s] = "tagging"
  /\ pc' = [pc EXCEPT ![s] = "tagged"]
  /\ IF store[s].ShuffledProcessResponses = <<>>
     THEN UNCHANGED <<store, published>>
     ELSE LET filtered == TaggedAndFiltered(query, store[s].ShuffledProcessResponses)
              map == PushDeterministicFilteredResponses(store[s].LocAggregatedProcessResponse, filtered)
          IN  /\ store' = [store EXCEPT ![s].ShuffledProcessResponses = <<>>,
                                        ![s].LocAggregatedProcessResponse = map]
              /\ published' = [published EXCEPT ![s] = AggregationProofs(map, filtered)]
  /\ UNCHANGED <<in, uploaded, inserted, tokens, asked, answer, received, answered>>

(* Every entry of one map goes into another.                               *)
PushCothorityAggregatedFilteredResponses(map, sNew) ==
  FoldSet(LAMBDA key, m : AddInMap(m, key, sNew[key]), map, DOMAIN sNew)

(* Every server gives its map away; the sum, formed in the same way, is    *)
(* the root's.                                                             *)
Aggregated(maps) ==
  FoldSet(LAMBDA s, sum : PushCothorityAggregatedFilteredResponses(sum, maps[s]), <<>>, DOMAIN maps)

AggregationPhase(root) ==
  /\ \A s \in Server : pc[s] = "tagged"
  /\ pc' = [s \in Server |-> IF s = root THEN "switching" ELSE "idle"]
  /\ LET grouped == Aggregated([s \in Server |-> store[s].LocAggregatedProcessResponse])
         own == store[root].GroupedDeterministicFilteredResponses
     IN  store' = [s \in Server |->
           [store[s] EXCEPT
              !.LocAggregatedProcessResponse = <<>>,
              !.GroupedDeterministicFilteredResponses =
                IF s = root THEN PushCothorityAggregatedFilteredResponses(own, grouped) ELSE @]]
  /\ UNCHANGED <<in, uploaded, inserted, tokens, asked, answer, received, answered, published>>

KeySwitchingPhase(root) ==
  /\ pc[root] = "switching"
  /\ pc' = [pc EXCEPT ![root] = "answering"]
  /\ LET map == store[root].GroupedDeterministicFilteredResponses
     IN  \E order \in Orders(DOMAIN map) :
           LET coaggr == [i \in DOMAIN order |-> map[order[i]]]
               cv == FilteredResponseToCipherVector(coaggr)
           IN  store' = [store EXCEPT
                           ![root].GroupedDeterministicFilteredResponses = <<>>,
                           ![root].DeliverableResults =
                              CipherVectorToFilteredResponse(cv, FilteredLengths(coaggr))]
  /\ UNCHANGED <<in, uploaded, inserted, tokens, asked, answer, received, answered, published>>

(* PullDeliverableResults, and the querier decrypts.                       *)
Answer(root) ==
  /\ pc[root] = "answering"
  /\ pc' = [pc EXCEPT ![root] = "idle"]
  /\ answer' = store[root].DeliverableResults
  /\ store' = [store EXCEPT ![root].DeliverableResults = <<>>]
  /\ UNCHANGED <<in, uploaded, inserted, tokens, asked, received, answered, published>>

Next ==
  \/ HandleSurveyResultsQuery
  \/ \E s \in Server :
       \/ PushData(s) \/ SendDpToken(s) \/ StartService(s) \/ ShufflingPhase(s) \/ TaggingPhase(s)
       \/ AggregationPhase(s) \/ KeySwitchingPhase(s) \/ Answer(s)

Spec == Init /\ [][Next]_vars

-----------------------------------------------------------------------------
(* What the querier asked for, over clear responses.                       *)
Value(clear, enc, v) ==
  IF v \in DOMAIN enc THEN enc[v] ELSE IF v \in DOMAIN clear THEN clear[v] ELSE 0

GroupOf(r) == [i \in DOMAIN query.GroupBy |-> Value(r.GroupByClear, r.GroupByEnc, query.GroupBy[i])]

Matches(r) ==
  \/ query.Predicate = {} \/ query.Where = <<>>
  \/ \E conj \in query.Predicate : \A eq \in conj :
       LET v(i) == LET w == query.Where[(i \div 2) + 1]
                   IN  IF i % 2 = 0 THEN w.Value ELSE Value(r.WhereClear, r.WhereEnc, w.Name)
       IN  v(eq[1]) = v(eq[2])

SumOf(r, i) == Value(r.AggregatingAttributesClear, r.AggregatingAttributesEnc, query.Sum[i])

(* The matching responses of a server, by position.                        *)
Matching(s) == {<<s, k>> : k \in {k \in DOMAIN answered[s] : Matches(answered[s][k])}}

GroupBySum ==
  LET all == UNION {Matching(s) : s \in Server}
      At(x) == answered[x[1]][x[2]]
  IN  {[GroupByEnc |-> g,
        AggregatingAttributes |->
          [i \in DOMAIN query.Sum |->
             MapThenSumSet(LAMBDA x : SumOf(At(x), i), {x \in all : GroupOf(At(x)) = g})]]
        : g \in {GroupOf(At(x)) : x \in all}}

(* The querier is told each group once, with the sums over exactly the     *)
(* matching responses that were received for this query, whatever mix of   *)
(* clear, encrypted and missing attributes they had and however shuffling, *)
(* maps and servers ordered them.                                          *)
AnswerIsGroupBySum ==
  (asked > 0 /\ \A s \in Server : pc[s] = "idle")
    => /\ Range(answer) = GroupBySum
       /\ Len(answer) = Cardinality(GroupBySum)

(* The published proofs of local aggregation hold: the values add up to    *)
(* what is in the map.                                                     *)
AggregationProofsHold ==
  \A s \in Server : \A p \in published[s] :
    /\ Len(p.Data) = Len(p.AggregationResult)
    /\ \A a \in DOMAIN p.Data :
         MapThenSumSet(LAMBDA i : p.Data[a][i], DOMAIN p.Data[a]) = p.AggregationResult[a]

(* Rows come back from the shuffle in another order, and are cut with the  *)
(* lengths of the rows that were there before: all rows a server shuffles  *)
(* have the same lengths, and so have the sums it adds up.                 *)
LengthsUniform ==
  \A s \in Server :
    \A p \in Range(store[s].DpResponses)
              \cup {store[s].DpResponsesAggr[k] : k \in DOMAIN store[s].DpResponsesAggr}
              \cup Range(store[s].ShuffledProcessResponses) :
      /\ Len(p.GroupByEnc) = Len(query.GroupBy)
      /\ Len(p.WhereEnc) = Len(query.Where)
      /\ Len(p.AggregatingAttributes) = Len(query.Sum)
=============================================================================
