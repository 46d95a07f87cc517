-------------------------- MODULE ResponseStoreProofs --------------------------
(* Proofs about ResponseStore, for every roster, every query and all       *)
(* responses.                                                              *)
EXTENDS ResponseStore, SequenceTheorems, FiniteSetTheorems, WellFoundedInduction, TLAPS

Vec(n) == {v \in Seq(Int) : Len(v) = n}

(* A response of the shape the query asks for.                             *)
Row(q) ==
  [GroupByEnc : Vec(Len(q.GroupBy)), WhereEnc : Vec(Len(q.Where)),
   AggregatingAttributes : Vec(Len(q.Sum))]

StoreField ==
  {"DpResponses", "DpResponsesAggr", "ShuffledProcessResponses", "LocAggregatedProcessResponse",
   "GroupedDeterministicFilteredResponses", "DeliverableResults"}

MapOf(map, R) ==
  /\ IsFiniteSet(DOMAIN map)
  /\ map = [k \in DOMAIN map |-> map[k]]
  /\ \A k \in DOMAIN map : map[k] \in R

StoreOK(st, q) ==
  /\ DOMAIN st = StoreField
  /\ st.DpResponses \in Seq(Row(q))
  /\ st.ShuffledProcessResponses \in Seq(Row(q))
  /\ MapOf(st.DpResponsesAggr, Row(q))

Inv ==
  /\ in \in Inputs
  /\ uploaded \in [Server -> Nat] /\ inserted \in [Server -> Nat]
  /\ DOMAIN store = Server
  /\ \A s \in Server : StoreOK(store[s], query)

LEMMA ParametersLength ==
  ASSUME NEW data, data \in Seq(Attribute \cup {"count"}), NEW clear, NEW encrypted, NEW noEnc,
         \A v \in DOMAIN clear : clear[v] \in Int, \A v \in DOMAIN encrypted : encrypted[v] \in Int
  PROVE  proccessParameters(data, clear, encrypted, noEnc) \in Vec(Len(data))
<1> DEFINE p == proccessParameters(data, clear, encrypted, noEnc)
<1>1. DOMAIN data = 1..Len(data) /\ Len(data) \in Nat
  OBVIOUS
<1>2. p \in [1..Len(data) -> Int]
  BY <1>1 DEF proccessParameters
<1>3. p \in Seq(Int) /\ Len(p) = Len(data)
  BY <1>1, <1>2
<1> QED BY <1>3 DEF Vec

LEMMA NewResponseRow ==
  ASSUME NEW cr, NEW q \in Query,
         \A f \in Field : \A v \in DOMAIN cr[f] : cr[f][v] \in Int
  PROVE  NewResponse(cr, q) \in Row(q)
<1>1. q.GroupBy \in Seq(Attribute \cup {"count"}) /\ q.Sum \in Seq(Attribute \cup {"count"})
  <2>1. q.GroupBy \in Seq(Attribute) /\ q.Sum \in Seq(Attribute \cup {"count"})
    BY DEF Query
  <2> QED BY <2>1, SeqMonotonic
<1>2. WhereNames(q) \in Seq(Attribute \cup {"count"}) /\ Len(WhereNames(q)) = Len(q.Where)
  <2>1. q.Where \in Seq([Name : Attribute, Value : Int])
    BY DEF Query
  <2>2. DOMAIN q.Where = 1..Len(q.Where) /\ Len(q.Where) \in Nat
    BY <2>1
  <2>3. \A i \in 1..Len(q.Where) : q.Where[i].Name \in Attribute
    <3>1. \A i \in 1..Len(q.Where) : q.Where[i] \in [Name : Attribute, Value : Int]
      BY <2>1, ElementOfSeq
    <3> QED BY <3>1
  <2>4. WhereNames(q) \in [1..Len(q.Where) -> Attribute \cup {"count"}]
    BY <2>2, <2>3 DEF WhereNames
  <2> QED BY <2>2, <2>4
<1>3. /\ \A v \in DOMAIN cr.GroupByClear : cr.GroupByClear[v] \in Int
      /\ \A v \in DOMAIN cr.GroupByEnc : cr.GroupByEnc[v] \in Int
      /\ \A v \in DOMAIN cr.WhereClear : cr.WhereClear[v] \in Int
      /\ \A v \in DOMAIN cr.WhereEnc : cr.WhereEnc[v] \in Int
      /\ \A v \in DOMAIN cr.AggregatingAttributesClear : cr.AggregatingAttributesClear[v] \in Int
      /\ \A v \in DOMAIN cr.AggregatingAttributesEnc : cr.AggregatingAttributesEnc[v] \in Int
  BY DEF Field
<1>4. proccessParameters(q.GroupBy, cr.GroupByClear, cr.GroupByEnc, NoEnc(cr)) \in Vec(Len(q.GroupBy))
  BY <1>1, <1>3, ParametersLength
<1>5. proccessParameters(WhereNames(q), cr.WhereClear, cr.WhereEnc, NoEnc(cr)) \in Vec(Len(q.Where))
  BY <1>2, <1>3, ParametersLength
<1>6. proccessParameters(q.Sum, cr.AggregatingAttributesClear, cr.AggregatingAttributesEnc, FALSE)
        \in Vec(Len(q.Sum))
  BY <1>1, <1>3, ParametersLength
<1> QED BY <1>4, <1>5, <1>6 DEF NewResponse, Row

LEMMA AddedLength ==
  ASSUME NEW n \in Nat, NEW a \in Vec(n), NEW b \in Vec(n)
  PROVE  AddVectors(a, b) \in Vec(n)
<1>1. a \in [1..n -> Int] /\ b \in [1..n -> Int]
  BY DEF Vec
<1>2. AddVectors(a, b) \in [1..n -> Int]
  BY <1>1 DEF AddVectors
<1> QED BY <1>2 DEF Vec

LEMMA InsertKeepsRows ==
  ASSUME NEW st, NEW cr, NEW q \in Query, StoreOK(st, q), NewResponse(cr, q) \in Row(q)
  PROVE  StoreOK(InsertDpResponse(st, cr, q), q)
<1> DEFINE r == NewResponse(cr, q)
           key == <<r.GroupByEnc, r.WhereEnc>>
           map == st.DpResponsesAggr
           st1 == InsertDpResponse(st, cr, q)
<1> HIDE DEF r
<1>0. r \in Row(q) /\ Len(q.Sum) \in Nat
  BY DEF r, Query
<1>1. CASE ~ NoEnc(cr)
  <2>1. st1 = [st EXCEPT !.DpResponses = Append(@, r)]
    BY <1>1 DEF InsertDpResponse, r
  <2>2. Append(st.DpResponses, r) \in Seq(Row(q))
    BY <1>0 DEF StoreOK
  <2> QED BY <2>1, <2>2 DEF StoreOK, StoreField
<1>2. CASE NoEnc(cr) /\ key \notin DOMAIN map
  <2> DEFINE new == Put(map, key, r)
  <2>1. st1 = [st EXCEPT !.DpResponsesAggr = new]
    BY <1>2 DEF InsertDpResponse, r
  <2>2. /\ DOMAIN new = DOMAIN map \cup {key}
        /\ new = [k \in DOMAIN new |-> new[k]]
        /\ \A k \in DOMAIN new : new[k] = IF k = key THEN r ELSE map[k]
    BY DEF Put
  <2>3. IsFiniteSet(DOMAIN new)
    <3>1. IsFiniteSet(DOMAIN map)
      BY DEF StoreOK, MapOf
    <3>2. IsFiniteSet(DOMAIN map \cup {key})
      BY <3>1, FS_AddElement
    <3> QED BY <3>2, <2>2
  <2> HIDE DEF new
  <2>4. MapOf(new, Row(q))
    BY <1>0, <2>2, <2>3 DEF StoreOK, MapOf
  <2> QED BY <2>1, <2>4 DEF StoreOK, StoreField
<1>3. CASE NoEnc(cr) /\ key \in DOMAIN map
  <2> DEFINE sum == AddVectors(map[key].AggregatingAttributes, r.AggregatingAttributes)
             new == [map EXCEPT ![key].AggregatingAttributes = sum]
  <2>1. st1 = [st EXCEPT !.DpResponsesAggr = new]
    BY <1>3 DEF InsertDpResponse, r
  <2>2. map[key] \in Row(q)
    BY <1>3 DEF StoreOK, MapOf
  <2>3. sum \in Vec(Len(q.Sum))
    BY <1>0, <2>2, AddedLength DEF Row
  <2> HIDE DEF sum
  <2>4. [map[key] EXCEPT !.AggregatingAttributes = sum] \in Row(q)
    BY <2>2, <2>3 DEF Row
  <2>5. MapOf(new, Row(q))
    BY <1>3, <2>4 DEF StoreOK, MapOf
  <2> QED BY <2>1, <2>5 DEF StoreOK, StoreField
<1> QED BY <1>1, <1>2, <1>3

LEMMA QuotientBound ==
  ASSUME NEW a \in Nat, NEW b \in Nat \ {0}, NEW n \in Nat, a < n * b
  PROVE  a \div b \in 0..(n - 1)
<1> DEFINE q == a \div b
<1>1. q \in Nat /\ b * q <= a
  OBVIOUS
<1> HIDE DEF q
<1>2. q < n
  <2> SUFFICES ASSUME n <= q PROVE FALSE
    BY <1>1
  <2>1. b * n <= b * q
    BY <1>1
  <2> QED BY <1>1, <2>1
<1> QED BY <1>1, <1>2 DEF q

(* The responses that data providers send.                                 *)
Sent(i) ==
  {EncryptDpClearResponse(r, i.query.Count) :
     r \in UNION {UNION {Range(u) : u \in Range(i.uploads[t])} : t \in Server}}

(* A survey is queried once, or its responses have encrypted group by or   *)
(* where attributes.                                                       *)
FreshData ==
  \A i \in Inputs :
    i.queries = 1 \/ \A s \in Server : \A u \in Range(i.uploads[s]) : \A r \in Range(u) : ~ NoEnc(r)

LEMMA UploadedSent ==
  ASSUME Inv, NEW s \in Server, uploaded[s] < Len(in.uploads[s]), inserted[s] < Len(Upload(s))
  PROVE  Upload(s)[inserted[s] + 1] \in Sent(in)
<1> DEFINE u == in.uploads[s][uploaded[s] + 1]
           k == inserted[s] + 1
           r == u[((k - 1) \div in.repetitions) + 1]
<1>1. in \in Inputs /\ uploaded[s] \in Nat /\ inserted[s] \in Nat /\ in.repetitions \in Nat \ {0}
  BY InputsAssumption DEF Inv
<1>2. u \in Range(in.uploads[s])
  <2>1. in.uploads[s] \in Seq(Range(in.uploads[s]))
    BY <1>1, InputsAssumption DEF IsSeq
  <2>2. uploaded[s] + 1 \in 1..Len(in.uploads[s])
    BY <1>1, <2>1
  <2> QED BY <2>1, <2>2, ElementOfSeq
<1>3. u \in Seq(Range(u)) /\ \A x \in Range(u) : DpClearResponse(x)
  BY <1>1, <1>2, InputsAssumption DEF IsSeq
<1> HIDE DEF u
<1>4. Upload(s) = [i \in 1..(Len(u) * in.repetitions) |->
                     EncryptDpClearResponse(u[((i - 1) \div in.repetitions) + 1], query.Count)]
  BY DEF Upload, EncryptDataToSurvey, u
<1>5. Len(u) \in Nat
  BY <1>3
<1>6. k \in 1..(Len(u) * in.repetitions)
  <2>1. Len(u) * in.repetitions \in Nat
    BY <1>1, <1>5
  <2>2. Len(Upload(s)) = Len(u) * in.repetitions
    BY <2>1, <1>4
  <2> QED BY <1>1, <2>1, <2>2
<1>7. ((k - 1) \div in.repetitions) + 1 \in 1..Len(u)
  <2>1. k - 1 \in Nat /\ k - 1 < Len(u) * in.repetitions
    BY <1>1, <1>5, <1>6
  <2> DEFINE a == k - 1
  <2> HIDE DEF a
  <2>2. a \div in.repetitions \in 0..(Len(u) - 1)
    <3>1. a \in Nat /\ a < Len(u) * in.repetitions
      BY <2>1 DEF a
    <3> QED BY <3>1, <1>1, <1>5, QuotientBound
  <2>3. (k - 1) \div in.repetitions \in 0..(Len(u) - 1)
    BY <2>2 DEF a
  <2> QED BY <2>3, <1>5
<1>8. r \in Range(u)
  BY <1>3, <1>7, ElementOfSeq
<1>9. Upload(s)[k] = EncryptDpClearResponse(r, query.Count)
  BY <1>4, <1>6
<1> HIDE DEF r, k
<1>10. Upload(s)[k] \in Sent(in)
  BY <1>2, <1>8, <1>9 DEF Sent, query
<1> QED BY <1>10 DEF k

(* What a data provider sends has integers in all six maps.                *)
LEMMA SentResponse ==
  ASSUME NEW i \in Inputs, NEW cr \in Sent(i)
  PROVE  /\ \A f \in Field : \A v \in DOMAIN cr[f] : cr[f][v] \in Int
         /\ NewResponse(cr, i.query) \in Row(i.query)
         /\ FreshData /\ i.queries # 1 => ~ NoEnc(cr)
<1>1. PICK s \in Server : \E u \in Range(i.uploads[s]) : \E r \in Range(u) :
        cr = EncryptDpClearResponse(r, i.query.Count)
  BY DEF Sent
<1>u. PICK u \in Range(i.uploads[s]) : \E r \in Range(u) : cr = EncryptDpClearResponse(r, i.query.Count)
  BY <1>1
<1>r. PICK r \in Range(u) : cr = EncryptDpClearResponse(r, i.query.Count)
  BY <1>u
<1>2. DpClearResponse(r) /\ i.query \in Query
  BY InputsAssumption
<1>3. \A f \in Field : \A v \in DOMAIN cr[f] : cr[f][v] \in Int
  BY <1>r, <1>2 DEF EncryptDpClearResponse, DpClearResponse, Field, Put
<1>4. NewResponse(cr, i.query) \in Row(i.query)
  BY <1>2, <1>3, NewResponseRow
<1>5. NoEnc(cr) <=> NoEnc(r)
  BY <1>r, <1>2 DEF EncryptDpClearResponse, DpClearResponse, Field, NoEnc
<1>6. FreshData /\ i.queries # 1 => ~ NoEnc(r)
  BY DEF FreshData
<1> QED BY <1>3, <1>4, <1>5, <1>6

-----------------------------------------------------------------------------
LEMMA InitInv == Init => Inv
<1> SUFFICES ASSUME Init PROVE Inv
  OBVIOUS
<1>1. StoreOK(NewStore, query)
  <2>1. IsFiniteSet(DOMAIN <<>>) /\ <<>> = [k \in DOMAIN <<>> |-> <<>>[k]]
    BY FS_EmptySet
  <2> QED BY <2>1 DEF NewStore, StoreOK, StoreField, MapOf
<1> QED BY <1>1 DEF Init, Inv

LEMMA PushPreserves ==
  ASSUME Inv, NEW s \in Server, PushData(s)
  PROVE  Inv'
<1> DEFINE cr == Upload(s)[inserted[s] + 1]
<1>1. cr \in Sent(in)
  BY UploadedSent DEF PushData
<1> HIDE DEF cr
<1>2. in \in Inputs /\ query = in.query /\ query \in Query /\ StoreOK(store[s], query)
  BY InputsAssumption DEF Inv, query
<1>3. NewResponse(cr, query) \in Row(query)
  BY <1>1, <1>2, SentResponse
<1>4. StoreOK(InsertDpResponse(store[s], cr, query), query)
  BY <1>2, <1>3, InsertKeepsRows
<1>5. /\ store' = [store EXCEPT ![s] = InsertDpResponse(@, cr, query)]
      /\ inserted' = [inserted EXCEPT ![s] = @ + 1]
      /\ in' = in /\ uploaded' = uploaded
  BY DEF PushData, cr
<1>6. query' = query
  BY <1>5 DEF query
<1>7. \A t \in Server : StoreOK(store'[t], query')
  BY <1>4, <1>5, <1>6 DEF Inv
<1> QED BY <1>5, <1>7 DEF Inv

-----------------------------------------------------------------------------
(* Shuffling.                                                              *)

LEMMA PulledRows ==
  ASSUME NEW st, NEW q, StoreOK(st, q), NEW pulled \in PullDpResponses(st)
  PROVE  pulled \in Seq(Row(q))
<1> DEFINE map == st.DpResponsesAggr
<1>1. PICK order \in Orders(DOMAIN map) :
        pulled = st.DpResponses \o [i \in DOMAIN order |-> map[order[i]]]
  BY DEF PullDpResponses
<1>2. Cardinality(DOMAIN map) \in Nat
  BY FS_CardinalityType DEF StoreOK, MapOf
<1>3. order \in [1..Cardinality(DOMAIN map) -> DOMAIN map]
  BY DEF Orders
<1>4. [i \in DOMAIN order |-> map[order[i]]] \in Seq(Row(q))
  BY <1>2, <1>3 DEF StoreOK, MapOf
<1>5. st.DpResponses \in Seq(Row(q))
  BY DEF StoreOK
<1> QED BY <1>1, <1>4, <1>5

LEMMA DummyRow ==
  ASSUME NEW q \in Query, NEW pr \in Seq(Row(q))
  PROVE  WithDummy(pr) \in Seq(Row(q))
<1>1. CASE Len(pr) = 1
  <2> DEFINE zero == [a \in DOMAIN pr[1].AggregatingAttributes |-> 0]
             dummy == [pr[1] EXCEPT !.AggregatingAttributes = zero]
  <2>1. pr[1] \in Row(q)
    BY <1>1
  <2>2. Len(q.Sum) \in Nat
    BY DEF Query
  <2>3. pr[1].AggregatingAttributes \in Seq(Int) /\ Len(pr[1].AggregatingAttributes) = Len(q.Sum)
    BY <2>1 DEF Row, Vec
  <2>4. zero \in [1..Len(q.Sum) -> Int]
    BY <2>2, <2>3
  <2>5. zero \in Vec(Len(q.Sum))
    BY <2>2, <2>4 DEF Vec
  <2> HIDE DEF zero
  <2>6. dummy \in Row(q)
    BY <2>1, <2>5 DEF Row
  <2> HIDE DEF dummy
  <2>7. WithDummy(pr) = Append(pr, dummy)
    BY <1>1 DEF WithDummy, dummy, zero
  <2> QED BY <2>6, <2>7
<1>2. CASE Len(pr) # 1
  BY <1>2 DEF WithDummy
<1> QED BY <1>1, <1>2

(* A row is cut into the parts it was put together from, whichever row's   *)
(* lengths are used.                                                       *)
LEMMA CutRow ==
  ASSUME NEW g \in Nat, NEW w \in Nat, NEW n \in Nat, NEW row \in Vec(g + w + n)
  PROVE  /\ SubSeq(row, 1, g) \in Vec(g)
         /\ SubSeq(row, g + 1, g + w) \in Vec(w)
         /\ SubSeq(row, g + w + 1, Len(row)) \in Vec(n)
<1>1. row \in Seq(Int) /\ Len(row) = g + w + n
  BY DEF Vec
<1>2. \A i \in 1..(g + w + n) : row[i] \in Int
  BY <1>1, ElementOfSeq
<1>3. SubSeq(row, 1, g) \in Seq(Int) /\ Len(SubSeq(row, 1, g)) = g
  <2>1. \A i \in 1..g : row[i] \in Int
    BY <1>2
  <2> QED BY <2>1, SubSeqProperties
<1>4. SubSeq(row, g + 1, g + w) \in Seq(Int) /\ Len(SubSeq(row, g + 1, g + w)) = w
  <2>1. \A i \in (g + 1)..(g + w) : row[i] \in Int
    BY <1>2
  <2> QED BY <2>1, SubSeqProperties
<1>5. SubSeq(row, g + w + 1, g + w + n) \in Seq(Int) /\ Len(SubSeq(row, g + w + 1, g + w + n)) = n
  <2>1. \A i \in (g + w + 1)..(g + w + n) : row[i] \in Int
    BY <1>2
  <2> QED BY <2>1, SubSeqProperties
<1> QED BY <1>1, <1>3, <1>4, <1>5 DEF Vec

LEMMA JoinedLength ==
  ASSUME NEW m \in Nat, NEW n \in Nat, NEW s \in Vec(m), NEW t \in Vec(n)
  PROVE  s \o t \in Vec(m + n)
<1>1. s \in Seq(Int) /\ t \in Seq(Int) /\ Len(s) = m /\ Len(t) = n
  BY DEF Vec
<1>2. s \o t \in Seq(Int) /\ Len(s \o t) = m + n
  BY <1>1, ConcatProperties
<1> QED BY <1>2 DEF Vec

LEMMA ShuffledRows ==
  ASSUME NEW q \in Query, NEW pr \in Seq(Row(q)),
         NEW pi \in Orders(DOMAIN ProcessResponseToMatrixCipherText(pr))
  PROVE  MatrixCipherTextToProcessResponse(
           [i \in DOMAIN pi |-> ProcessResponseToMatrixCipherText(pr)[pi[i]]], LengthsOf(pr))
           \in Seq(Row(q))
<1> DEFINE n == Len(pr)
           g == Len(q.GroupBy)
           w == Len(q.Where)
           a == Len(q.Sum)
           matrix == ProcessResponseToMatrixCipherText(pr)
           cv == [i \in DOMAIN pi |-> matrix[pi[i]]]
           result == MatrixCipherTextToProcessResponse(cv, LengthsOf(pr))
<1>1. n \in Nat /\ DOMAIN pr = 1..n /\ g \in Nat /\ w \in Nat /\ a \in Nat
  BY DEF Query
<1>2. \A i \in 1..n : /\ pr[i].GroupByEnc \in Vec(g) /\ pr[i].WhereEnc \in Vec(w)
                      /\ pr[i].AggregatingAttributes \in Vec(a)
  <2> SUFFICES ASSUME NEW i \in 1..n
               PROVE /\ pr[i].GroupByEnc \in Vec(g) /\ pr[i].WhereEnc \in Vec(w)
                     /\ pr[i].AggregatingAttributes \in Vec(a)
    OBVIOUS
  <2>1. pr[i] \in Row(q)
    BY <1>1, ElementOfSeq
  <2> QED BY <2>1 DEF Row
<1> HIDE DEF g, w, a, n
<1>3. DOMAIN matrix = 1..n /\ \A i \in 1..n : matrix[i] \in Vec(g + w + a)
  <2>1. ASSUME NEW i \in 1..n
        PROVE  pr[i].GroupByEnc \o pr[i].WhereEnc \o pr[i].AggregatingAttributes \in Vec(g + w + a)
    <3>1. pr[i].GroupByEnc \in Vec(g) /\ pr[i].WhereEnc \in Vec(w) /\ pr[i].AggregatingAttributes \in Vec(a)
      BY <1>2
    <3>2. pr[i].GroupByEnc \o pr[i].WhereEnc \in Vec(g + w)
      BY <1>1, <3>1, JoinedLength
    <3>3. g + w \in Nat
      BY <1>1
    <3> DEFINE front == pr[i].GroupByEnc \o pr[i].WhereEnc
               back == pr[i].AggregatingAttributes
               gw == g + w
    <3> HIDE DEF front, back, gw
    <3>4. front \in Vec(gw) /\ back \in Vec(a) /\ gw \in Nat
      BY <3>1, <3>2, <3>3 DEF front, back, gw
    <3>5. front \o back \in Vec(gw + a)
      BY <1>1, <3>4, JoinedLength
    <3> QED BY <3>5 DEF front, back, gw
  <2> QED BY <1>1, <2>1 DEF ProcessResponseToMatrixCipherText
<1>4. DOMAIN pi = 1..n /\ \A i \in 1..n : pi[i] \in 1..n
  <2>1. Cardinality(1..n) = n
    BY <1>1, FS_Interval
  <2> QED BY <1>3, <2>1 DEF Orders
<1> HIDE DEF matrix
<1>5. \A i \in 1..n : cv[i] \in Vec(g + w + a)
  BY <1>3, <1>4
<1>6. DOMAIN LengthsOf(pr) = 1..n /\ \A i \in 1..n : LengthsOf(pr)[i][1] = g /\ LengthsOf(pr)[i][2] = w
  BY <1>1, <1>2 DEF LengthsOf, Vec
<1> HIDE DEF cv
<1>7. \A i \in 1..n : result[i] \in Row(q)
  <2> SUFFICES ASSUME NEW i \in 1..n PROVE result[i] \in Row(q)
    OBVIOUS
  <2>1. result[i] = [GroupByEnc |-> SubSeq(cv[i], 1, g),
                     WhereEnc |-> SubSeq(cv[i], g + 1, g + w),
                     AggregatingAttributes |-> SubSeq(cv[i], g + w + 1, Len(cv[i]))]
    BY <1>6 DEF MatrixCipherTextToProcessResponse
  <2>2. /\ SubSeq(cv[i], 1, g) \in Vec(g)
        /\ SubSeq(cv[i], g + 1, g + w) \in Vec(w)
        /\ SubSeq(cv[i], g + w + 1, Len(cv[i])) \in Vec(a)
    BY <1>1, <1>5, CutRow
  <2> HIDE DEF result
  <2>3. result[i] \in [GroupByEnc : Vec(g), WhereEnc : Vec(w), AggregatingAttributes : Vec(a)]
    BY <2>1, <2>2
  <2> QED BY <2>3 DEF Row, g, w, a
<1>8. result = [i \in 1..n |-> result[i]]
  BY <1>6 DEF MatrixCipherTextToProcessResponse
<1> HIDE DEF result
<1>9. result \in Seq(Row(q))
  BY <1>1, <1>7, <1>8
<1> QED BY <1>9 DEF result, cv, matrix

LEMMA ShufflePreserves ==
  ASSUME Inv, NEW s \in Server, ShufflingPhase(s)
  PROVE  Inv'
<1>1. query \in Query /\ StoreOK(store[s], query)
  BY InputsAssumption DEF Inv, query
<1>2. in' = in /\ uploaded' = uploaded /\ inserted' = inserted
  BY DEF ShufflingPhase
<1>3. CASE UNCHANGED store
  BY <1>2, <1>3 DEF Inv, query
<1>4. CASE ~ UNCHANGED store
  <2>1. PICK pulled \in PullDpResponses(store[s]) :
          \E pi \in Orders(DOMAIN ProcessResponseToMatrixCipherText(WithDummy(pulled))) :
            store' = [store EXCEPT ![s].DpResponses = <<>>,
                        ![s].ShuffledProcessResponses =
                          @ \o MatrixCipherTextToProcessResponse(
                                 [i \in DOMAIN pi |-> ProcessResponseToMatrixCipherText(WithDummy(pulled))[pi[i]]],
                                 LengthsOf(WithDummy(pulled)))]
    BY <1>4 DEF ShufflingPhase
  <2> DEFINE pr == WithDummy(pulled)
  <2>2. PICK pi \in Orders(DOMAIN ProcessResponseToMatrixCipherText(pr)) :
          store' = [store EXCEPT ![s].DpResponses = <<>>,
                      ![s].ShuffledProcessResponses =
                        @ \o MatrixCipherTextToProcessResponse(
                               [i \in DOMAIN pi |-> ProcessResponseToMatrixCipherText(pr)[pi[i]]],
                               LengthsOf(pr))]
    BY <2>1
  <2> DEFINE back == MatrixCipherTextToProcessResponse(
                       [i \in DOMAIN pi |-> ProcessResponseToMatrixCipherText(pr)[pi[i]]], LengthsOf(pr))
  <2>3. pr \in Seq(Row(query))
    BY <1>1, PulledRows, DummyRow
  <2>4. back \in Seq(Row(query))
    BY <1>1, <2>3, ShuffledRows
  <2> HIDE DEF back, pr
  <2>5. store' = [store EXCEPT ![s] = [store[s] EXCEPT !.DpResponses = <<>>,
                                         !.ShuffledProcessResponses = @ \o back]]
    BY <2>2 DEF Inv, back, pr
  <2>6. StoreOK([store[s] EXCEPT !.DpResponses = <<>>,
                                 !.ShuffledProcessResponses = @ \o back], query)
    BY <1>1, <2>4 DEF StoreOK, StoreField
  <2> QED BY <1>2, <2>5, <2>6 DEF Inv, query
<1> QED BY <1>3, <1>4

LEMMA TagPreserves ==
  ASSUME Inv, NEW s \in Server, TaggingPhase(s)
  PROVE  Inv'
<1>1. StoreOK(store[s], query)
  BY DEF Inv
<1>2. in' = in /\ uploaded' = uploaded /\ inserted' = inserted
  BY DEF TaggingPhase
<1>3. CASE UNCHANGED store
  BY <1>2, <1>3 DEF Inv, query
<1>4. CASE ~ UNCHANGED store
  <2>1. \E map : store' = [store EXCEPT ![s].ShuffledProcessResponses = <<>>,
                                        ![s].LocAggregatedProcessResponse = map]
    BY <1>4 DEF TaggingPhase
  <2>2. PICK map : store' = [store EXCEPT ![s] = [store[s] EXCEPT !.ShuffledProcessResponses = <<>>,
                                                    !.LocAggregatedProcessResponse = map]]
    BY <2>1 DEF Inv
  <2>3. StoreOK([store[s] EXCEPT !.ShuffledProcessResponses = <<>>,
                                 !.LocAggregatedProcessResponse = map], query)
    BY <1>1 DEF StoreOK, StoreField
  <2> QED BY <1>2, <2>2, <2>3 DEF Inv, query
<1> QED BY <1>3, <1>4

(* The other phases do not touch the rows.                                 *)
LEMMA RootPreserves ==
  ASSUME Inv, NEW s \in Server, AggregationPhase(s) \/ KeySwitchingPhase(s) \/ Answer(s)
  PROVE  Inv'
<1>1. in' = in /\ uploaded' = uploaded /\ inserted' = inserted
  BY DEF AggregationPhase, KeySwitchingPhase, Answer
<1>2. CASE AggregationPhase(s)
  <2> DEFINE grouped == Aggregated([t \in Server |-> store[t].LocAggregatedProcessResponse])
             own == store[s].GroupedDeterministicFilteredResponses
             sum == PushCothorityAggregatedFilteredResponses(own, grouped)
             f == [t \in Server |-> IF t = s THEN sum ELSE store[t].GroupedDeterministicFilteredResponses]
  <2>1. store' = [t \in Server |-> [store[t] EXCEPT !.LocAggregatedProcessResponse = <<>>,
                                      !.GroupedDeterministicFilteredResponses = f[t]]]
    <3>1. store' = [t \in Server |->
            [store[t] EXCEPT !.LocAggregatedProcessResponse = <<>>,
                             !.GroupedDeterministicFilteredResponses = IF t = s THEN sum ELSE @]]
      BY <1>2 DEF AggregationPhase
    <3> HIDE DEF sum
    <3> QED BY <3>1 DEF Inv, StoreOK, StoreField
  <2> HIDE DEF f
  <2>2. \A t \in Server : StoreOK([store[t] EXCEPT !.LocAggregatedProcessResponse = <<>>,
                                     !.GroupedDeterministicFilteredResponses = f[t]], query)
    BY DEF Inv, StoreOK, StoreField
  <2> QED BY <1>1, <2>1, <2>2 DEF Inv, query
<1>3. CASE KeySwitchingPhase(s)
  <2>1. \E x : store' = [store EXCEPT ![s].GroupedDeterministicFilteredResponses = <<>>,
                                      ![s].DeliverableResults = x]
    BY <1>3 DEF KeySwitchingPhase
  <2>2. PICK x : store' = [store EXCEPT ![s] = [store[s] EXCEPT
                             !.GroupedDeterministicFilteredResponses = <<>>, !.DeliverableResults = x]]
    BY <2>1 DEF Inv
  <2>3. StoreOK([store[s] EXCEPT !.GroupedDeterministicFilteredResponses = <<>>,
                                 !.DeliverableResults = x], query)
    BY DEF Inv, StoreOK, StoreField
  <2> QED BY <1>1, <2>2, <2>3 DEF Inv, query
<1>4. CASE Answer(s)
  <2>1. store' = [store EXCEPT ![s] = [store[s] EXCEPT !.DeliverableResults = <<>>]]
    BY <1>4 DEF Answer, Inv
  <2>2. StoreOK([store[s] EXCEPT !.DeliverableResults = <<>>], query)
    BY DEF Inv, StoreOK, StoreField
  <2> QED BY <1>1, <2>1, <2>2 DEF Inv, query
<1> QED BY <1>2, <1>3, <1>4

LEMMA StepInv == Inv /\ [Next]_vars => Inv'
<1> SUFFICES ASSUME Inv, [Next]_vars PROVE Inv'
  OBVIOUS
<1>1. CASE HandleSurveyResultsQuery
  BY <1>1 DEF HandleSurveyResultsQuery, Inv, query
<1>2. ASSUME NEW s \in Server, PushData(s) PROVE Inv'
  BY <1>2, PushPreserves
<1>3. ASSUME NEW s \in Server, SendDpToken(s) PROVE Inv'
  BY <1>3 DEF SendDpToken, Inv, query
<1>4. ASSUME NEW s \in Server, StartService(s) PROVE Inv'
  BY <1>4 DEF StartService, Inv, query
<1>5. ASSUME NEW s \in Server, ShufflingPhase(s) PROVE Inv'
  BY <1>5, ShufflePreserves
<1>6. ASSUME NEW s \in Server, TaggingPhase(s) PROVE Inv'
  BY <1>6, TagPreserves
<1>7. ASSUME NEW s \in Server, AggregationPhase(s) \/ KeySwitchingPhase(s) \/ Answer(s) PROVE Inv'
  BY <1>7, RootPreserves
<1>8. CASE UNCHANGED vars
  BY <1>8 DEF vars, Inv, query
<1> QED BY <1>1, <1>2, <1>3, <1>4, <1>5, <1>6, <1>7, <1>8 DEF Next

LEMMA InvUniform == Inv => LengthsUniform
<1> SUFFICES ASSUME Inv, NEW s \in Server,
                    NEW p \in Range(store[s].DpResponses)
                               \cup {store[s].DpResponsesAggr[k] : k \in DOMAIN store[s].DpResponsesAggr}
                               \cup Range(store[s].ShuffledProcessResponses)
             PROVE  /\ Len(p.GroupByEnc) = Len(query.GroupBy)
                    /\ Len(p.WhereEnc) = Len(query.Where)
                    /\ Len(p.AggregatingAttributes) = Len(query.Sum)
  BY DEF LengthsUniform
<1>1. StoreOK(store[s], query)
  BY DEF Inv
<1>2. p \in Row(query)
  <2>1. \A r \in Range(store[s].DpResponses) : r \in Row(query)
    BY <1>1, ElementOfSeq DEF StoreOK, Range
  <2>2. \A r \in Range(store[s].ShuffledProcessResponses) : r \in Row(query)
    BY <1>1, ElementOfSeq DEF StoreOK, Range
  <2> QED BY <1>1, <2>1, <2>2 DEF StoreOK, MapOf
<1> QED BY <1>2 DEF Row, Vec

(* Whatever attributes the responses have, encrypted, in clear or not at   *)
(* all, the rows that a server's store keeps and shuffles are of the       *)
(* lengths the query asks for, so that a row can be cut with the lengths   *)
(* of another.                                                             *)
THEOREM RowsUniform == Spec => []LengthsUniform
<1>1. Inv /\ [Next]_vars => Inv'
  BY StepInv
<1> QED BY <1>1, InitInv, InvUniform, PTL DEF Spec

-----------------------------------------------------------------------------
Shape(g, w, a) == [GroupByEnc : Vec(g), WhereEnc : Vec(w), AggregatingAttributes : Vec(a)]
Joined(r) == r.GroupByEnc \o r.WhereEnc \o r.AggregatingAttributes
Cut(row, g, w) ==
  [GroupByEnc |-> SubSeq(row, 1, g),
   WhereEnc |-> SubSeq(row, g + 1, g + w),
   AggregatingAttributes |-> SubSeq(row, g + w + 1, Len(row))]

(* Cutting undoes joining.                                                 *)
LEMMA CutJoined ==
  ASSUME NEW g \in Nat, NEW w \in Nat, NEW a \in Nat,
         NEW r \in Shape(g, w, a)
  PROVE  Cut(Joined(r), g, w) = r
<1> DEFINE x == r.GroupByEnc
           y == r.WhereEnc
           z == r.AggregatingAttributes
<1>0. x \in Vec(g) /\ y \in Vec(w) /\ z \in Vec(a)
      /\ r = [GroupByEnc |-> x, WhereEnc |-> y, AggregatingAttributes |-> z]
      /\ Joined(r) = x \o y \o z
  BY DEF Shape, Joined
<1> HIDE DEF x, y, z
<1> DEFINE xy == x \o y
           row == xy \o z
           gw == g + w
<1>1. /\ x \in Seq(Int) /\ y \in Seq(Int) /\ z \in Seq(Int)
      /\ Len(x) = g /\ Len(y) = w /\ Len(z) = a
  BY <1>0 DEF Vec
<1>2. /\ xy \in Seq(Int) /\ Len(xy) = gw /\ gw \in Nat
      /\ \A i \in 1..gw : xy[i] = IF i <= g THEN x[i] ELSE y[i - g]
  <2>1. /\ x \o y \in Seq(Int) /\ Len(x \o y) = Len(x) + Len(y)
        /\ \A i \in 1..Len(x) + Len(y) : (x \o y)[i] = IF i <= Len(x) THEN x[i] ELSE y[i - Len(x)]
    BY <1>1, ConcatProperties
  <2> QED BY <1>1, <2>1
<1> HIDE DEF xy
<1>3. /\ row \in Seq(Int) /\ Len(row) = gw + a
      /\ \A i \in 1..(gw + a) : row[i] = IF i <= gw THEN xy[i] ELSE z[i - gw]
  <2> HIDE DEF gw
  <2> QED BY <1>1, <1>2, ConcatProperties
<1> HIDE DEF row
<1>4. /\ \A i \in 1..g : row[i] = x[i]
      /\ \A i \in 1..w : row[g + i] = y[i]
      /\ \A i \in 1..a : row[g + w + i] = z[i]
  <2> HIDE DEF gw
  <2>0. gw = g + w
    BY DEF gw
  <2>1. ASSUME NEW i \in 1..g PROVE row[i] = x[i]
    <3>1. i \in 1..gw /\ i \in 1..(gw + a) /\ i <= gw
      BY <2>0
    <3>2. row[i] = xy[i]
      BY <1>3, <3>1
    <3> QED BY <1>2, <3>1, <3>2
  <2>2. ASSUME NEW i \in 1..w PROVE row[g + i] = y[i]
    <3> DEFINE k == g + i
    <3>1. k \in 1..gw /\ k \in 1..(gw + a) /\ k <= gw /\ ~ (k <= g) /\ k - g = i
      BY <2>0
    <3> HIDE DEF k
    <3>2. row[k] = xy[k]
      BY <1>3, <3>1
    <3>3. xy[k] = y[k - g]
      BY <1>2, <3>1
    <3> QED BY <3>1, <3>2, <3>3 DEF k
  <2>3. ASSUME NEW i \in 1..a PROVE row[g + w + i] = z[i]
    <3> DEFINE k == g + w + i
    <3>1. k \in 1..(gw + a) /\ ~ (k <= gw) /\ k - gw = i
      BY <2>0
    <3> HIDE DEF k
    <3>2. row[k] = z[k - gw]
      BY <1>3, <3>1
    <3> QED BY <3>1, <3>2 DEF k
  <2> QED BY <2>1, <2>2, <2>3
<1>5. row \in Vec(g + w + a)
  BY <1>3 DEF Vec
<1>6. SubSeq(row, 1, g) = x
  <2>1. SubSeq(row, 1, g) \in Vec(g)
    BY <1>5, CutRow
  <2>2. \A i \in 1..g : SubSeq(row, 1, g)[i] = row[i]
    BY <1>2, <1>3
  <2> QED BY <1>1, <1>4, <2>1, <2>2, SeqEqual DEF Vec
<1>7. SubSeq(row, g + 1, g + w) = y
  <2>1. SubSeq(row, g + 1, g + w) \in Vec(w)
    BY <1>5, CutRow
  <2>2. \A i \in 1..w : SubSeq(row, g + 1, g + w)[i] = row[g + i]
    BY <1>2, <1>3
  <2> QED BY <1>1, <1>4, <2>1, <2>2, SeqEqual DEF Vec
<1>8. SubSeq(row, g + w + 1, Len(row)) = z
  <2> DEFINE s == SubSeq(row, g + w + 1, Len(row))
  <2>1. s \in Vec(a)
    BY <1>5, CutRow
  <2>2. ASSUME NEW i \in 1..a PROVE s[i] = row[g + w + i]
    <3>1. Len(row) = g + w + a
      BY <1>3
    <3> QED BY <1>3, <3>1
  <2> HIDE DEF s
  <2>3. \A i \in 1..a : s[i] = z[i]
    BY <1>4, <2>2
  <2>4. s = z
    BY <1>1, <2>1, <2>3, SeqEqual DEF Vec
  <2> QED BY <2>4 DEF s
<1>9. Joined(r) = row
  BY <1>0 DEF row, xy
<1> QED BY <1>0, <1>6, <1>7, <1>8, <1>9 DEF Cut

(* However the shuffle orders the rows, each that comes back is one of     *)
(* those that were sent, whole and with its values in their places, though *)
(* it is cut with the lengths of the row that was there before.            *)
THEOREM RowsStayWhole ==
  ASSUME NEW q \in Query, NEW pr \in Seq(Row(q)),
         NEW pi \in Orders(DOMAIN ProcessResponseToMatrixCipherText(pr))
  PROVE  \A i \in DOMAIN pr :
           MatrixCipherTextToProcessResponse(
             [k \in DOMAIN pi |-> ProcessResponseToMatrixCipherText(pr)[pi[k]]], LengthsOf(pr))[i]
             = pr[pi[i]]
<1> DEFINE n == Len(pr)
           g == Len(q.GroupBy)
           w == Len(q.Where)
           a == Len(q.Sum)
           matrix == ProcessResponseToMatrixCipherText(pr)
           cv == [k \in DOMAIN pi |-> matrix[pi[k]]]
<1>1. n \in Nat /\ DOMAIN pr = 1..n /\ g \in Nat /\ w \in Nat /\ a \in Nat
  BY DEF Query
<1>2. \A i \in 1..n : pr[i] \in Shape(g, w, a)
  <2>1. \A i \in 1..n : pr[i] \in Row(q)
    BY <1>1, ElementOfSeq
  <2> QED BY <2>1 DEF Row, Shape
<1> HIDE DEF g, w, a, n
<1>3. DOMAIN matrix = 1..n
  BY <1>1 DEF ProcessResponseToMatrixCipherText
<1>4. DOMAIN pi = 1..n /\ \A i \in 1..n : pi[i] \in 1..n
  <2>1. Cardinality(1..n) = n
    BY <1>1, FS_Interval
  <2> QED BY <1>3, <2>1 DEF Orders
<1>5. DOMAIN LengthsOf(pr) = 1..n /\ \A i \in 1..n : LengthsOf(pr)[i][1] = g /\ LengthsOf(pr)[i][2] = w
  BY <1>1, <1>2 DEF LengthsOf, Vec, Shape
<1>6. ASSUME NEW i \in 1..n
      PROVE  MatrixCipherTextToProcessResponse(cv, LengthsOf(pr))[i] = pr[pi[i]]
  <2> DEFINE r == pr[pi[i]]
  <2>1. r \in Shape(g, w, a)
    BY <1>2, <1>4
  <2>2. cv[i] = Joined(r)
    BY <1>1, <1>4 DEF ProcessResponseToMatrixCipherText, Joined
  <2> HIDE DEF r, cv
  <2>3. Cut(cv[i], g, w) = r
    BY <1>1, <2>1, <2>2, CutJoined
  <2>4. MatrixCipherTextToProcessResponse(cv, LengthsOf(pr))[i] = Cut(cv[i], g, w)
    BY <1>5 DEF MatrixCipherTextToProcessResponse, Cut
  <2>5. MatrixCipherTextToProcessResponse(cv, LengthsOf(pr))[i] = r
    BY <2>3, <2>4
  <2> QED BY <2>5 DEF r
<1> QED BY <1>1, <1>6

-----------------------------------------------------------------------------
(* Induction over finite sets and over an interval of numbers, for sets    *)
(* given as values.                                                        *)
LEMMA FiniteInduct ==
  ASSUME NEW S, IsFiniteSet(S), NEW T, {} \in T,
         \A X \in SUBSET S : \A x \in S \ X : X \in T => X \cup {x} \in T
  PROVE  S \in T
<1> DEFINE U == {X \in SUBSET S : X \notin T}
<1>1. SUFFICES ASSUME S \notin T
               PROVE  FALSE
  OBVIOUS
<1>2. S \in U
  BY <1>1
<1>3. U \subseteq FiniteSubsetsOf(S)
  BY FS_Subset DEF FiniteSubsetsOf
<1>4. PICK X \in U : \A Y \in U : ~ (<<Y, X>> \in StrictSubsetOrdering(S))
  <2> HIDE DEF U
  <2>1. IsWellFoundedOn(StrictSubsetOrdering(S), FiniteSubsetsOf(S))
    BY FS_StrictSubsetOrderingWellFounded
  <2> QED  BY <1>2, <1>3, <2>1, WFMin, Zenon
<1>5. PICK x \in X : TRUE
  OBVIOUS
<1> DEFINE Y == X \ {x}
<1>6. Y \in SUBSET S /\ x \in S \ Y /\ X = Y \cup {x}
  BY <1>5
<1>7. Y \notin T
  BY <1>6
<1>8. <<Y, X>> \in StrictSubsetOrdering(S)
  BY <1>5, <1>6 DEF StrictSubsetOrdering
<1> QED  BY <1>4, <1>6, <1>7, <1>8

(* The same by taking one element away from each set.                      *)
LEMMA RemovalInduct ==
  ASSUME NEW S, IsFiniteSet(S), NEW T, {} \in T,
         \A X \in SUBSET S : X # {} => \E x \in X : X \ {x} \in T => X \in T
  PROVE  \A X \in SUBSET S : X \in T
<1> DEFINE U == {X \in SUBSET S : X \notin T}
<1>1. SUFFICES ASSUME NEW Z \in U
               PROVE  FALSE
  OBVIOUS
<1>2. U \subseteq FiniteSubsetsOf(S)
  BY FS_Subset DEF FiniteSubsetsOf
<1>3. PICK X \in U : \A Y \in U : ~ (<<Y, X>> \in StrictSubsetOrdering(S))
  <2> HIDE DEF U
  <2>1. IsWellFoundedOn(StrictSubsetOrdering(S), FiniteSubsetsOf(S))
    BY FS_StrictSubsetOrderingWellFounded
  <2> QED  BY <1>1, <1>2, <2>1, WFMin, Zenon
<1>4. X \in SUBSET S /\ X # {} /\ X \notin T
  OBVIOUS
<1>5. PICK x \in X : X \ {x} \in T => X \in T
  BY <1>4
<1>6. X \ {x} \in U
  BY <1>4, <1>5
<1>7. <<X \ {x}, X>> \in StrictSubsetOrdering(S)
  BY <1>4, <1>5 DEF StrictSubsetOrdering
<1> QED  BY <1>3, <1>6, <1>7

LEMMA UpTo ==
  ASSUME NEW n \in Nat, NEW T, 0 \in T,
         \A i \in 0..n : i \in T /\ i < n => i + 1 \in T
  PROVE  n \in T
<1> DEFINE U == {X \in SUBSET (1..n) : (0..Cardinality(X)) \cap (0..n) \subseteq T}
<1>1. IsFiniteSet(1..n) /\ Cardinality(1..n) = n
  BY FS_Interval
<1>2. {} \in U
  BY FS_EmptySet
<1>3. ASSUME NEW X \in SUBSET (1..n), NEW x \in (1..n) \ X, X \in U
      PROVE  X \cup {x} \in U
  <2>1. /\ IsFiniteSet(X) /\ Cardinality(X) \in Nat
        /\ Cardinality(X \cup {x}) = Cardinality(X) + 1
    BY <1>1, FS_Subset, FS_AddElement, FS_CardinalityType
  <2>2. ASSUME NEW i \in (0..Cardinality(X) + 1) \cap (0..n)
        PROVE  i \in T
    <3>1. CASE i <= Cardinality(X)
      BY <1>3, <2>1, <3>1
    <3>2. CASE i = Cardinality(X) + 1
      <4>1. i - 1 \in (0..Cardinality(X)) \cap (0..n) /\ i - 1 < n
        BY <2>1, <3>2
      <4>2. i - 1 \in T
        BY <1>3, <4>1
      <4> QED  BY <4>1, <4>2
    <3> QED  BY <2>1, <3>1, <3>2
  <2> QED  BY <2>1, <2>2
<1> HIDE DEF U
<1>4. 1..n \in U
  BY <1>1, <1>2, <1>3, FiniteInduct
<1> QED  BY <1>1, <1>4 DEF U

-----------------------------------------------------------------------------
(* Sums of integers over finite sets.                                      *)
Ints(v, S) == \A x \in S : v[x] \in Int

IsSum(f, v, S) ==
  /\ f \in [SUBSET S -> Int] /\ f[{}] = 0
  /\ \A X \in SUBSET S : \A x \in S \ X : f[X \cup {x}] = f[X] + v[x]

Total(v, S) == MapThenSumSet(LAMBDA x : v[x], S)

LEMMA SumExists ==
  ASSUME NEW S, IsFiniteSet(S), NEW v, Ints(v, S)
  PROVE  \E f : IsSum(f, v, S)
<1> DEFINE T == {R \in SUBSET S : \E f : IsSum(f, v, R)}
<1>1. {} \in T
  <2> DEFINE f == [X \in SUBSET {} |-> 0]
  <2>1. IsSum(f, v, {})
    BY DEF IsSum
  <2> HIDE DEF f
  <2>2. \E g : IsSum(g, v, {})
    BY <2>1
  <2> QED  BY <2>2
<1>2. ASSUME NEW R \in SUBSET S, NEW x \in S \ R, R \in T
      PROVE  R \cup {x} \in T
  <2>1. PICK f : IsSum(f, v, R)
    BY <1>2
  <2> DEFINE Q == R \cup {x}
             g == [X \in SUBSET Q |-> IF x \in X THEN f[X \ {x}] + v[x] ELSE f[X]]
  <2>2. f \in [SUBSET R -> Int] /\ f[{}] = 0 /\ v[x] \in Int
    BY <2>1 DEF IsSum, Ints
  <2>3. ASSUME NEW X \in SUBSET Q
        PROVE  /\ X \ {x} \in SUBSET R /\ (x \notin X => X \in SUBSET R)
               /\ g[X] \in Int
    BY <2>2
  <2>4. g \in [SUBSET Q -> Int] /\ g[{}] = 0
    BY <2>2, <2>3
  <2>5. ASSUME NEW X \in SUBSET Q, NEW s \in Q \ X
        PROVE  g[X \cup {s}] = g[X] + v[s]
    <3>1. X \cup {s} \in SUBSET Q /\ v[s] \in Int
      BY DEF Ints
    <3>2. CASE s = x
      <4>1. (X \cup {s}) \ {x} = X /\ x \in X \cup {s} /\ x \notin X
        BY <3>2
      <4> QED  BY <3>1, <3>2, <4>1
    <3>3. CASE s # x /\ x \in X
      <4>1. /\ (X \cup {s}) \ {x} = (X \ {x}) \cup {s} /\ x \in X \cup {s}
            /\ X \ {x} \in SUBSET R /\ s \in R \ (X \ {x})
        BY <3>3
      <4>2. f[(X \ {x}) \cup {s}] = f[X \ {x}] + v[s] /\ f[X \ {x}] \in Int
        BY <2>1, <4>1 DEF IsSum
      <4>3. g[X \cup {s}] = f[(X \cup {s}) \ {x}] + v[x] /\ g[X] = f[X \ {x}] + v[x]
        BY <3>1, <3>3, <4>1
      <4> HIDE DEF g
      <4>4. f[(X \cup {s}) \ {x}] = f[X \ {x}] + v[s]
        BY <4>1, <4>2
      <4> QED  BY <2>2, <3>1, <4>2, <4>3, <4>4
    <3>4. CASE s # x /\ x \notin X
      <4>1. x \notin X \cup {s} /\ X \in SUBSET R /\ s \in R \ X
        BY <3>4
      <4>2. f[X \cup {s}] = f[X] + v[s]
        BY <2>1, <4>1 DEF IsSum
      <4> QED  BY <3>1, <3>4, <4>1, <4>2
    <3> QED  BY <3>2, <3>3, <3>4
  <2>6. IsSum(g, v, Q)
    BY <2>4, <2>5 DEF IsSum
  <2> HIDE DEF g
  <2>7. \E f1 : IsSum(f1, v, Q)
    BY <2>6
  <2> QED  BY <2>7
<1> HIDE DEF T
<1>3. S \in T
  BY <1>1, <1>2, FiniteInduct
<1> QED  BY <1>3 DEF T

(* c chooses the element a fold takes next; g is the fold that adds.       *)
Choice(c, S) == \A X \in SUBSET S : X # {} => c[X] \in X

AddsUp(g, c, v, S) == \A X \in SUBSET S : g[X] = IF X = {} THEN 0 ELSE v[c[X]] + g[X \ {c[X]}]

(* A fold that adds has the sum as its value, whatever order it chooses.   *)
LEMMA FoldIsSum ==
  ASSUME NEW S, IsFiniteSet(S), NEW v, Ints(v, S), NEW f, IsSum(f, v, S),
         NEW c, Choice(c, S), NEW g, AddsUp(g, c, v, S)
  PROVE  \A X \in SUBSET S : g[X] = f[X]
<1> DEFINE T == {X \in SUBSET S : g[X] = f[X]}
<1>1. {} \in T
  BY DEF IsSum, AddsUp
<1>2. ASSUME NEW X \in SUBSET S, X # {} PROVE \E x \in X : X \ {x} \in T => X \in T
  <2> DEFINE x == c[X]
             Y == X \ {x}
  <2>1. x \in X /\ g[X] = v[x] + g[Y]
    BY <1>2 DEF Choice, AddsUp
  <2> HIDE DEF x
  <2>2. Y \in SUBSET S /\ x \in S \ Y /\ X = Y \cup {x}
    BY <2>1
  <2>3. f[X] = f[Y] + v[x] /\ f[Y] \in Int /\ v[x] \in Int
    BY <2>2 DEF IsSum, Ints
  <2>4. Y \in T => X \in T
    BY <2>1, <2>2, <2>3
  <2> QED BY <2>1, <2>4
<1> HIDE DEF T
<1>3. \A X \in SUBSET S : X \in T
  BY <1>1, <1>2, RemovalInduct
<1> QED BY <1>3 DEF T

(* And a function as f satisfies the equation of such a fold.              *)
LEMMA SumFolds ==
  ASSUME NEW S, NEW v, Ints(v, S), NEW f, IsSum(f, v, S), NEW X \in SUBSET S, NEW x \in X
  PROVE  f[X] = v[x] + f[X \ {x}] /\ f[X \ {x}] \in Int /\ v[x] \in Int
<1> DEFINE Y == X \ {x}
<1>1. Y \in SUBSET S /\ x \in S \ Y /\ X = Y \cup {x}
  OBVIOUS
<1>2. f[X] = f[Y] + v[x] /\ f[Y] \in Int /\ v[x] \in Int
  BY <1>1 DEF IsSum, Ints
<1> QED BY <1>2

LEMMA TotalIsSum ==
  ASSUME NEW S, IsFiniteSet(S), NEW v, Ints(v, S), NEW f, IsSum(f, v, S), NEW R \in SUBSET S
  PROVE  Total(v, R) = f[R]
<1> DEFINE First(X) == CHOOSE x \in X : TRUE
           c == [X \in SUBSET R |-> First(X)]
           Folds(g) == g = [X \in SUBSET R |->
                              IF X = {} THEN 0 ELSE v[First(X)] + g[X \ {First(X)}]]
<1>1. ASSUME NEW X \in SUBSET R, X # {}
      PROVE  c[X] = First(X) /\ c[X] \in X
  BY <1>1
<1>2. \E g : Folds(g)
  <2> DEFINE h == [X \in SUBSET R |-> f[X]]
  <2>1. ASSUME NEW X \in SUBSET R
        PROVE  h[X] = IF X = {} THEN 0 ELSE v[First(X)] + h[X \ {First(X)}]
    <3>1. CASE X = {}
      BY <3>1 DEF IsSum
    <3>2. CASE X # {}
      <4>1. First(X) \in X
        BY <3>2
      <4> HIDE DEF First
      <4>2. X \in SUBSET S /\ X \ {First(X)} \in SUBSET R
        OBVIOUS
      <4>3. f[X] = v[First(X)] + f[X \ {First(X)}]
        BY <4>1, <4>2, SumFolds
      <4> QED BY <3>2, <4>2, <4>3
    <3> QED  BY <3>1, <3>2
  <2>2. h = [X \in SUBSET R |-> h[X]]
    OBVIOUS
  <2> HIDE DEF h, First
  <2>3. Folds(h)
    BY <2>1, <2>2
  <2> HIDE DEF Folds
  <2> QED  BY <2>3
<1>3. ASSUME NEW g, Folds(g)
      PROVE  g[R] = f[R]
  <2>1. AddsUp(g, c, v, R)
    <3> SUFFICES ASSUME NEW X \in SUBSET R
                 PROVE  g[X] = IF X = {} THEN 0 ELSE v[c[X]] + g[X \ {c[X]}]
      BY DEF AddsUp
    <3>1. g[X] = IF X = {} THEN 0 ELSE v[First(X)] + g[X \ {First(X)}]
      <4> HIDE DEF First
      <4> QED BY <1>3
    <3> QED BY <1>1, <3>1
  <2> DEFINE e == [X \in SUBSET R |-> f[X]]
  <2>2. IsSum(e, v, R)
    BY DEF IsSum
  <2>3. IsFiniteSet(R)
    BY FS_Subset
  <2>6. Ints(v, R)
    BY DEF Ints
  <2> HIDE DEF e, c
  <2>4. Choice(c, R)
    BY <1>1 DEF Choice
  <2>5. \A X \in SUBSET R : g[X] = e[X]
    BY <2>1, <2>2, <2>3, <2>4, <2>6, FoldIsSum
  <2> QED BY <2>5 DEF e
<1>4. Total(v, R) = (CHOOSE g : Folds(g))[R]
  BY DEF Total, MapThenSumSet, MapThenFoldSet
<1> HIDE DEF Folds
<1> QED  BY <1>2, <1>3, <1>4

(* The sum of nothing, and of one number more.                             *)
LEMMA TotalNone == ASSUME NEW v PROVE Total(v, {}) = 0
<1>1. IsFiniteSet({}) /\ Ints(v, {})
  BY FS_EmptySet DEF Ints
<1>2. PICK f : IsSum(f, v, {})
  BY <1>1, SumExists
<1>3. Total(v, {}) = f[{}]
  BY <1>1, <1>2, TotalIsSum
<1> QED BY <1>2, <1>3 DEF IsSum

LEMMA TotalType ==
  ASSUME NEW S, IsFiniteSet(S), NEW v, Ints(v, S)
  PROVE  Total(v, S) \in Int
<1>1. PICK f : IsSum(f, v, S)
  BY SumExists
<1>2. Total(v, S) = f[S]
  BY <1>1, TotalIsSum
<1> QED BY <1>1, <1>2 DEF IsSum

LEMMA TotalAdd ==
  ASSUME NEW S, IsFiniteSet(S), NEW v, NEW x, x \notin S, Ints(v, S \cup {x})
  PROVE  Total(v, S \cup {x}) = Total(v, S) + v[x]
<1> DEFINE R == S \cup {x}
<1>1. IsFiniteSet(R)
  BY FS_AddElement
<1>2. PICK f : IsSum(f, v, R)
  BY <1>1, SumExists
<1>3. Total(v, R) = f[R] /\ Total(v, S) = f[S]
  BY <1>1, <1>2, TotalIsSum
<1>4. S \in SUBSET R /\ x \in R \ S
  OBVIOUS
<1>5. f[S \cup {x}] = f[S] + v[x]
  BY <1>2, <1>4 DEF IsSum
<1> QED BY <1>3, <1>5

LEMMA TotalSame ==
  ASSUME NEW S, IsFiniteSet(S), NEW u, NEW v, Ints(v, S), \A x \in S : u[x] = v[x]
  PROVE  Total(u, S) = Total(v, S)
<1> DEFINE T == {X \in SUBSET S : Total(u, X) = Total(v, X)}
<1>1. {} \in T
  BY TotalNone
<1>2. ASSUME NEW X \in SUBSET S, NEW x \in S \ X, X \in T PROVE X \cup {x} \in T
  <2>1. IsFiniteSet(X) /\ Ints(u, X \cup {x}) /\ Ints(v, X \cup {x})
    BY FS_Subset DEF Ints
  <2>2. Total(u, X \cup {x}) = Total(u, X) + u[x] /\ Total(v, X \cup {x}) = Total(v, X) + v[x]
    BY <2>1, TotalAdd
  <2> QED BY <1>2, <2>2
<1> HIDE DEF T
<1>3. S \in T
  BY <1>1, <1>2, FiniteInduct
<1> QED BY <1>3 DEF T

LEMMA TotalZero ==
  ASSUME NEW S, IsFiniteSet(S), NEW v, \A x \in S : v[x] = 0
  PROVE  Total(v, S) = 0
<1> DEFINE T == {X \in SUBSET S : Total(v, X) = 0}
<1>1. {} \in T
  BY TotalNone
<1>2. ASSUME NEW X \in SUBSET S, NEW x \in S \ X, X \in T PROVE X \cup {x} \in T
  <2>1. IsFiniteSet(X) /\ Ints(v, X \cup {x}) /\ v[x] = 0
    BY FS_Subset DEF Ints
  <2>2. Total(v, X \cup {x}) = Total(v, X) + v[x]
    BY <2>1, TotalAdd
  <2> QED BY <1>2, <2>1, <2>2
<1> HIDE DEF T
<1>3. S \in T
  BY <1>1, <1>2, FiniteInduct
<1> QED BY <1>3 DEF T

(* Two disjoint sets.                                                      *)
LEMMA TotalUnion ==
  ASSUME NEW A, NEW B, IsFiniteSet(A), IsFiniteSet(B), A \cap B = {},
         NEW v, Ints(v, A \cup B)
  PROVE  Total(v, A \cup B) = Total(v, A) + Total(v, B)
<1> DEFINE T == {X \in SUBSET B : Total(v, A \cup X) = Total(v, A) + Total(v, X)}
<1>0. Total(v, A) \in Int
  BY TotalType DEF Ints
<1>1. {} \in T
  <2>1. A \cup {} = A
    OBVIOUS
  <2> QED BY <1>0, <2>1, TotalNone
<1>2. ASSUME NEW X \in SUBSET B, NEW x \in B \ X, X \in T PROVE X \cup {x} \in T
  <2>1. /\ IsFiniteSet(X) /\ IsFiniteSet(A \cup X)
        /\ Ints(v, X) /\ Ints(v, X \cup {x}) /\ Ints(v, (A \cup X) \cup {x}) /\ v[x] \in Int
        /\ x \notin A \cup X /\ A \cup (X \cup {x}) = (A \cup X) \cup {x}
    BY FS_Subset, FS_Union DEF Ints
  <2>2. Total(v, X \cup {x}) = Total(v, X) + v[x]
    BY <2>1, TotalAdd
  <2>3. Total(v, (A \cup X) \cup {x}) = Total(v, A \cup X) + v[x]
    BY <2>1, TotalAdd
  <2>4. Total(v, X) \in Int
    BY <2>1, TotalType
  <2>5. Total(v, A \cup (X \cup {x})) = Total(v, A \cup X) + v[x]
    BY <2>1, <2>3
  <2>6. Total(v, A \cup X) = Total(v, A) + Total(v, X)
    BY <1>2
  <2>7. Total(v, A \cup (X \cup {x})) = Total(v, A) + Total(v, X \cup {x})
    BY <1>0, <2>1, <2>2, <2>4, <2>5, <2>6
  <2> QED BY <2>7
<1> HIDE DEF T
<1>3. B \in T
  BY <1>1, <1>2, FiniteInduct
<1> QED BY <1>3 DEF T

(* Numbers that are zero need not be added.                                *)
LEMMA TotalRestrict ==
  ASSUME NEW R, IsFiniteSet(R), NEW S \in SUBSET R, NEW v, Ints(v, S),
         \A x \in R \ S : v[x] = 0
  PROVE  Total(v, R) = Total(v, S)
<1> DEFINE Q == R \ S
<1>1. IsFiniteSet(S) /\ IsFiniteSet(Q) /\ Ints(v, S \cup Q)
  BY FS_Subset DEF Ints
<1>2. S \cap Q = {} /\ R = S \cup Q
  OBVIOUS
<1>3. Total(v, S) \in Int /\ Total(v, Q) = 0
  BY <1>1, TotalType, TotalZero
<1>4. Total(v, S \cup Q) = Total(v, S) + Total(v, Q)
  <2> HIDE DEF Q
  <2> QED BY <1>1, <1>2, TotalUnion
<1> HIDE DEF Q
<1>5. Total(v, R) = Total(v, S \cup Q)
  BY <1>2
<1> QED BY <1>3, <1>4, <1>5

LEMMA TotalSingle ==
  ASSUME NEW v, NEW x, v[x] \in Int
  PROVE  Total(v, {x}) = v[x]
<1>1. IsFiniteSet({}) /\ x \notin {} /\ Ints(v, {} \cup {x})
  BY FS_EmptySet DEF Ints
<1>2. Total(v, {} \cup {x}) = Total(v, {}) + v[x] /\ {} \cup {x} = {x}
  BY <1>1, TotalAdd
<1> QED BY <1>2, TotalNone

(* One number is changed.                                                  *)
LEMMA TotalChange ==
  ASSUME NEW S, IsFiniteSet(S), NEW x \in S, NEW u, NEW v, Ints(v, S), u[x] \in Int,
         \A y \in S \ {x} : u[y] = v[y]
  PROVE  Total(u, S) = (Total(v, S) - v[x]) + u[x]
<1> DEFINE R == S \ {x}
<1>1. IsFiniteSet(R) /\ x \notin R /\ S = R \cup {x}
  BY FS_Subset
<1> HIDE DEF R
<1>2. Ints(v, R \cup {x}) /\ Ints(u, R \cup {x}) /\ Ints(v, R) /\ \A y \in R : u[y] = v[y]
  BY <1>1 DEF Ints
<1>3. Total(u, R) = Total(v, R) /\ Total(v, R) \in Int
  BY <1>1, <1>2, TotalSame, TotalType
<1>4. Total(u, S) = Total(u, R) + u[x] /\ Total(v, S) = Total(v, R) + v[x]
  BY <1>1, <1>2, TotalAdd
<1>5. v[x] \in Int
  BY DEF Ints
<1> QED BY <1>3, <1>4, <1>5

(* The numbers are indexed by another set.                                 *)
LEMMA TotalMoved ==
  ASSUME NEW S, IsFiniteSet(S), NEW R, NEW h \in [S -> R],
         \A x, y \in S : h[x] = h[y] => x = y,
         \A z \in R : \E x \in S : h[x] = z,
         NEW u, NEW v, Ints(v, R), \A x \in S : u[x] = v[h[x]]
  PROVE  Total(u, S) = Total(v, R)
<1> DEFINE Im(X) == {h[x] : x \in X}
           T == {X \in SUBSET S : IsFiniteSet(Im(X)) /\ Total(u, X) = Total(v, Im(X))}
<1>1. {} \in T
  <2>1. Im({}) = {}
    OBVIOUS
  <2> QED BY <2>1, TotalNone, FS_EmptySet
<1>2. ASSUME NEW X \in SUBSET S, NEW x \in S \ X, X \in T PROVE X \cup {x} \in T
  <2>1. Im(X \cup {x}) = Im(X) \cup {h[x]} /\ h[x] \notin Im(X)
    OBVIOUS
  <2>2. IsFiniteSet(X) /\ IsFiniteSet(Im(X)) /\ IsFiniteSet(Im(X) \cup {h[x]})
    BY <1>2, FS_Subset, FS_AddElement
  <2>3. Ints(u, X \cup {x}) /\ Ints(v, Im(X) \cup {h[x]})
    BY DEF Ints
  <2>4. Total(u, X \cup {x}) = Total(u, X) + u[x]
    BY <2>2, <2>3, TotalAdd
  <2> HIDE DEF Im
  <2>5. Total(v, Im(X) \cup {h[x]}) = Total(v, Im(X)) + v[h[x]]
    BY <2>1, <2>2, <2>3, TotalAdd
  <2>6. IsFiniteSet(Im(X \cup {x})) /\ Total(u, X \cup {x}) = Total(v, Im(X \cup {x}))
    BY <1>2, <2>1, <2>2, <2>4, <2>5
  <2> QED BY <2>6
<1>3. S \in T
  <2> HIDE DEF T
  <2> QED BY <1>1, <1>2, FiniteInduct
<1>4. Im(S) = R
  OBVIOUS
<1> QED BY <1>3, <1>4

-----------------------------------------------------------------------------
(* Recursion along a sequence.                                             *)
IsStep(step, k, V) == step \in [(1..k) \X V -> V]
IsRecursion(f, k, V, base, step) ==
  /\ f \in [0..k -> V] /\ f[0] = base
  /\ \A i \in 1..k : f[i] = step[<<i, f[i - 1]>>]

LEMMA RecursionExists ==
  ASSUME NEW k \in Nat, NEW V, NEW base \in V, NEW step, IsStep(step, k, V)
  PROVE  \E f : IsRecursion(f, k, V, base, step)
<1>. DEFINE Upto(j, f) == /\ f \in [0..j -> V] /\ f[0] = base
                          /\ \A i \in 1..j : f[i] = step[<<i, f[i - 1]>>]
            T == {j \in 0..k : \E f : Upto(j, f)}
<1>1. 0 \in T
  <2>1. Upto(0, [i \in 0..0 |-> base])
    OBVIOUS
  <2>. HIDE DEF Upto
  <2>. QED  BY <2>1
<1>2. ASSUME NEW j \in 0..k, j \in T, j < k
      PROVE  j + 1 \in T
  <2>1. PICK f : Upto(j, f)
    BY <1>2
  <2>. DEFINE v == step[<<j + 1, f[j]>>]
              g == [i \in 0..(j + 1) |-> IF i = j + 1 THEN v ELSE f[i]]
  <2>2. v \in V /\ j + 1 \in 1..k
    BY <1>2, <2>1 DEF IsStep
  <2>. HIDE DEF v
  <2>3. g \in [0..(j + 1) -> V] /\ g[0] = base
    BY <2>1, <2>2
  <2>4. ASSUME NEW i \in 1..(j + 1)
        PROVE  g[i] = step[<<i, g[i - 1]>>]
    <3>1. i - 1 \in 0..j /\ g[i - 1] = f[i - 1]
      BY <1>2
    <3>2. CASE i = j + 1
      <4>1. i - 1 = j /\ g[i] = v
        BY <1>2, <3>2
      <4>2. g[i - 1] = f[j]
        BY <3>1, <4>1
      <4>. HIDE DEF g
      <4>. QED  BY <3>2, <4>1, <4>2 DEF v
    <3>3. CASE i # j + 1
      <4>1. i \in 1..j /\ g[i] = f[i]
        BY <3>3
      <4>. QED  BY <2>1, <3>1, <4>1
    <3>. QED  BY <3>2, <3>3
  <2>5. Upto(j + 1, g)
    <3>. HIDE DEF g
    <3>. QED  BY <2>3, <2>4
  <2>. HIDE DEF g, Upto
  <2>. QED  BY <1>2, <2>5
<1>. HIDE DEF T
<1>3. k \in T
  BY <1>1, <1>2, UpTo
<1>. QED  BY <1>3 DEF T, IsRecursion

LEMMA BeforeSums ==
  ASSUME NEW ls \in Seq(Nat)
  PROVE  \E sums \in [0..Len(ls) -> Nat] :
           /\ sums[0] = 0
           /\ \A i \in 1..Len(ls) : sums[i] = sums[i - 1] + ls[i]
           /\ \A i \in 1..Len(ls) : Before(ls, i) = sums[i - 1]
<1>. DEFINE k == Len(ls)
            step == [p \in (1..k) \X Nat |-> p[2] + ls[p[1]]]
<1>1. k \in Nat /\ \A i \in 1..k : ls[i] \in Nat
  BY ElementOfSeq
<1>2. IsStep(step, k, Nat)
  BY <1>1 DEF IsStep
<1>3. PICK sums \in [0..k -> Nat] :
        sums[0] = 0 /\ \A i \in 1..k : sums[i] = step[<<i, sums[i - 1]>>]
  <2>. HIDE DEF step
  <2>1. \E f : IsRecursion(f, k, Nat, 0, step)
    BY <1>1, <1>2, RecursionExists
  <2>. QED  BY <2>1 DEF IsRecursion
<1>4. \A i \in 1..k : sums[i] = sums[i - 1] + ls[i]
  <2>1. ASSUME NEW i \in 1..k
        PROVE  step[<<i, sums[i - 1]>>] = sums[i - 1] + ls[i]
    <3>1. i - 1 \in 0..k
      BY <1>1
    <3>2. sums[i - 1] \in Nat
      BY <3>1
    <3>. QED  BY <3>2
  <2>. HIDE DEF step
  <2>. QED  BY <1>3, <2>1
<1>. DEFINE sum[j \in 0..k] == IF j = 0 THEN 0 ELSE sum[j - 1] + ls[j]
<1>5. sum = [j \in 0..k |-> IF j = 0 THEN 0 ELSE sum[j - 1] + ls[j]]
  <2>1. sums = [j \in 0..k |-> IF j = 0 THEN 0 ELSE sums[j - 1] + ls[j]]
    <3>1. \A j \in 0..k : sums[j] = IF j = 0 THEN 0 ELSE sums[j - 1] + ls[j]
      BY <1>1, <1>3, <1>4
    <3>. QED  BY <3>1
  <2>. HIDE DEF k
  <2>2. \E f : f = [j \in 0..k |-> IF j = 0 THEN 0 ELSE f[j - 1] + ls[j]]
    BY <2>1
  <2>. QED  BY <2>2, Zenon
<1>6. \A i \in 1..k : Before(ls, i) = sum[i - 1]
  BY DEF Before
<1>. HIDE DEF sum
<1>7. ASSUME NEW n \in 0..k
      PROVE  sum[n] = sums[n]
  <2>. DEFINE T == {i \in 0..n : sum[i] = sums[i]}
  <2>1. 0 \in T
    BY <1>1, <1>3, <1>5
  <2>2. ASSUME NEW i \in 0..n, i \in T, i < n
        PROVE  i + 1 \in T
    <3>1. i + 1 \in 1..k /\ i + 1 \in 0..k /\ (i + 1) - 1 = i /\ i + 1 \in 0..n /\ i + 1 # 0
      BY <1>1, <2>2
    <3>2. sum[i + 1] = sum[i] + ls[i + 1]
      BY <1>5, <3>1
    <3>3. sums[i + 1] = sums[i] + ls[i + 1]
      BY <1>4, <3>1
    <3>. QED  BY <2>2, <3>1, <3>2, <3>3
  <2>. HIDE DEF T
  <2>3. n \in T
    BY <2>1, <2>2, UpTo
  <2>. QED  BY <2>3 DEF T
<1>8. \A i \in 1..k : Before(ls, i) = sums[i - 1]
  BY <1>1, <1>6, <1>7
<1>. QED  BY <1>3, <1>4, <1>8

LEMMA FlattenPrefixes ==
  ASSUME NEW X, NEW m \in Seq(Seq(X)), Len(m) > 0
  PROVE  \E parts \in [0..Len(m) -> Seq(X)] :
           /\ parts[0] = <<>>
           /\ \A i \in 1..Len(m) : parts[i] = parts[i - 1] \o m[i]
           /\ FlattenSeq(m) = parts[Len(m)]
<1>. DEFINE k == Len(m)
            step == [p \in (1..k) \X Seq(X) |-> p[2] \o m[p[1]]]
<1>1. k \in Nat /\ k > 0 /\ \A i \in 1..k : m[i] \in Seq(X)
  BY ElementOfSeq
<1>2. IsStep(step, k, Seq(X)) /\ <<>> \in Seq(X)
  BY <1>1, ConcatProperties DEF IsStep
<1>3. PICK parts \in [0..k -> Seq(X)] :
        parts[0] = <<>> /\ \A i \in 1..k : parts[i] = step[<<i, parts[i - 1]>>]
  <2>. HIDE DEF step
  <2>1. \E f : IsRecursion(f, k, Seq(X), <<>>, step)
    BY <1>1, <1>2, RecursionExists
  <2>. QED  BY <2>1 DEF IsRecursion
<1>4. \A i \in 1..k : parts[i] = parts[i - 1] \o m[i]
  <2>1. ASSUME NEW i \in 1..k
        PROVE  step[<<i, parts[i - 1]>>] = parts[i - 1] \o m[i]
    <3>1. i - 1 \in 0..k
      BY <1>1
    <3>2. parts[i - 1] \in Seq(X)
      BY <3>1
    <3>3. <<i, parts[i - 1]>> \in (1..k) \X Seq(X)
      BY <3>2
    <3>. QED  BY <3>3
  <2>. HIDE DEF step
  <2>. QED  BY <1>3, <2>1
<1>. DEFINE flatten[i \in 1..k] == IF i = 1 THEN m[i] ELSE flatten[i - 1] \o m[i]
<1>5. parts[1] = m[1]
  <2>1. 1 \in 1..k /\ 1 - 1 = 0 /\ m[1] \in Seq(X)
    BY <1>1
  <2>2. parts[1] = <<>> \o m[1]
    <3>1. parts[1] = parts[1 - 1] \o m[1]
      BY <1>4, <2>1, Zenon
    <3>. QED  BY <1>3, <2>1, <3>1, Zenon
  <2>3. <<>> \o m[1] = m[1]
    BY <2>1, ConcatEmptySeq
  <2>. QED  BY <2>2, <2>3
<1>6. flatten = [i \in 1..k |-> IF i = 1 THEN m[i] ELSE flatten[i - 1] \o m[i]]
  <2>. DEFINE f == [i \in 1..k |-> parts[i]]
  <2>1. f = [i \in 1..k |-> IF i = 1 THEN m[i] ELSE f[i - 1] \o m[i]]
    <3>1. \A i \in 1..k : i # 1 => i - 1 \in 1..k
      BY <1>1
    <3>2. \A i \in 1..k : f[i] = IF i = 1 THEN m[i] ELSE f[i - 1] \o m[i]
      BY <1>4, <1>5, <3>1
    <3>. QED  BY <3>2
  <2>. HIDE DEF k, f
  <2>2. \E g : g = [i \in 1..k |-> IF i = 1 THEN m[i] ELSE g[i - 1] \o m[i]]
    BY <2>1
  <2>. QED  BY <2>2, Zenon
<1>7. FlattenSeq(m) = flatten[k]
  BY <1>1 DEF FlattenSeq
<1>. HIDE DEF flatten
<1>8. ASSUME NEW n \in 0..k
      PROVE  n # 0 => flatten[n] = parts[n]
  <2>. DEFINE T == {i \in 0..n : i # 0 => flatten[i] = parts[i]}
  <2>1. 0 \in T
    BY <1>1
  <2>2. ASSUME NEW i \in 0..n, i \in T, i < n
        PROVE  i + 1 \in T
    <3>1. i + 1 \in 1..k /\ (i + 1) - 1 = i /\ i + 1 \in 0..n
      BY <1>1, <2>2
    <3>2. i = 0 => flatten[i + 1] = m[i + 1] /\ parts[i + 1] = m[i + 1]
      <4>1. 1 \in 1..k /\ 0 + 1 = 1
        BY <1>1
      <4>2. flatten[1] = m[1]
        BY <1>6, <4>1, Zenon
      <4>. QED  BY <1>5, <4>1, <4>2
    <3>3. i # 0 => flatten[i + 1] = flatten[i] \o m[i + 1]
      <4>1. i # 0 => i + 1 # 1
        OBVIOUS
      <4>2. flatten[i + 1] = IF i + 1 = 1 THEN m[i + 1] ELSE flatten[(i + 1) - 1] \o m[i + 1]
        BY <1>6, <3>1, Zenon
      <4>. HIDE DEF k
      <4>. QED  BY <3>1, <4>1, <4>2
    <3>4. parts[i + 1] = parts[i] \o m[i + 1]
      <4>1. parts[i + 1] = parts[(i + 1) - 1] \o m[i + 1]
        BY <1>4, <3>1, Zenon
      <4>. QED  BY <3>1, <4>1
    <3>. QED  BY <2>2, <3>1, <3>2, <3>3, <3>4, Zenon
  <2>. HIDE DEF T
  <2>3. n \in T
    BY <2>1, <2>2, UpTo
  <2>. QED  BY <2>3 DEF T
<1>9. k \in 0..k /\ k # 0
  BY <1>1
<1>10. FlattenSeq(m) = parts[k]
  BY <1>7, <1>8, <1>9
<1>. QED  BY <1>3, <1>4, <1>10, Zenon

(* Every part lies in the whole behind those before it.                    *)
LEMMA PartsInPlace ==
  ASSUME NEW X, NEW m \in Seq(Seq(X)), Len(m) > 0,
         NEW sums \in [0..Len(m) -> Nat], sums[0] = 0,
         \A i \in 1..Len(m) : sums[i] = sums[i - 1] + Len(m[i])
  PROVE  /\ FlattenSeq(m) \in Seq(X)
         /\ \A i \in 1..Len(m) :
              /\ sums[i] <= Len(FlattenSeq(m))
              /\ \A p \in 1..Len(m[i]) : FlattenSeq(m)[sums[i - 1] + p] = m[i][p]
<1>. DEFINE k == Len(m)
<1>1. k \in Nat /\ k > 0 /\ \A i \in 1..k : m[i] \in Seq(X) /\ Len(m[i]) \in Nat
  BY ElementOfSeq, LenProperties
<1>2. PICK parts \in [0..k -> Seq(X)] :
        /\ parts[0] = <<>>
        /\ \A i \in 1..k : parts[i] = parts[i - 1] \o m[i]
        /\ FlattenSeq(m) = parts[k]
  BY FlattenPrefixes
<1>. DEFINE Holds(n) ==
              /\ Len(parts[n]) = sums[n]
              /\ \A i \in 1..n :
                   /\ sums[i] <= sums[n]
                   /\ \A p \in 1..Len(m[i]) : parts[n][sums[i - 1] + p] = m[i][p]
            T == {n \in 0..k : Holds(n)}
<1>3. 0 \in T
  BY <1>1, <1>2
<1>4. ASSUME NEW n \in 0..k, n \in T, n < k
      PROVE  n + 1 \in T
  <2>1. n + 1 \in 1..k /\ n + 1 \in 0..k /\ (n + 1) - 1 = n
    BY <1>1, <1>4
  <2>2. /\ parts[n] \in Seq(X) /\ m[n + 1] \in Seq(X)
        /\ parts[n + 1] = parts[n] \o m[n + 1]
        /\ sums[n + 1] = sums[n] + Len(m[n + 1])
        /\ sums[n] \in Nat /\ Len(m[n + 1]) \in Nat
    <3>1. parts[n + 1] = parts[(n + 1) - 1] \o m[n + 1]
      BY <1>2, <2>1, Zenon
    <3>2. sums[n + 1] = sums[(n + 1) - 1] + Len(m[n + 1])
      BY <2>1
    <3>. QED  BY <1>1, <2>1, <3>1, <3>2
  <2>3. /\ Len(parts[n + 1]) = Len(parts[n]) + Len(m[n + 1])
        /\ \A q \in 1..Len(parts[n]) : parts[n + 1][q] = parts[n][q]
        /\ \A q \in 1..Len(m[n + 1]) : parts[n + 1][Len(parts[n]) + q] = m[n + 1][q]
    <3>1. Len(parts[n]) \in Nat
      BY <2>2, LenProperties
    <3>2. \A q \in 1..Len(parts[n]) + Len(m[n + 1]) :
            (parts[n] \o m[n + 1])[q] =
               IF q <= Len(parts[n]) THEN parts[n][q] ELSE m[n + 1][q - Len(parts[n])]
      BY <2>2, ConcatProperties
    <3>3. Len(parts[n] \o m[n + 1]) = Len(parts[n]) + Len(m[n + 1])
      BY <2>2, ConcatProperties
    <3>. QED  BY <2>2, <3>1, <3>2, <3>3
  <2>4. Holds(n)
    BY <1>4
  <2>5. Len(parts[n + 1]) = sums[n + 1]
    BY <2>2, <2>3, <2>4
  <2>6. ASSUME NEW i \in 1..(n + 1)
        PROVE  /\ sums[i] <= sums[n + 1]
               /\ \A p \in 1..Len(m[i]) : parts[n + 1][sums[i - 1] + p] = m[i][p]
    <3>1. CASE i = n + 1
      <4>1. i - 1 = n /\ sums[i] = sums[n + 1]
        BY <2>1, <3>1
      <4>2. sums[n + 1] \in Nat
        BY <2>1
      <4>. QED  BY <2>3, <2>4, <3>1, <4>1, <4>2
    <3>2. CASE i # n + 1
      <4>1. i \in 1..n /\ i \in 1..k /\ i \in 0..k /\ i - 1 \in 0..k
        BY <1>1, <3>2
      <4>2. /\ sums[i] \in Nat /\ sums[i - 1] \in Nat /\ Len(m[i]) \in Nat
            /\ sums[i] = sums[i - 1] + Len(m[i]) /\ sums[i] <= sums[n]
        BY <1>1, <2>4, <4>1
      <4>3. Len(parts[n]) = sums[n]
        BY <2>4
      <4>6. /\ sums[n] \in Nat /\ Len(m[n + 1]) \in Nat
            /\ sums[n + 1] = sums[n] + Len(m[n + 1])
        BY <2>2, Zenon
      <4>4. ASSUME NEW p \in 1..Len(m[i])
            PROVE  parts[n + 1][sums[i - 1] + p] = m[i][p]
        <5>1. sums[i - 1] + p \in 1..Len(parts[n])
          <6>. DEFINE a == sums[i - 1]
                      w == Len(m[i])
                      c == sums[n]
          <6>1. a \in Nat /\ w \in Nat /\ c \in Nat /\ a + w <= c /\ p \in 1..w
            BY <4>2, <4>6
          <6>. HIDE DEF a, w, c
          <6>2. a + p \in 1..c
            BY <6>1
          <6>. QED  BY <4>3, <6>2 DEF a, c
        <5>2. parts[n][sums[i - 1] + p] = m[i][p]
          BY <2>4, <4>1
        <5>. QED  BY <2>3, <5>1, <5>2
      <4>5. sums[i] <= sums[n + 1]
        BY <4>2, <4>6
      <4>. QED  BY <4>4, <4>5
    <3>. QED  BY <3>1, <3>2
  <2>. QED  BY <2>1, <2>5, <2>6
<1>. HIDE DEF T
<1>5. k \in T
  BY <1>1, <1>3, <1>4, UpTo
<1>6. Holds(k) /\ k \in 0..k
  BY <1>1, <1>5 DEF T
<1>. QED  BY <1>2, <1>6

-----------------------------------------------------------------------------
(* What a loop keeps of a sequence are its elements at the positions that  *)
(* are kept, each once.                                                    *)
Picks(t, R, s, P) ==
  /\ t \in Seq(R)
  /\ \E h \in [1..Len(t) -> P] :
       /\ \A i, j \in 1..Len(t) : h[i] = h[j] => i = j
       /\ \A z \in P : \E i \in 1..Len(t) : h[i] = z
       /\ \A i \in 1..Len(t) : t[i] = s[h[i]]

Upto(keep, n) == {i \in 1..n : keep[i]}

LEMMA PickMore ==
  ASSUME NEW R, NEW s \in Seq(R), NEW keep \in [1..Len(s) -> BOOLEAN],
         NEW n \in 1..Len(s), NEW t, Picks(t, R, s, Upto(keep, n - 1))
  PROVE  Picks(IF keep[n] THEN Append(t, s[n]) ELSE t, R, s, Upto(keep, n))
<1> DEFINE P(m) == Upto(keep, m)
           k == Len(t)
<1>1. PICK h \in [1..k -> P(n - 1)] :
        /\ \A i, j \in 1..k : h[i] = h[j] => i = j
        /\ \A z \in P(n - 1) : \E i \in 1..k : h[i] = z
        /\ \A i \in 1..k : t[i] = s[h[i]]
  BY DEF Picks
<1>2. t \in Seq(R) /\ k \in Nat /\ n \in Nat /\ n >= 1 /\ s[n] \in R
  <2>1. s[n] \in R
    BY ElementOfSeq
  <2>2. t \in Seq(R)
    BY DEF Picks
  <2> QED BY <2>1, <2>2, LenProperties
<1>3. CASE ~ keep[n]
  <2>1. P(n) = P(n - 1)
    BY <1>2, <1>3 DEF Upto
  <2> QED BY <1>3, <2>1
<1>4. CASE keep[n]
  <2> DEFINE u == Append(t, s[n])
             g == [i \in 1..(k + 1) |-> IF i = k + 1 THEN n ELSE h[i]]
  <2>1. u \in Seq(R) /\ Len(u) = k + 1 /\ u[k + 1] = s[n] /\ \A i \in 1..k : u[i] = t[i]
    BY <1>2, AppendProperties
  <2>2. P(n) = P(n - 1) \cup {n} /\ n \notin P(n - 1)
    BY <1>2, <1>4 DEF Upto
  <2> HIDE DEF P, k, u
  <2>3. g \in [1..(k + 1) -> P(n)]
    BY <1>1, <1>2, <2>2
  <2>4. \A i, j \in 1..(k + 1) : g[i] = g[j] => i = j
    <3> SUFFICES ASSUME NEW i \in 1..(k + 1), NEW j \in 1..(k + 1), g[i] = g[j] PROVE i = j
      OBVIOUS
    <3>1. \A l \in 1..(k + 1) : l # k + 1 => l \in 1..k /\ g[l] = h[l] /\ h[l] # n
      BY <1>1, <1>2, <2>2
    <3> QED BY <1>1, <1>2, <3>1
  <2>5. \A z \in P(n) : \E i \in 1..(k + 1) : g[i] = z
    <3> SUFFICES ASSUME NEW z \in P(n) PROVE \E i \in 1..(k + 1) : g[i] = z
      OBVIOUS
    <3>1. CASE z = n
      <4>1. k + 1 \in 1..(k + 1)
        BY <1>2
      <4> QED BY <3>1, <4>1
    <3>2. CASE z # n
      <4>1. PICK i \in 1..k : h[i] = z
        BY <1>1, <2>2, <3>2
      <4>2. i \in 1..(k + 1) /\ g[i] = z
        BY <1>2, <4>1
      <4> QED BY <4>2
    <3> QED BY <3>1, <3>2
  <2>6. \A i \in 1..(k + 1) : u[i] = s[g[i]]
    <3> SUFFICES ASSUME NEW i \in 1..(k + 1) PROVE u[i] = s[g[i]]
      OBVIOUS
    <3>1. CASE i = k + 1
      BY <2>1, <3>1
    <3>2. CASE i # k + 1
      <4>1. i \in 1..k /\ g[i] = h[i]
        BY <1>2, <3>2
      <4> QED BY <1>1, <2>1, <4>1
    <3> QED BY <3>1, <3>2
  <2> HIDE DEF g
  <2>7. \E f \in [1..Len(u) -> P(n)] :
           /\ \A i, j \in 1..Len(u) : f[i] = f[j] => i = j
           /\ \A z \in P(n) : \E i \in 1..Len(u) : f[i] = z
           /\ \A i \in 1..Len(u) : u[i] = s[f[i]]
    <3>1. Len(u) = k + 1
      BY <2>1
    <3>2. \E f \in [1..(k + 1) -> P(n)] :
            /\ \A i, j \in 1..(k + 1) : f[i] = f[j] => i = j
            /\ \A z \in P(n) : \E i \in 1..(k + 1) : f[i] = z
            /\ \A i \in 1..(k + 1) : u[i] = s[f[i]]
      BY <2>3, <2>4, <2>5, <2>6, Zenon
    <3> QED BY <3>1, <3>2
  <2>8. Picks(u, R, s, P(n))
    BY <2>1, <2>7 DEF Picks
  <2> QED BY <1>4, <2>8 DEF u, P
<1>5. keep[n] \in BOOLEAN
  OBVIOUS
<1> QED BY <1>3, <1>4, <1>5

LEMMA KeptAre ==
  ASSUME NEW R, NEW s \in Seq(R), NEW keep \in [1..Len(s) -> BOOLEAN]
  PROVE  Picks(Kept(s, keep), R, s, Upto(keep, Len(s)))
<1> DEFINE k == Len(s)
           step == [p \in (1..k) \X Seq(R) |-> IF keep[p[1]] THEN Append(p[2], s[p[1]]) ELSE p[2]]
<1>1. k \in Nat /\ \A i \in 1..k : s[i] \in R
  BY ElementOfSeq
<1>2. IsStep(step, k, Seq(R)) /\ <<>> \in Seq(R)
  <2>1. \A i \in 1..k, t \in Seq(R) : Append(t, s[i]) \in Seq(R)
    BY <1>1, AppendProperties
  <2> QED BY <2>1 DEF IsStep
<1>3. PICK f \in [0..k -> Seq(R)] :
        f[0] = <<>> /\ \A i \in 1..k : f[i] = step[<<i, f[i - 1]>>]
  <2> HIDE DEF step
  <2>1. \E g : IsRecursion(g, k, Seq(R), <<>>, step)
    BY <1>1, <1>2, RecursionExists
  <2> QED BY <2>1 DEF IsRecursion
<1>4. \A i \in 1..k : f[i] = IF keep[i] THEN Append(f[i - 1], s[i]) ELSE f[i - 1]
  <2> SUFFICES ASSUME NEW i \in 1..k
               PROVE  f[i] = IF keep[i] THEN Append(f[i - 1], s[i]) ELSE f[i - 1]
    OBVIOUS
  <2>1. i - 1 \in 0..k
    BY <1>1
  <2>2. f[i - 1] \in Seq(R)
    BY <2>1
  <2>3. step[<<i, f[i - 1]>>] = IF keep[i] THEN Append(f[i - 1], s[i]) ELSE f[i - 1]
    BY <2>2
  <2> HIDE DEF step
  <2> QED BY <1>3, <2>3
<1> DEFINE Loop(g) == g = [n \in 0..k |-> IF n = 0 THEN <<>>
                                          ELSE IF keep[n] THEN Append(g[n - 1], s[n]) ELSE g[n - 1]]
<1>5. Loop(f)
  <2>1. \A n \in 0..k : n # 0 => n \in 1..k
    BY <1>1
  <2>2. \A n \in 0..k : f[n] = IF n = 0 THEN <<>>
                               ELSE IF keep[n] THEN Append(f[n - 1], s[n]) ELSE f[n - 1]
    BY <1>3, <1>4, <2>1, Zenon
  <2> QED BY <2>2
<1>6. Kept(s, keep) = (CHOOSE g : Loop(g))[k]
  BY DEF Kept
<1>7. ASSUME NEW g, Loop(g) PROVE Picks(g[k], R, s, Upto(keep, k))
  <2> DEFINE T == {n \in 0..k : Picks(g[n], R, s, Upto(keep, n))}
  <2>1. 0 \in T
    <3>1. g[0] = <<>> /\ 0 \in 0..k
      BY <1>1, <1>7
    <3>2. Picks(<<>>, R, s, Upto(keep, 0))
      <4> DEFINE h == [i \in {} |-> 0]
      <4>1. Len(<<>>) = 0 /\ 1..0 = {} /\ Upto(keep, 0) = {} /\ <<>> \in Seq(R)
        BY DEF Upto
      <4>2. h \in [{} -> {}]
        OBVIOUS
      <4> HIDE DEF h
      <4>3. Picks(<<>>, R, s, {})
        BY <4>1, <4>2 DEF Picks
      <4> QED BY <4>1, <4>3
    <3> QED BY <3>1, <3>2
  <2>2. ASSUME NEW n \in 0..k, n \in T, n < k PROVE n + 1 \in T
    <3>1. n + 1 \in 1..k /\ n + 1 \in 0..k /\ (n + 1) - 1 = n /\ n + 1 # 0
      BY <1>1, <2>2
    <3>2. g[n + 1] = IF keep[n + 1] THEN Append(g[n], s[n + 1]) ELSE g[n]
      BY <1>7, <3>1
    <3>3. Picks(g[n], R, s, Upto(keep, (n + 1) - 1))
      BY <2>2, <3>1
    <3>4. Picks(g[n + 1], R, s, Upto(keep, n + 1))
      BY <3>1, <3>2, <3>3, PickMore
    <3> QED BY <3>1, <3>4
  <2> HIDE DEF T
  <2>3. k \in T
    BY <1>1, <2>1, <2>2, UpTo
  <2> QED BY <2>3 DEF T
<1> HIDE DEF Loop
<1> QED BY <1>5, <1>6, <1>7

-----------------------------------------------------------------------------
(* What a collection of rows, a sequence or a map, amounts to: the keys    *)
(* that occur in it, and for any set of keys the sum of the rows of these  *)
(* keys.                                                                   *)
KeyOf(r) == <<r.GroupByEnc, r.WhereEnc>>

Keys(F) == {KeyOf(F[i]) : i \in DOMAIN F}

Share(F, X, a) == [i \in DOMAIN F |-> IF KeyOf(F[i]) \in X THEN F[i].AggregatingAttributes[a] ELSE 0]

Weight(F, X, a) == Total(Share(F, X, a), DOMAIN F)

Rows(F, q) == IsFiniteSet(DOMAIN F) /\ \A i \in DOMAIN F : F[i] \in Row(q)

LEMMA RowParts ==
  ASSUME NEW q \in Query, NEW r \in Row(q)
  PROVE  /\ Len(q.Sum) \in Nat /\ Len(q.GroupBy) \in Nat /\ Len(q.Where) \in Nat
         /\ r.GroupByEnc \in Vec(Len(q.GroupBy))
         /\ r.WhereEnc \in Vec(Len(q.Where))
         /\ r.AggregatingAttributes \in Vec(Len(q.Sum))
         /\ r = [GroupByEnc |-> r.GroupByEnc, WhereEnc |-> r.WhereEnc,
                 AggregatingAttributes |-> r.AggregatingAttributes]
         /\ \A a \in 1..Len(q.Sum) : r.AggregatingAttributes[a] \in Int
<1>1. /\ r.GroupByEnc \in Vec(Len(q.GroupBy)) /\ r.WhereEnc \in Vec(Len(q.Where))
      /\ r.AggregatingAttributes \in Vec(Len(q.Sum))
      /\ r = [GroupByEnc |-> r.GroupByEnc, WhereEnc |-> r.WhereEnc,
              AggregatingAttributes |-> r.AggregatingAttributes]
  BY DEF Row
<1>2. Len(q.Sum) \in Nat /\ Len(q.GroupBy) \in Nat /\ Len(q.Where) \in Nat
  BY DEF Query
<1>3. \A a \in 1..Len(q.Sum) : r.AggregatingAttributes[a] \in Int
  BY <1>1, ElementOfSeq DEF Vec
<1> QED BY <1>1, <1>2, <1>3

LEMMA ShareInts ==
  ASSUME NEW q \in Query, NEW F, Rows(F, q), NEW X, NEW a \in 1..Len(q.Sum)
  PROVE  Ints(Share(F, X, a), DOMAIN F)
<1> SUFFICES ASSUME NEW i \in DOMAIN F PROVE Share(F, X, a)[i] \in Int
  BY DEF Ints
<1>1. F[i].AggregatingAttributes[a] \in Int
  BY RowParts DEF Rows
<1> QED BY <1>1 DEF Share

LEMMA WeightType ==
  ASSUME NEW q \in Query, NEW F, Rows(F, q), NEW X, NEW a \in 1..Len(q.Sum)
  PROVE  Weight(F, X, a) \in Int
BY ShareInts, TotalType DEF Weight, Rows

LEMMA WeightNone ==
  ASSUME NEW F, DOMAIN F = {}, NEW X, NEW a
  PROVE  Weight(F, X, a) = 0 /\ Keys(F) = {}
BY TotalNone DEF Weight, Keys

(* One row more.                                                           *)
LEMMA WeightMore ==
  ASSUME NEW q \in Query, NEW F, NEW G, Rows(F, q), Rows(G, q),
         NEW x, x \notin DOMAIN F, DOMAIN G = DOMAIN F \cup {x}, \A i \in DOMAIN F : G[i] = F[i],
         NEW X, NEW a \in 1..Len(q.Sum)
  PROVE  Weight(G, X, a) = Weight(F, X, a)
                             + (IF KeyOf(G[x]) \in X THEN G[x].AggregatingAttributes[a] ELSE 0)
<1> DEFINE S == DOMAIN F
           u == Share(G, X, a)
           v == Share(F, X, a)
<1>1. IsFiniteSet(S) /\ Ints(u, S \cup {x}) /\ Ints(v, S)
  BY ShareInts DEF Rows
<1>2. /\ \A i \in S : u[i] = v[i]
      /\ u[x] = IF KeyOf(G[x]) \in X THEN G[x].AggregatingAttributes[a] ELSE 0
  BY DEF Share
<1>3. Weight(G, X, a) = Total(u, S \cup {x}) /\ Weight(F, X, a) = Total(v, S)
  BY DEF Weight
<1> HIDE DEF u, v, S
<1>5. x \notin S
  BY DEF S
<1>6. Total(u, S \cup {x}) = Total(u, S) + u[x]
  BY <1>1, <1>5, TotalAdd
<1>7. Total(u, S) = Total(v, S)
  BY <1>1, <1>2, TotalSame
<1> QED BY <1>2, <1>3, <1>6, <1>7

(* One row changed.                                                        *)
LEMMA WeightChanged ==
  ASSUME NEW q \in Query, NEW F, NEW G, Rows(F, q), Rows(G, q),
         DOMAIN G = DOMAIN F, NEW x \in DOMAIN F, \A i \in DOMAIN F \ {x} : G[i] = F[i],
         KeyOf(G[x]) = KeyOf(F[x]), NEW a \in 1..Len(q.Sum), NEW d \in Int,
         G[x].AggregatingAttributes[a] = F[x].AggregatingAttributes[a] + d, NEW X
  PROVE  Weight(G, X, a) = Weight(F, X, a) + (IF KeyOf(F[x]) \in X THEN d ELSE 0)
<1> DEFINE S == DOMAIN F
           u == Share(G, X, a)
           v == Share(F, X, a)
           e == IF KeyOf(F[x]) \in X THEN d ELSE 0
<1>1. IsFiniteSet(S) /\ Ints(u, S) /\ Ints(v, S) /\ x \in S
  BY ShareInts DEF Rows
<1>2. \A i \in S \ {x} : u[i] = v[i]
  BY DEF Share
<1>3. u[x] = v[x] + e
  <2>1. F[x].AggregatingAttributes[a] \in Int
    BY RowParts DEF Rows
  <2> QED BY <2>1 DEF Share
<1>4. Weight(G, X, a) = Total(u, S) /\ Weight(F, X, a) = Total(v, S)
  BY DEF Weight
<1>6. e \in Int /\ u[x] \in Int /\ v[x] \in Int /\ Total(v, S) \in Int
  BY <1>1, TotalType DEF Ints
<1> HIDE DEF u, v, S, e
<1>7. Total(u, S) = (Total(v, S) - v[x]) + u[x]
  BY <1>1, <1>2, <1>6, TotalChange
<1>8. Weight(G, X, a) = Weight(F, X, a) + e
  BY <1>3, <1>4, <1>6, <1>7
<1> QED BY <1>8 DEF e

(* The rows in other places.                                               *)
LEMMA WeightMoved ==
  ASSUME NEW q \in Query, NEW F, NEW G, Rows(F, q), Rows(G, q),
         NEW h \in [DOMAIN F -> DOMAIN G],
         \A i, j \in DOMAIN F : h[i] = h[j] => i = j,
         \A z \in DOMAIN G : \E i \in DOMAIN F : h[i] = z,
         \A i \in DOMAIN F : F[i] = G[h[i]], NEW X, NEW a \in 1..Len(q.Sum)
  PROVE  Weight(F, X, a) = Weight(G, X, a)
<1> DEFINE S == DOMAIN F
           R == DOMAIN G
           u == Share(F, X, a)
           v == Share(G, X, a)
<1>1. IsFiniteSet(S) /\ Ints(v, R)
  BY ShareInts DEF Rows
<1>2. \A i \in S : u[i] = v[h[i]]
  BY DEF Share
<1>3. Weight(F, X, a) = Total(u, S) /\ Weight(G, X, a) = Total(v, R)
  BY DEF Weight
<1>5. /\ h \in [S -> R] /\ \A i, j \in S : h[i] = h[j] => i = j
      /\ \A z \in R : \E i \in S : h[i] = z
  OBVIOUS
<1> HIDE DEF S, R, u, v
<1>6. Total(u, S) = Total(v, R)
  BY <1>1, <1>2, <1>5, TotalMoved
<1> QED BY <1>3, <1>6

LEMMA KeysMoved ==
  ASSUME NEW F, NEW G, NEW h \in [DOMAIN F -> DOMAIN G],
         \A z \in DOMAIN G : \E i \in DOMAIN F : h[i] = z,
         \A i \in DOMAIN F : F[i] = G[h[i]]
  PROVE  Keys(F) = Keys(G)
BY DEF Keys

LEMMA JoinedElements ==
  ASSUME NEW R, NEW F \in Seq(R), NEW G \in Seq(R)
  PROVE  /\ Len(F) \in Nat /\ Len(G) \in Nat
         /\ DOMAIN F = 1..Len(F) /\ DOMAIN G = 1..Len(G)
         /\ F \o G \in Seq(R) /\ DOMAIN (F \o G) = 1..(Len(F) + Len(G))
         /\ \A i \in 1..Len(F) : (F \o G)[i] = F[i]
         /\ \A i \in 1..Len(G) : (F \o G)[Len(F) + i] = G[i]
<1> DEFINE m == Len(F)
           n == Len(G)
           H == F \o G
<1>1. m \in Nat /\ n \in Nat /\ DOMAIN F = 1..m /\ DOMAIN G = 1..n
  BY LenProperties
<1>2. H \in Seq(R) /\ Len(H) = m + n
        /\ \A i \in 1..(m + n) : H[i] = IF i <= m THEN F[i] ELSE G[i - m]
  BY ConcatProperties
<1> HIDE DEF H, m, n
<1>3. \A i \in 1..m : i \in 1..(m + n) /\ i <= m
  BY <1>1
<1>4. \A i \in 1..n : m + i \in 1..(m + n) /\ ~ (m + i <= m) /\ (m + i) - m = i
  BY <1>1
<1>5. DOMAIN H = 1..(m + n)
  BY <1>2, LenProperties
<1>6. \A i \in 1..m : H[i] = F[i]
  BY <1>2, <1>3
<1>7. \A i \in 1..n : H[m + i] = G[i]
  BY <1>2, <1>4
<1> QED BY <1>1, <1>2, <1>5, <1>6, <1>7 DEF H, m, n

LEMMA KeysJoined ==
  ASSUME NEW R, NEW F \in Seq(R), NEW G \in Seq(R)
  PROVE  Keys(F \o G) = Keys(F) \cup Keys(G)
<1> DEFINE m == Len(F)
           n == Len(G)
           H == F \o G
<1>1. /\ m \in Nat /\ n \in Nat /\ DOMAIN F = 1..m /\ DOMAIN G = 1..n
      /\ DOMAIN H = 1..(m + n)
      /\ \A i \in 1..m : H[i] = F[i]
      /\ \A i \in 1..n : H[m + i] = G[i]
  BY JoinedElements
<1> HIDE DEF H, m, n
<1>2. \A i \in DOMAIN H : i \in 1..m \/ (i - m \in 1..n /\ m + (i - m) = i)
  BY <1>1
<1>3. \A i \in 1..n : m + i \in DOMAIN H
  BY <1>1
<1>4. \A i \in 1..m : i \in DOMAIN H
  BY <1>1
<1>5. Keys(H) \subseteq Keys(F) \cup Keys(G)
  BY <1>1, <1>2 DEF Keys
<1>6. Keys(F) \cup Keys(G) \subseteq Keys(H)
  BY <1>1, <1>3, <1>4 DEF Keys
<1> QED BY <1>5, <1>6 DEF H

(* Two sequences.                                                          *)
LEMMA WeightJoined ==
  ASSUME NEW q \in Query, NEW F \in Seq(Row(q)), NEW G \in Seq(Row(q)),
         NEW X, NEW a \in 1..Len(q.Sum)
  PROVE  Weight(F \o G, X, a) = Weight(F, X, a) + Weight(G, X, a)
<1> DEFINE m == Len(F)
           n == Len(G)
           H == F \o G
           A == 1..m
           B == (m + 1)..(m + n)
           w == Share(H, X, a)
           u == Share(F, X, a)
           v == Share(G, X, a)
<1>1. m \in Nat /\ n \in Nat /\ DOMAIN F = 1..m /\ DOMAIN G = 1..n
  BY JoinedElements
<1>2. /\ H \in Seq(Row(q)) /\ DOMAIN H = 1..(m + n)
      /\ \A i \in 1..m : H[i] = F[i]
      /\ \A i \in 1..n : H[m + i] = G[i]
  BY JoinedElements
<1> HIDE DEF m, n, H
<1>3. Rows(F, q) /\ Rows(G, q) /\ Rows(H, q)
  <2>1. IsFiniteSet(1..m) /\ IsFiniteSet(1..n) /\ IsFiniteSet(1..(m + n))
    BY <1>1, FS_Interval
  <2> QED BY <1>1, <1>2, <2>1, ElementOfSeq, LenProperties DEF Rows
<1>4. /\ 1..(m + n) = A \cup B /\ A \cap B = {} /\ IsFiniteSet(A) /\ IsFiniteSet(B)
      /\ IsFiniteSet(1..n)
  BY <1>1, FS_Interval
<1>5. Ints(w, A \cup B) /\ Ints(u, A) /\ Ints(v, 1..n)
  <2>1. Ints(w, DOMAIN H) /\ Ints(u, DOMAIN F) /\ Ints(v, DOMAIN G)
    BY <1>3, ShareInts
  <2> HIDE DEF A, B, u, v, w
  <2>2. DOMAIN H = A \cup B /\ DOMAIN F = A
    BY <1>1, <1>2, <1>4 DEF A
  <2> QED BY <1>1, <2>1, <2>2
<1>6. /\ \A i \in A : w[i] = u[i]
      /\ \A i \in 1..n : w[m + i] = v[i]
  <2>1. \A i \in 1..n : m + i \in DOMAIN H
    BY <1>1, <1>2
  <2>2. \A i \in A : i \in DOMAIN H
    BY <1>1, <1>2
  <2> QED BY <1>1, <1>2, <2>1, <2>2 DEF Share
<1>7. /\ Weight(H, X, a) = Total(w, A \cup B) /\ Weight(F, X, a) = Total(u, A)
      /\ Weight(G, X, a) = Total(v, 1..n)
  BY <1>1, <1>2, <1>4 DEF Weight
<1> HIDE DEF u, v, w
<1>9. Total(w, A) = Total(u, A)
  BY <1>4, <1>5, <1>6, TotalSame
<1>10. Total(v, 1..n) = Total(w, B)
  <2> DEFINE h == [i \in 1..n |-> m + i]
  <2>1. /\ h \in [1..n -> B] /\ \A i, j \in 1..n : h[i] = h[j] => i = j
        /\ \A i \in 1..n : v[i] = w[h[i]]
    BY <1>1, <1>6
  <2>2. \A z \in B : \E i \in 1..n : h[i] = z
    <3> SUFFICES ASSUME NEW z \in B PROVE \E i \in 1..n : h[i] = z
      OBVIOUS
    <3>1. z - m \in 1..n /\ m + (z - m) = z
      BY <1>1
    <3> QED BY <3>1
  <2>3. Ints(w, B)
    BY <1>5 DEF Ints
  <2> DEFINE I == 1..n
  <2>4. /\ IsFiniteSet(I) /\ h \in [I -> B] /\ \A i, j \in I : h[i] = h[j] => i = j
        /\ \A z \in B : \E i \in I : h[i] = z
        /\ \A i \in I : v[i] = w[h[i]]
    BY <1>4, <2>1, <2>2
  <2> HIDE DEF h, B, I
  <2>5. Total(v, I) = Total(w, B)
    BY <2>3, <2>4, TotalMoved
  <2> QED BY <2>5 DEF I
<1>11. Total(w, A \cup B) = Total(w, A) + Total(w, B)
  <2> HIDE DEF A, B
  <2> QED BY <1>4, <1>5, TotalUnion
<1> QED BY <1>7, <1>9, <1>10, <1>11 DEF H

LEMMA RowsOfSeq ==
  ASSUME NEW q \in Query, NEW F \in Seq(Row(q))
  PROVE  Rows(F, q)
<1>1. DOMAIN F = 1..Len(F) /\ Len(F) \in Nat /\ \A i \in 1..Len(F) : F[i] \in Row(q)
  BY LenProperties, ElementOfSeq
<1> QED BY <1>1, FS_Interval DEF Rows

LEMMA AppendedElements ==
  ASSUME NEW R, NEW F \in Seq(R), NEW r \in R
  PROVE  /\ Len(F) \in Nat /\ DOMAIN F = 1..Len(F)
         /\ Append(F, r) \in Seq(R) /\ DOMAIN Append(F, r) = 1..(Len(F) + 1)
         /\ \A i \in 1..Len(F) : Append(F, r)[i] = F[i]
         /\ Append(F, r)[Len(F) + 1] = r
<1> DEFINE n == Len(F)
           G == Append(F, r)
<1>1. G \in Seq(R) /\ Len(G) = n + 1 /\ \A i \in 1..n : G[i] = F[i]
  BY AppendProperties
<1>2. G[n + 1] = r
  BY AppendProperties
<1> HIDE DEF G
<1>3. DOMAIN G = 1..(n + 1) /\ n \in Nat /\ DOMAIN F = 1..n
  BY <1>1, LenProperties
<1> QED BY <1>1, <1>2, <1>3 DEF G

LEMMA KeysAppended ==
  ASSUME NEW R, NEW F \in Seq(R), NEW r \in R
  PROVE  Keys(Append(F, r)) = Keys(F) \cup {KeyOf(r)}
<1> DEFINE n == Len(F)
           G == Append(F, r)
<1>1. /\ n \in Nat /\ DOMAIN F = 1..n /\ DOMAIN G = 1..(n + 1)
      /\ \A i \in 1..n : G[i] = F[i]
      /\ G[n + 1] = r
  BY AppendedElements
<1> HIDE DEF n, G
<1>2. DOMAIN G = DOMAIN F \cup {n + 1}
  BY <1>1
<1>3. \A i \in DOMAIN F : G[i] = F[i]
  BY <1>1
<1> HIDE DEF KeyOf
<1>4. Keys(G) = Keys(F) \cup {KeyOf(G[n + 1])}
  BY <1>2, <1>3 DEF Keys
<1> QED BY <1>1, <1>4 DEF G

LEMMA WeightAppended ==
  ASSUME NEW q \in Query, NEW F \in Seq(Row(q)), NEW r \in Row(q),
         NEW X, NEW a \in 1..Len(q.Sum)
  PROVE  Weight(Append(F, r), X, a) = Weight(F, X, a)
                                        + (IF KeyOf(r) \in X THEN r.AggregatingAttributes[a] ELSE 0)
<1> DEFINE n == Len(F)
           G == Append(F, r)
<1>1. /\ n \in Nat /\ DOMAIN F = 1..n /\ G \in Seq(Row(q)) /\ DOMAIN G = 1..(n + 1)
      /\ \A i \in 1..n : G[i] = F[i]
      /\ G[n + 1] = r
  BY AppendedElements
<1> HIDE DEF n, G
<1>2. Rows(F, q) /\ Rows(G, q)
  BY <1>1, RowsOfSeq
<1> DEFINE x == n + 1
<1>3. x \notin DOMAIN F /\ DOMAIN G = DOMAIN F \cup {x} /\ \A i \in DOMAIN F : G[i] = F[i]
  BY <1>1
<1>4. G[x] = r
  BY <1>1
<1> HIDE DEF x
<1>5. Weight(G, X, a) = Weight(F, X, a)
                          + (IF KeyOf(G[x]) \in X THEN G[x].AggregatingAttributes[a] ELSE 0)
  BY <1>2, <1>3, WeightMore
<1> QED BY <1>4, <1>5 DEF G

-----------------------------------------------------------------------------
(* What a store holds before the shuffle: the slice and the map together   *)
(* amount to the rows of a sequence G.                                     *)
Holds(st, G, q) ==
  /\ \A k \in DOMAIN st.DpResponsesAggr : KeyOf(st.DpResponsesAggr[k]) = k
  /\ Keys(st.DpResponses) \cup DOMAIN st.DpResponsesAggr = Keys(G)
  /\ \A X : \A a \in 1..Len(q.Sum) :
       Weight(st.DpResponses, X, a) + Weight(st.DpResponsesAggr, X, a) = Weight(G, X, a)

LEMMA InsertHolds ==
  ASSUME NEW q \in Query, NEW st, StoreOK(st, q), NEW G \in Seq(Row(q)), NEW cr,
         NewResponse(cr, q) \in Row(q), Holds(st, G, q)
  PROVE  Holds(InsertDpResponse(st, cr, q), Append(G, NewResponse(cr, q)), q)
<1> DEFINE r == NewResponse(cr, q)
           key == <<r.GroupByEnc, r.WhereEnc>>
           map == st.DpResponsesAggr
           st1 == InsertDpResponse(st, cr, q)
           G1 == Append(G, r)
           c(X, a) == IF key \in X THEN r.AggregatingAttributes[a] ELSE 0
<1>1. StoreOK(st1, q)
  BY InsertKeepsRows
<1>2. /\ st.DpResponses \in Seq(Row(q)) /\ st1.DpResponses \in Seq(Row(q))
      /\ Rows(st.DpResponses, q) /\ Rows(st1.DpResponses, q) /\ Rows(G, q)
      /\ Rows(map, q) /\ Rows(st1.DpResponsesAggr, q)
  <2>1. st.DpResponses \in Seq(Row(q)) /\ st1.DpResponses \in Seq(Row(q))
    BY <1>1 DEF StoreOK
  <2>2. Rows(map, q) /\ Rows(st1.DpResponsesAggr, q)
    BY <1>1 DEF StoreOK, MapOf, Rows
  <2> HIDE DEF st1
  <2> QED BY <2>1, <2>2, RowsOfSeq
<1>3. r \in Row(q) /\ KeyOf(r) = key
  BY DEF KeyOf
<1>4. \A X : \A a \in 1..Len(q.Sum) :
        /\ Weight(st.DpResponses, X, a) \in Int /\ Weight(map, X, a) \in Int
        /\ Weight(G, X, a) \in Int /\ c(X, a) \in Int
        /\ Weight(st.DpResponses, X, a) + Weight(map, X, a) = Weight(G, X, a)
  <2> SUFFICES ASSUME NEW X, NEW a \in 1..Len(q.Sum)
               PROVE  /\ Weight(st.DpResponses, X, a) \in Int /\ Weight(map, X, a) \in Int
                      /\ Weight(G, X, a) \in Int /\ c(X, a) \in Int
                      /\ Weight(st.DpResponses, X, a) + Weight(map, X, a) = Weight(G, X, a)
    OBVIOUS
  <2>1. Weight(st.DpResponses, X, a) \in Int /\ Weight(map, X, a) \in Int /\ Weight(G, X, a) \in Int
    BY <1>2, WeightType
  <2>2. r.AggregatingAttributes[a] \in Int
    BY <1>3, RowParts
  <2> HIDE DEF r
  <2> QED BY <2>1, <2>2 DEF Holds
<1>5. /\ \A k \in DOMAIN map : KeyOf(map[k]) = k
      /\ Keys(st.DpResponses) \cup DOMAIN map = Keys(G)
  BY DEF Holds
<1> HIDE DEF r
<1>6. \A X : \A a \in 1..Len(q.Sum) : Weight(G1, X, a) = Weight(G, X, a) + c(X, a)
  BY <1>3, WeightAppended
<1>8. Keys(G1) = Keys(G) \cup {key}
  BY <1>3, KeysAppended
<1>9. CASE ~ NoEnc(cr)
  <2>1. st1 = [st EXCEPT !.DpResponses = Append(@, r)]
    BY <1>9 DEF InsertDpResponse, r
  <2>2. st1.DpResponses = Append(st.DpResponses, r) /\ st1.DpResponsesAggr = map
    BY <2>1 DEF StoreOK, StoreField
  <2>3. \A X : \A a \in 1..Len(q.Sum) :
          Weight(st1.DpResponses, X, a) = Weight(st.DpResponses, X, a) + c(X, a)
    BY <1>2, <1>3, <2>2, WeightAppended
  <2>4. Keys(st1.DpResponses) = Keys(st.DpResponses) \cup {key}
    BY <1>2, <1>3, <2>2, KeysAppended
  <2> HIDE DEF st1, G1, c
  <2>5. \A X : \A a \in 1..Len(q.Sum) :
          Weight(st1.DpResponses, X, a) + Weight(st1.DpResponsesAggr, X, a) = Weight(G1, X, a)
    BY <1>4, <1>6, <2>2, <2>3
  <2>6. Keys(st1.DpResponses) \cup DOMAIN st1.DpResponsesAggr = Keys(G1)
    BY <1>5, <1>8, <2>2, <2>4
  <2>7. \A k \in DOMAIN st1.DpResponsesAggr : KeyOf(st1.DpResponsesAggr[k]) = k
    BY <1>5, <2>2
  <2>8. Holds(st1, G1, q)
    BY <2>5, <2>6, <2>7 DEF Holds
  <2> QED BY <2>8 DEF st1, G1, r
<1>10. CASE NoEnc(cr) /\ key \notin DOMAIN map
  <2> DEFINE new == Put(map, key, r)
  <2>1. st1 = [st EXCEPT !.DpResponsesAggr = new]
    BY <1>10 DEF InsertDpResponse, r
  <2>2. st1.DpResponsesAggr = new /\ st1.DpResponses = st.DpResponses
    BY <2>1 DEF StoreOK, StoreField
  <2>3. DOMAIN new = DOMAIN map \cup {key} /\ new[key] = r /\ \A k \in DOMAIN map : new[k] = map[k]
    BY <1>10 DEF Put
  <2>4. Rows(new, q)
    BY <1>2, <2>2
  <2> HIDE DEF new, key
  <2>5. \A X : \A a \in 1..Len(q.Sum) : Weight(new, X, a) = Weight(map, X, a) + c(X, a)
    <3> SUFFICES ASSUME NEW X, NEW a \in 1..Len(q.Sum)
                 PROVE  Weight(new, X, a) = Weight(map, X, a) + c(X, a)
      OBVIOUS
    <3>1. Rows(map, q) /\ Rows(new, q) /\ key \notin DOMAIN map
      BY <1>2, <1>10, <2>4
    <3> HIDE DEF map
    <3>2. Weight(new, X, a) = Weight(map, X, a)
            + (IF KeyOf(new[key]) \in X THEN new[key].AggregatingAttributes[a] ELSE 0)
      BY <2>3, <3>1, WeightMore
    <3> QED BY <1>3, <2>3, <3>2
  <2> HIDE DEF st1, G1, c
  <2>6. \A X : \A a \in 1..Len(q.Sum) :
          Weight(st1.DpResponses, X, a) + Weight(st1.DpResponsesAggr, X, a) = Weight(G1, X, a)
    BY <1>4, <1>6, <2>2, <2>5
  <2>7. Keys(st1.DpResponses) \cup DOMAIN st1.DpResponsesAggr = Keys(G1)
    BY <1>5, <1>8, <2>2, <2>3
  <2>8. \A k \in DOMAIN st1.DpResponsesAggr : KeyOf(st1.DpResponsesAggr[k]) = k
    BY <1>3, <1>5, <2>2, <2>3
  <2>9. Holds(st1, G1, q)
    BY <2>6, <2>7, <2>8 DEF Holds
  <2> QED BY <2>9 DEF st1, G1, r
<1>11. CASE NoEnc(cr) /\ key \in DOMAIN map
  <2> DEFINE sum == AddVectors(map[key].AggregatingAttributes, r.AggregatingAttributes)
             new == [map EXCEPT ![key].AggregatingAttributes = sum]
  <2>1. st1 = [st EXCEPT !.DpResponsesAggr = new]
    BY <1>11 DEF InsertDpResponse, r
  <2>2. st1.DpResponsesAggr = new /\ st1.DpResponses = st.DpResponses
    BY <2>1 DEF StoreOK, StoreField
  <2>3. map[key] \in Row(q)
    BY <1>2, <1>11 DEF Rows
  <2>4. \A a \in 1..Len(q.Sum) : sum[a] = map[key].AggregatingAttributes[a] + r.AggregatingAttributes[a]
    <3>1. DOMAIN map[key].AggregatingAttributes = 1..Len(q.Sum)
      <4>1. map[key].AggregatingAttributes \in Vec(Len(q.Sum))
        BY <2>3, RowParts
      <4>2. \A v \in Vec(Len(q.Sum)) : DOMAIN v = 1..Len(q.Sum)
        BY LenProperties DEF Vec
      <4> QED BY <4>1, <4>2
    <3> QED BY <3>1 DEF AddVectors
  <2> HIDE DEF sum
  <2>5. /\ DOMAIN new = DOMAIN map /\ \A k \in DOMAIN map \ {key} : new[k] = map[k]
        /\ new[key].AggregatingAttributes = sum /\ KeyOf(new[key]) = KeyOf(map[key])
    <3>1. new[key] = [map[key] EXCEPT !.AggregatingAttributes = sum]
      BY <1>11 DEF StoreOK, MapOf
    <3>2. map[key] = [GroupByEnc |-> map[key].GroupByEnc, WhereEnc |-> map[key].WhereEnc,
                      AggregatingAttributes |-> map[key].AggregatingAttributes]
      BY <2>3, RowParts
    <3>3. DOMAIN new = DOMAIN map /\ \A k \in DOMAIN map \ {key} : new[k] = map[k]
      BY DEF StoreOK, MapOf
    <3> QED BY <3>1, <3>2, <3>3 DEF KeyOf
  <2>6. Rows(new, q)
    BY <1>2, <2>2
  <2> HIDE DEF new
  <2>7. \A X : \A a \in 1..Len(q.Sum) : Weight(new, X, a) = Weight(map, X, a) + c(X, a)
    <3> SUFFICES ASSUME NEW X, NEW a \in 1..Len(q.Sum)
                 PROVE  Weight(new, X, a) = Weight(map, X, a) + c(X, a)
      OBVIOUS
    <3> DEFINE d == r.AggregatingAttributes[a]
    <3>1. d \in Int
      BY <1>3, RowParts
    <3>2. new[key].AggregatingAttributes[a] = map[key].AggregatingAttributes[a] + d
      BY <2>4, <2>5
    <3>3. KeyOf(map[key]) = key
      BY <1>5, <1>11
    <3>4. c(X, a) = IF KeyOf(map[key]) \in X THEN d ELSE 0
      BY <3>3
    <3> HIDE DEF d, c, key, map
    <3>5. key \in DOMAIN map
      BY <1>11
    <3> QED BY <1>2, <2>5, <2>6, <3>1, <3>2, <3>4, <3>5, WeightChanged
  <2> HIDE DEF st1, G1, c
  <2>8. \A X : \A a \in 1..Len(q.Sum) :
          Weight(st1.DpResponses, X, a) + Weight(st1.DpResponsesAggr, X, a) = Weight(G1, X, a)
    BY <1>4, <1>6, <2>2, <2>7
  <2>9. Keys(st1.DpResponses) \cup DOMAIN st1.DpResponsesAggr = Keys(G1)
    BY <1>5, <1>8, <1>11, <2>2, <2>5
  <2>10. \A k \in DOMAIN st1.DpResponsesAggr : KeyOf(st1.DpResponsesAggr[k]) = k
    BY <1>5, <1>11, <2>2, <2>5
  <2>11. Holds(st1, G1, q)
    BY <2>8, <2>9, <2>10 DEF Holds
  <2> QED BY <2>11 DEF st1, G1, r
<1> QED BY <1>9, <1>10, <1>11

-----------------------------------------------------------------------------
(* An order of a finite set goes through all of it.                        *)
LEMMA OrderOnto ==
  ASSUME NEW S, IsFiniteSet(S), NEW order \in Orders(S)
  PROVE  /\ Cardinality(S) \in Nat /\ DOMAIN order = 1..Cardinality(S)
         /\ order \in [1..Cardinality(S) -> S]
         /\ \A i, j \in 1..Cardinality(S) : order[i] = order[j] => i = j
         /\ \A z \in S : \E i \in 1..Cardinality(S) : order[i] = z
<1> DEFINE k == Cardinality(S)
<1>1. k \in Nat
  BY FS_CardinalityType
<1>2. order \in [1..k -> S] /\ \A i, j \in 1..k : order[i] = order[j] => i = j
  BY DEF Orders
<1>3. order \in Injection(1..k, S)
  BY <1>2 DEF Injection, IsInjective
<1>4. Cardinality(1..k) = k
  BY <1>1, FS_Interval
<1>5. order \in Surjection(1..k, S)
  <2> HIDE DEF k
  <2>1. k = Cardinality(S)
    BY DEF k
  <2> QED BY <1>3, <1>4, <2>1, FS_Injection
<1>6. \A z \in S : \E i \in 1..k : order[i] = z
  BY <1>5 DEF Surjection
<1> QED BY <1>1, <1>2, <1>6

Alike(F, G, q) ==
  /\ Keys(F) = Keys(G)
  /\ \A X : \A a \in 1..Len(q.Sum) : Weight(F, X, a) = Weight(G, X, a)

(* What is pulled amounts to what the store holds.                         *)
LEMMA PulledAlike ==
  ASSUME NEW q \in Query, NEW st, StoreOK(st, q), NEW G, Holds(st, G, q),
         NEW pulled \in PullDpResponses(st)
  PROVE  Alike(pulled, G, q)
<1> DEFINE map == st.DpResponsesAggr
           S == DOMAIN map
           k == Cardinality(S)
           F == st.DpResponses
<1>1. PICK order \in Orders(S) : pulled = F \o [i \in DOMAIN order |-> map[order[i]]]
  BY DEF PullDpResponses
<1> DEFINE M == [i \in DOMAIN order |-> map[order[i]]]
<1>2. IsFiniteSet(S) /\ F \in Seq(Row(q)) /\ \A x \in S : map[x] \in Row(q)
  BY DEF StoreOK, MapOf
<1>3. /\ k \in Nat /\ DOMAIN order = 1..k /\ order \in [1..k -> S]
      /\ \A i, j \in 1..k : order[i] = order[j] => i = j
      /\ \A z \in S : \E i \in 1..k : order[i] = z
  <2> HIDE DEF S
  <2> QED BY <1>2, OrderOnto
<1>4. M \in Seq(Row(q)) /\ DOMAIN M = 1..k /\ \A i \in 1..k : M[i] = map[order[i]]
  <2> HIDE DEF S, k, map
  <2>1. M \in [1..k -> Row(q)]
    BY <1>2, <1>3
  <2> QED BY <1>3, <2>1
<1> HIDE DEF M
<1>5. Rows(map, q) /\ Rows(M, q)
  BY <1>2, <1>4, RowsOfSeq DEF Rows
<1>6. Keys(M) = Keys(map)
  <2> HIDE DEF map
  <2> QED BY <1>3, <1>4, KeysMoved
<1>7. \A X : \A a \in 1..Len(q.Sum) : Weight(M, X, a) = Weight(map, X, a)
  <2> SUFFICES ASSUME NEW X, NEW a \in 1..Len(q.Sum) PROVE Weight(M, X, a) = Weight(map, X, a)
    OBVIOUS
  <2>1. /\ order \in [DOMAIN M -> DOMAIN map]
        /\ \A i, j \in DOMAIN M : order[i] = order[j] => i = j
        /\ \A z \in DOMAIN map : \E i \in DOMAIN M : order[i] = z
        /\ \A i \in DOMAIN M : M[i] = map[order[i]]
    BY <1>3, <1>4
  <2> HIDE DEF map, k
  <2> QED BY <1>5, <2>1, WeightMoved
<1>8. Keys(map) = S
  BY DEF Holds, Keys
<1>9. \A X : \A a \in 1..Len(q.Sum) : Weight(pulled, X, a) = Weight(F, X, a) + Weight(M, X, a)
  <2> SUFFICES ASSUME NEW X, NEW a \in 1..Len(q.Sum)
               PROVE Weight(pulled, X, a) = Weight(F, X, a) + Weight(M, X, a)
    OBVIOUS
  <2>1. pulled = F \o M
    BY <1>1 DEF M
  <2> HIDE DEF F
  <2> QED BY <1>2, <1>4, <2>1, WeightJoined DEF F
<1>10. Keys(pulled) = Keys(F) \cup Keys(M)
  <2>1. pulled = F \o M
    BY <1>1 DEF M
  <2> HIDE DEF F
  <2> QED BY <1>2, <1>4, <2>1, KeysJoined DEF F
<1>11. Keys(pulled) = Keys(G)
  BY <1>6, <1>8, <1>10 DEF Holds
<1> QED BY <1>7, <1>9, <1>11 DEF Alike, Holds

(* The dummy adds nothing, under a key that is there.                      *)
LEMMA DummyAlike ==
  ASSUME NEW q \in Query, NEW pr \in Seq(Row(q))
  PROVE  Alike(WithDummy(pr), pr, q)
<1>1. CASE Len(pr) = 1
  <2> DEFINE zero == [a \in DOMAIN pr[1].AggregatingAttributes |-> 0]
             dummy == [pr[1] EXCEPT !.AggregatingAttributes = zero]
  <2>1. pr[1] \in Row(q) /\ DOMAIN pr = 1..1
    BY <1>1
  <2>2. /\ DOMAIN pr[1].AggregatingAttributes = 1..Len(q.Sum) /\ Len(q.Sum) \in Nat
        /\ pr[1] = [GroupByEnc |-> pr[1].GroupByEnc, WhereEnc |-> pr[1].WhereEnc,
                    AggregatingAttributes |-> pr[1].AggregatingAttributes]
    <3>1. /\ pr[1].AggregatingAttributes \in Vec(Len(q.Sum)) /\ Len(q.Sum) \in Nat
          /\ pr[1] = [GroupByEnc |-> pr[1].GroupByEnc, WhereEnc |-> pr[1].WhereEnc,
                      AggregatingAttributes |-> pr[1].AggregatingAttributes]
      BY <2>1, RowParts
    <3>2. \A v \in Vec(Len(q.Sum)) : DOMAIN v = 1..Len(q.Sum)
      BY LenProperties DEF Vec
    <3> QED BY <3>1, <3>2
  <2>3. \A a \in 1..Len(q.Sum) : zero[a] = 0
    BY <2>2
  <2>4. zero \in Vec(Len(q.Sum))
    <3>1. zero \in [1..Len(q.Sum) -> Int]
      BY <2>2
    <3> QED BY <2>2, <3>1 DEF Vec
  <2> HIDE DEF zero
  <2>5. dummy \in Row(q)
    BY <2>1, <2>4 DEF Row
  <2>6. KeyOf(dummy) = KeyOf(pr[1]) /\ dummy.AggregatingAttributes = zero
    BY <2>2 DEF KeyOf
  <2> HIDE DEF dummy
  <2>7. WithDummy(pr) = Append(pr, dummy)
    BY <1>1 DEF WithDummy, dummy, zero
  <2>8. Keys(Append(pr, dummy)) = Keys(pr)
    <3>1. KeyOf(dummy) \in Keys(pr)
      BY <2>1, <2>6 DEF Keys
    <3>2. Keys(Append(pr, dummy)) = Keys(pr) \cup {KeyOf(dummy)}
      BY <2>5, KeysAppended
    <3> QED BY <3>1, <3>2
  <2>9. \A X : \A a \in 1..Len(q.Sum) : Weight(Append(pr, dummy), X, a) = Weight(pr, X, a)
    <3> SUFFICES ASSUME NEW X, NEW a \in 1..Len(q.Sum)
                 PROVE  Weight(Append(pr, dummy), X, a) = Weight(pr, X, a)
      OBVIOUS
    <3>1. Weight(Append(pr, dummy), X, a)
            = Weight(pr, X, a) + (IF KeyOf(dummy) \in X THEN dummy.AggregatingAttributes[a] ELSE 0)
      BY <2>5, WeightAppended
    <3>2. dummy.AggregatingAttributes[a] = 0
      BY <2>3, <2>6
    <3>3. Weight(pr, X, a) \in Int
      BY RowsOfSeq, WeightType
    <3> QED BY <3>1, <3>2, <3>3
  <2> QED BY <2>7, <2>8, <2>9 DEF Alike
<1>2. CASE Len(pr) # 1
  <2>1. WithDummy(pr) = pr
    BY <1>2 DEF WithDummy
  <2> QED BY <2>1 DEF Alike
<1> QED BY <1>1, <1>2

(* Neither does the order of the rows change what they amount to.          *)
LEMMA ShuffledAlike ==
  ASSUME NEW q \in Query, NEW pr \in Seq(Row(q)),
         NEW pi \in Orders(DOMAIN ProcessResponseToMatrixCipherText(pr))
  PROVE  Alike(MatrixCipherTextToProcessResponse(
                 [i \in DOMAIN pi |-> ProcessResponseToMatrixCipherText(pr)[pi[i]]], LengthsOf(pr)),
               pr, q)
<1> DEFINE n == Len(pr)
           back == MatrixCipherTextToProcessResponse(
                     [i \in DOMAIN pi |-> ProcessResponseToMatrixCipherText(pr)[pi[i]]], LengthsOf(pr))
<1>1. n \in Nat /\ DOMAIN pr = 1..n /\ DOMAIN ProcessResponseToMatrixCipherText(pr) = 1..n
  BY LenProperties DEF ProcessResponseToMatrixCipherText
<1>2. /\ pi \in [1..n -> 1..n] /\ \A i, j \in 1..n : pi[i] = pi[j] => i = j
      /\ \A z \in 1..n : \E i \in 1..n : pi[i] = z
  <2>1. IsFiniteSet(1..n) /\ Cardinality(1..n) = n
    <3> HIDE DEF n
    <3> QED BY <1>1, FS_Interval
  <2> DEFINE S == 1..n
  <2>2. pi \in Orders(S)
    BY <1>1
  <2> HIDE DEF S, n
  <2>3. IsFiniteSet(S) /\ Cardinality(S) = n
    BY <2>1 DEF S
  <2>4. /\ pi \in [1..n -> S] /\ \A i, j \in 1..n : pi[i] = pi[j] => i = j
        /\ \A z \in S : \E i \in 1..n : pi[i] = z
    BY <2>2, <2>3, OrderOnto
  <2> QED BY <2>4 DEF S
<1>3. back \in Seq(Row(q))
  BY ShuffledRows
<1>4. DOMAIN back = 1..n /\ \A i \in 1..n : back[i] = pr[pi[i]]
  <2>1. DOMAIN back = 1..n
    BY <1>1 DEF MatrixCipherTextToProcessResponse, LengthsOf
  <2>2. \A i \in DOMAIN pr : back[i] = pr[pi[i]]
    BY RowsStayWhole
  <2> QED BY <1>1, <2>1, <2>2
<1> HIDE DEF back, n
<1>5. Rows(back, q) /\ Rows(pr, q)
  BY <1>3, RowsOfSeq
<1>9. /\ pi \in [DOMAIN back -> DOMAIN pr]
      /\ \A i, j \in DOMAIN back : pi[i] = pi[j] => i = j
      /\ \A z \in DOMAIN pr : \E i \in DOMAIN back : pi[i] = z
      /\ \A i \in DOMAIN back : back[i] = pr[pi[i]]
  BY <1>1, <1>2, <1>4
<1>6. Keys(back) = Keys(pr)
  BY <1>9, KeysMoved
<1>7. ASSUME NEW X, NEW a \in 1..Len(q.Sum) PROVE Weight(back, X, a) = Weight(pr, X, a)
  BY <1>5, <1>9, WeightMoved
<1>8. Alike(back, pr, q)
  BY <1>6, <1>7 DEF Alike
<1> QED BY <1>8 DEF back

-----------------------------------------------------------------------------
(* Maps of sums: for keys K[i] and records R[i], the map that holds for    *)
(* each key of an index in X the sum of the records with that key.         *)
TagVec(g) == [i \in DOMAIN g |-> Tag(g[i])]
Untag(t) == [i \in DOMAIN t |-> t[i][2]]

Part(K, R, k, a) == [i \in DOMAIN K |-> IF K[i] = k THEN R[i].AggregatingAttributes[a] ELSE 0]

Entry(K, R, X, k, n) ==
  [GroupByEnc |-> Untag(k), AggregatingAttributes |-> [a \in 1..n |-> Total(Part(K, R, k, a), X)]]

SumOver(K, R, X, n) == [k \in {K[i] : i \in X} |-> Entry(K, R, X, k, n)]

Recs(K, R, n) == IsFiniteSet(DOMAIN K) /\ \A i \in DOMAIN K : R[i].AggregatingAttributes \in Vec(n)

LEMMA PartInts ==
  ASSUME NEW n \in Nat, NEW K, NEW R, Recs(K, R, n), NEW k, NEW a \in 1..n, NEW X \in SUBSET DOMAIN K
  PROVE  IsFiniteSet(X) /\ Ints(Part(K, R, k, a), X) /\ Total(Part(K, R, k, a), X) \in Int
<1>1. IsFiniteSet(X)
  BY FS_Subset DEF Recs
<1>2. \A i \in X : R[i].AggregatingAttributes[a] \in Int
  <2> SUFFICES ASSUME NEW i \in X PROVE R[i].AggregatingAttributes[a] \in Int
    OBVIOUS
  <2>1. R[i].AggregatingAttributes \in Vec(n)
    BY DEF Recs
  <2> QED BY <2>1, ElementOfSeq DEF Vec
<1>3. Ints(Part(K, R, k, a), X)
  BY <1>2 DEF Ints, Part
<1> QED BY <1>1, <1>3, TotalType

(* The records of one key are added together.                              *)
LEMMA AddGroup ==
  ASSUME NEW n \in Nat, NEW K, NEW R, Recs(K, R, n),
         NEW X \in SUBSET DOMAIN K, NEW G \in SUBSET DOMAIN K, X \cap G = {}, G # {},
         NEW k, \A i \in G : K[i] = k
  PROVE  AddInMap(SumOver(K, R, X, n), k, Entry(K, R, G, k, n)) = SumOver(K, R, X \cup G, n)
<1> DEFINE M == SumOver(K, R, X, n)
           N == SumOver(K, R, X \cup G, n)
           added == Entry(K, R, G, k, n)
           v(j, a) == Part(K, R, j, a)
           L == AddInMap(M, k, added)
<1>1. /\ DOMAIN M = {K[i] : i \in X} /\ DOMAIN N = {K[i] : i \in X} \cup {k}
      /\ \A j \in DOMAIN M : M[j] = Entry(K, R, X, j, n)
      /\ \A j \in DOMAIN N : N[j] = Entry(K, R, X \cup G, j, n)
      /\ N = [j \in DOMAIN N |-> N[j]] /\ M = [j \in DOMAIN M |-> M[j]]
  BY DEF SumOver
<1>2. ASSUME NEW j, NEW a \in 1..n
      PROVE  Total(v(j, a), X \cup G)
               = IF j = k THEN Total(v(k, a), X) + Total(v(k, a), G) ELSE Total(v(j, a), X)
  <2>1. /\ IsFiniteSet(X) /\ IsFiniteSet(G) /\ IsFiniteSet(X \cup G)
        /\ Ints(v(j, a), X \cup G) /\ Ints(v(j, a), X)
    BY PartInts
  <2>2. CASE j = k
    <3> HIDE DEF v
    <3> QED BY <2>1, <2>2, TotalUnion
  <2>3. CASE j # k
    <3>1. \A i \in (X \cup G) \ X : v(j, a)[i] = 0
      BY <2>3 DEF Part
    <3> HIDE DEF v
    <3>2. Total(v(j, a), X \cup G) = Total(v(j, a), X)
      BY <2>1, <3>1, TotalRestrict
    <3> QED BY <2>3, <3>2
  <2> QED BY <2>2, <2>3
<1>3. ASSUME NEW j, j # k PROVE Entry(K, R, X \cup G, j, n) = Entry(K, R, X, j, n)
  <2>1. \A a \in 1..n : Total(v(j, a), X \cup G) = Total(v(j, a), X)
    BY <1>2, <1>3
  <2> QED BY <2>1 DEF Entry
<1>4. CASE k \notin DOMAIN M
  <2>1. ASSUME NEW a \in 1..n PROVE Total(v(k, a), X \cup G) = Total(v(k, a), G)
    <3>1. \A i \in X : v(k, a)[i] = 0
      BY <1>1, <1>4 DEF Part
    <3>2. IsFiniteSet(X) /\ Total(v(k, a), G) \in Int
      BY PartInts
    <3>3. Total(v(k, a), X \cup G) = Total(v(k, a), X) + Total(v(k, a), G)
      BY <1>2
    <3> HIDE DEF v
    <3>4. Total(v(k, a), X) = 0
      BY <3>1, <3>2, TotalZero
    <3> QED BY <3>2, <3>3, <3>4
  <2>2. Entry(K, R, X \cup G, k, n) = added
    BY <2>1 DEF Entry
  <2>3. L = [j \in DOMAIN M \cup {k} |-> IF j = k THEN added ELSE M[j]]
    BY <1>4 DEF AddInMap, Put
  <2> HIDE DEF M, N, added, L
  <2>4. \A j \in DOMAIN N : N[j] = IF j = k THEN added ELSE M[j]
    BY <1>1, <1>3, <2>2
  <2>5. DOMAIN N = DOMAIN M \cup {k}
    BY <1>1
  <2> QED BY <1>1, <2>3, <2>4, <2>5 DEF L, M, N, added
<1>5. CASE k \in DOMAIN M
  <2> DEFINE old == M[k].AggregatingAttributes
             sum == AddVectors(old, added.AggregatingAttributes)
  <2>1. L = [M EXCEPT ![k].AggregatingAttributes = sum]
    BY <1>5 DEF AddInMap
  <2>2. /\ M[k] = [GroupByEnc |-> Untag(k), AggregatingAttributes |-> old]
        /\ old = [a \in 1..n |-> Total(v(k, a), X)]
    <3>1. M[k] = Entry(K, R, X, k, n)
      BY <1>1, <1>5
    <3> HIDE DEF M
    <3> QED BY <3>1 DEF Entry
  <2>3. added.AggregatingAttributes = [a \in 1..n |-> Total(v(k, a), G)]
    BY DEF Entry
  <2>4. sum = [a \in 1..n |-> Total(v(k, a), X) + Total(v(k, a), G)]
    BY <2>2, <2>3 DEF AddVectors
  <2>5. sum = [a \in 1..n |-> Total(v(k, a), X \cup G)]
    BY <1>2, <2>4
  <2>6. Entry(K, R, X \cup G, k, n) = [GroupByEnc |-> Untag(k), AggregatingAttributes |-> sum]
    BY <2>5 DEF Entry
  <2> HIDE DEF M, N, added, L, sum, old
  <2>7. L = [j \in DOMAIN M |-> IF j = k THEN [M[k] EXCEPT !.AggregatingAttributes = sum] ELSE M[j]]
    BY <1>5, <2>1
  <2>8. [M[k] EXCEPT !.AggregatingAttributes = sum]
          = [GroupByEnc |-> Untag(k), AggregatingAttributes |-> sum]
    BY <2>2
  <2>9. DOMAIN N = DOMAIN M
    BY <1>1, <1>5
  <2>10. \A j \in DOMAIN N : N[j] = IF j = k THEN [M[k] EXCEPT !.AggregatingAttributes = sum] ELSE M[j]
    BY <1>1, <1>3, <2>6, <2>8
  <2>11. L = N
    BY <1>1, <2>7, <2>9, <2>10
  <2> QED BY <2>11 DEF L, N, M, added
<1> QED BY <1>4, <1>5

LEMMA SumOverNone ==
  ASSUME NEW K, NEW R, NEW n
  PROVE  SumOver(K, R, {}, n) = <<>>
<1>1. DOMAIN SumOver(K, R, {}, n) = {} /\ SumOver(K, R, {}, n) = [k \in {} |-> Entry(K, R, {}, k, n)]
  BY DEF SumOver
<1>2. \A e : (\A k \in {} : e[k] = <<>>[k])
  OBVIOUS
<1> QED BY <1>1, <1>2

(* One record is a group of its own.                                       *)
IsRec(r, k) == r = [GroupByEnc |-> Untag(k), AggregatingAttributes |-> r.AggregatingAttributes]

LEMMA AddOne ==
  ASSUME NEW n \in Nat, NEW K, NEW R, Recs(K, R, n),
         NEW X \in SUBSET DOMAIN K, NEW x \in DOMAIN K \ X,
         IsRec(R[x], K[x])
  PROVE  AddInMap(SumOver(K, R, X, n), K[x], R[x]) = SumOver(K, R, X \cup {x}, n)
<1> DEFINE k == K[x]
           G == {x}
<1>1. R[x].AggregatingAttributes \in Vec(n)
  BY DEF Recs
<1>2. ASSUME NEW a \in 1..n PROVE Total(Part(K, R, k, a), G) = R[x].AggregatingAttributes[a]
  <2>1. Part(K, R, k, a)[x] = R[x].AggregatingAttributes[a]
    BY DEF Part
  <2>2. R[x].AggregatingAttributes[a] \in Int
    BY <1>1, ElementOfSeq DEF Vec
  <2> QED BY <2>1, <2>2, TotalSingle
<1>3. R[x].AggregatingAttributes = [a \in 1..n |-> R[x].AggregatingAttributes[a]]
  BY <1>1 DEF Vec
<1>4. Entry(K, R, G, k, n) = R[x]
  <2>1. [a \in 1..n |-> Total(Part(K, R, k, a), G)] = [a \in 1..n |-> R[x].AggregatingAttributes[a]]
    BY <1>2
  <2> QED BY <1>3, <2>1 DEF Entry, IsRec
<1>5. G \in SUBSET DOMAIN K /\ X \cap G = {} /\ G # {} /\ \A i \in G : K[i] = k
  OBVIOUS
<1> HIDE DEF k, G
<1>6. AddInMap(SumOver(K, R, X, n), k, Entry(K, R, G, k, n)) = SumOver(K, R, X \cup G, n)
  BY <1>5, AddGroup
<1> QED BY <1>4, <1>6 DEF k, G

(* The loop over the filtered responses.                                   *)
LEMMA PushIs ==
  ASSUME NEW n \in Nat, NEW det, Len(det) \in Nat, NEW K, NEW R, Recs(K, R, n),
         DOMAIN K = 1..Len(det),
         \A i \in 1..Len(det) :
           det[i].DetTagGroupBy = K[i] /\ det[i].Fr = R[i] /\ IsRec(R[i], K[i])
  PROVE  PushDeterministicFilteredResponses(<<>>, det) = SumOver(K, R, 1..Len(det), n)
<1> DEFINE N == Len(det)
           Loop(g) == g = [i \in 0..N |->
                             IF i = 0 THEN <<>> ELSE AddInMap(g[i - 1], det[i].DetTagGroupBy, det[i].Fr)]
           f == [i \in 0..N |-> SumOver(K, R, 1..i, n)]
<1>1. PushDeterministicFilteredResponses(<<>>, det) = (CHOOSE g : Loop(g))[N]
  BY DEF PushDeterministicFilteredResponses
<1>2. ASSUME NEW i \in 1..N
      PROVE  AddInMap(SumOver(K, R, 1..(i - 1), n), det[i].DetTagGroupBy, det[i].Fr) = SumOver(K, R, 1..i, n)
  <2> DEFINE X == 1..(i - 1)
  <2>1. X \in SUBSET DOMAIN K /\ i \in DOMAIN K \ X /\ X \cup {i} = 1..i
    OBVIOUS
  <2>2. det[i].DetTagGroupBy = K[i] /\ det[i].Fr = R[i]
    OBVIOUS
  <2>4. IsRec(R[i], K[i])
    OBVIOUS
  <2> HIDE DEF X, N
  <2>3. AddInMap(SumOver(K, R, X, n), K[i], R[i]) = SumOver(K, R, X \cup {i}, n)
    BY <2>1, <2>4, AddOne
  <2> QED BY <2>1, <2>2, <2>3 DEF X
<1>3. SumOver(K, R, 1..0, n) = <<>>
  <2>1. 1..0 = {}
    OBVIOUS
  <2> QED BY <2>1, SumOverNone
<1>4. Loop(f)
  <2>1. ASSUME NEW i \in 0..N
        PROVE  f[i] = IF i = 0 THEN <<>> ELSE AddInMap(f[i - 1], det[i].DetTagGroupBy, det[i].Fr)
    <3>1. CASE i = 0
      BY <1>3, <3>1
    <3>2. CASE i # 0
      <4>1. i \in 1..N /\ i - 1 \in 0..N
        BY <3>2
      <4> QED BY <1>2, <3>2, <4>1
    <3> QED BY <3>1, <3>2
  <2> QED BY <2>1
<1>5. ASSUME NEW g, Loop(g) PROVE g[N] = SumOver(K, R, 1..N, n)
  <2> DEFINE T == {i \in 0..N : g[i] = SumOver(K, R, 1..i, n)}
  <2>1. 0 \in T
    BY <1>3, <1>5
  <2>2. ASSUME NEW i \in 0..N, i \in T, i < N PROVE i + 1 \in T
    <3>1. i + 1 \in 1..N /\ i + 1 \in 0..N /\ (i + 1) - 1 = i /\ i + 1 # 0
      BY <2>2
    <3>2. g[i + 1] = AddInMap(g[i], det[i + 1].DetTagGroupBy, det[i + 1].Fr)
      BY <1>5, <3>1
    <3>3. g[i] = SumOver(K, R, 1..((i + 1) - 1), n)
      BY <2>2, <3>1
    <3> QED BY <1>2, <3>1, <3>2, <3>3
  <2> HIDE DEF T
  <2>3. N \in T
    <3> HIDE DEF N
    <3>1. N \in Nat
      BY DEF N
    <3> QED BY <2>1, <2>2, <3>1, UpTo
  <2> QED BY <2>3 DEF T
<1> HIDE DEF Loop, f, N
<1>6. (CHOOSE g : Loop(g))[N] = SumOver(K, R, 1..N, n)
  BY <1>4, <1>5
<1> QED BY <1>1, <1>6 DEF N

LEMMA ImageFinite ==
  ASSUME NEW S, IsFiniteSet(S), NEW h
  PROVE  IsFiniteSet({h[x] : x \in S})
<1> DEFINE Im(X) == {h[x] : x \in X}
           T == {X \in SUBSET S : IsFiniteSet(Im(X))}
<1>1. {} \in T
  <2>1. Im({}) = {}
    OBVIOUS
  <2> QED BY <2>1, FS_EmptySet
<1>2. ASSUME NEW X \in SUBSET S, NEW x \in S \ X, X \in T PROVE X \cup {x} \in T
  <2>1. Im(X \cup {x}) = Im(X) \cup {h[x]}
    OBVIOUS
  <2>2. IsFiniteSet(Im(X))
    BY <1>2
  <2> HIDE DEF Im
  <2>4. IsFiniteSet(Im(X) \cup {h[x]})
    BY <2>2, FS_AddElement
  <2>3. IsFiniteSet(Im(X \cup {x}))
    BY <2>1, <2>4
  <2> QED BY <2>3
<1> HIDE DEF T
<1>3. S \in T
  BY <1>1, <1>2, FiniteInduct
<1> QED BY <1>3 DEF T

(* One map of sums goes into another.                                      *)
LEMMA MergeIs ==
  ASSUME NEW n \in Nat, NEW K, NEW R, Recs(K, R, n),
         NEW Y \in SUBSET DOMAIN K, NEW Z \in SUBSET DOMAIN K, Y \cap Z = {}
  PROVE  PushCothorityAggregatedFilteredResponses(SumOver(K, R, Y, n), SumOver(K, R, Z, n))
           = SumOver(K, R, Y \cup Z, n)
<1> DEFINE M == SumOver(K, R, Y, n)
           N == SumOver(K, R, Z, n)
           D == DOMAIN N
           Of(W) == {i \in Z : K[i] \in W}
           First(W) == CHOOSE k \in W : TRUE
           Loop(g) == g = [W \in SUBSET D |->
                             IF W = {} THEN M
                             ELSE AddInMap(g[W \ {First(W)}], First(W), N[First(W)])]
           f == [W \in SUBSET D |-> SumOver(K, R, Y \cup Of(W), n)]
<1>1. PushCothorityAggregatedFilteredResponses(M, N) = (CHOOSE g : Loop(g))[D]
  <2> HIDE DEF M, N
  <2> QED BY DEF PushCothorityAggregatedFilteredResponses, FoldSet, MapThenFoldSet
<1>2. D = {K[i] : i \in Z} /\ IsFiniteSet(D)
  <2>1. D = {K[i] : i \in Z}
    BY DEF SumOver
  <2>2. IsFiniteSet(Z)
    BY FS_Subset DEF Recs
  <2>3. IsFiniteSet({K[i] : i \in Z})
    BY <2>2, ImageFinite
  <2> HIDE DEF D
  <2> QED BY <2>1, <2>3
<1>3. ASSUME NEW W \in SUBSET D, NEW k \in W
      PROVE  AddInMap(SumOver(K, R, Y \cup Of(W \ {k}), n), k, N[k]) = SumOver(K, R, Y \cup Of(W), n)
  <2> DEFINE X == Y \cup Of(W \ {k})
             G == Of({k})
  <2>1. /\ X \in SUBSET DOMAIN K /\ G \in SUBSET DOMAIN K /\ X \cap G = {} /\ G # {}
        /\ \A i \in G : K[i] = k
        /\ X \cup G = Y \cup Of(W)
    BY <1>2
  <2>2. N[k] = Entry(K, R, G, k, n)
    <3>1. N[k] = Entry(K, R, Z, k, n)
      BY <1>2 DEF SumOver
    <3>2. ASSUME NEW a \in 1..n PROVE Total(Part(K, R, k, a), Z) = Total(Part(K, R, k, a), G)
      <4>1. IsFiniteSet(Z) /\ Ints(Part(K, R, k, a), G)
        BY <2>1, PartInts
      <4>2. \A i \in Z \ G : Part(K, R, k, a)[i] = 0
        BY DEF Part
      <4>3. G \in SUBSET Z
        OBVIOUS
      <4> HIDE DEF G
      <4> QED BY <4>1, <4>2, <4>3, TotalRestrict
    <3> HIDE DEF G, N
    <3> QED BY <3>1, <3>2 DEF Entry
  <2> HIDE DEF X, G
  <2>3. AddInMap(SumOver(K, R, X, n), k, Entry(K, R, G, k, n)) = SumOver(K, R, X \cup G, n)
    BY <2>1, AddGroup
  <2> QED BY <2>1, <2>2, <2>3 DEF X
<1>4. SumOver(K, R, Y \cup Of({}), n) = M
  <2>1. Y \cup Of({}) = Y
    OBVIOUS
  <2> QED BY <2>1
<1>5. \A W \in SUBSET D : W # {} => First(W) \in W /\ W \ {First(W)} \in SUBSET D
  OBVIOUS
<1> HIDE DEF M, N, D, First, Of
<1>6. Loop(f)
  <2>1. ASSUME NEW W \in SUBSET D
        PROVE  f[W] = IF W = {} THEN M ELSE AddInMap(f[W \ {First(W)}], First(W), N[First(W)])
    <3>1. CASE W = {}
      BY <1>4, <3>1
    <3>2. CASE W # {}
      <4>1. First(W) \in W /\ W \ {First(W)} \in SUBSET D
        BY <1>5, <3>2
      <4> DEFINE k == First(W)
      <4> HIDE DEF k
      <4>2. k \in W /\ W \ {k} \in SUBSET D
        BY <4>1 DEF k
      <4>3. f[W] = AddInMap(f[W \ {k}], k, N[k])
        BY <1>3, <4>2
      <4> QED BY <3>2, <4>3 DEF k
    <3> QED BY <3>1, <3>2
  <2> QED BY <2>1
<1>7. ASSUME NEW g, Loop(g) PROVE g[D] = f[D]
  <2> DEFINE T == {W \in SUBSET D : g[W] = f[W]}
  <2>1. {} \in T
    BY <1>6, <1>7
  <2>2. ASSUME NEW W \in SUBSET D, W # {} PROVE \E k \in W : W \ {k} \in T => W \in T
    <3>1. First(W) \in W /\ W \ {First(W)} \in SUBSET D
      BY <1>5, <2>2
    <3>2. /\ g[W] = AddInMap(g[W \ {First(W)}], First(W), N[First(W)])
          /\ f[W] = AddInMap(f[W \ {First(W)}], First(W), N[First(W)])
      <4> HIDE DEF f
      <4> QED BY <1>6, <1>7, <2>2
    <3> QED BY <3>1, <3>2
  <2> HIDE DEF T
  <2>3. \A W \in SUBSET D : W \in T
    BY <1>2, <2>1, <2>2, RemovalInduct
  <2> QED BY <2>3 DEF T
<1>8. f[D] = SumOver(K, R, Y \cup Z, n)
  <2>1. Of(D) = Z
    BY <1>2 DEF Of
  <2> QED BY <2>1
<1> HIDE DEF Loop, f
<1>9. (CHOOSE g : Loop(g))[D] = f[D]
  BY <1>6, <1>7
<1> QED BY <1>1, <1>8, <1>9 DEF M, N

(* And the maps of several servers into one.                               *)
LEMMA AggregatedIs ==
  ASSUME NEW n \in Nat, NEW K, NEW R, Recs(K, R, n), NEW maps, IsFiniteSet(DOMAIN maps),
         NEW P, \A s \in DOMAIN maps : P[s] \in SUBSET DOMAIN K /\ maps[s] = SumOver(K, R, P[s], n),
         \A s, t \in DOMAIN maps : s # t => P[s] \cap P[t] = {}
  PROVE  Aggregated(maps) = SumOver(K, R, UNION {P[s] : s \in DOMAIN maps}, n)
<1> DEFINE D == DOMAIN maps
           Of(W) == UNION {P[s] : s \in W}
           First(W) == CHOOSE s \in W : TRUE
           Loop(g) == g = [W \in SUBSET D |->
                             IF W = {} THEN <<>>
                             ELSE PushCothorityAggregatedFilteredResponses(g[W \ {First(W)}], maps[First(W)])]
           f == [W \in SUBSET D |-> SumOver(K, R, Of(W), n)]
<1>1. Aggregated(maps) = (CHOOSE g : Loop(g))[D]
  BY DEF Aggregated, FoldSet, MapThenFoldSet
<1>2. ASSUME NEW W \in SUBSET D, NEW s \in W
      PROVE  PushCothorityAggregatedFilteredResponses(SumOver(K, R, Of(W \ {s}), n), maps[s])
               = SumOver(K, R, Of(W), n)
  <2> DEFINE Y == Of(W \ {s})
             Z == P[s]
  <2>1. Y \in SUBSET DOMAIN K /\ Z \in SUBSET DOMAIN K /\ Y \cap Z = {} /\ Y \cup Z = Of(W)
    OBVIOUS
  <2>2. maps[s] = SumOver(K, R, Z, n)
    OBVIOUS
  <2> HIDE DEF Y, Z, Of
  <2>3. PushCothorityAggregatedFilteredResponses(SumOver(K, R, Y, n), SumOver(K, R, Z, n))
          = SumOver(K, R, Y \cup Z, n)
    BY <2>1, MergeIs
  <2> QED BY <2>1, <2>2, <2>3 DEF Y
<1>4. SumOver(K, R, Of({}), n) = <<>>
  <2>1. Of({}) = {}
    OBVIOUS
  <2> HIDE DEF Of
  <2> QED BY <2>1, SumOverNone
<1>5. \A W \in SUBSET D : W # {} => First(W) \in W /\ W \ {First(W)} \in SUBSET D
  OBVIOUS
<1>0. IsFiniteSet(D)
  OBVIOUS
<1> HIDE DEF D, First, Of
<1>6. Loop(f)
  <2>1. ASSUME NEW W \in SUBSET D
        PROVE  f[W] = IF W = {} THEN <<>>
                      ELSE PushCothorityAggregatedFilteredResponses(f[W \ {First(W)}], maps[First(W)])
    <3>1. CASE W = {}
      BY <1>4, <3>1
    <3>2. CASE W # {}
      <4>1. First(W) \in W /\ W \ {First(W)} \in SUBSET D
        BY <1>5, <3>2
      <4> DEFINE k == First(W)
      <4> HIDE DEF k
      <4>2. k \in W /\ W \ {k} \in SUBSET D
        BY <4>1 DEF k
      <4>3. f[W] = PushCothorityAggregatedFilteredResponses(f[W \ {k}], maps[k])
        BY <1>2, <4>2
      <4> QED BY <3>2, <4>3 DEF k
    <3> QED BY <3>1, <3>2
  <2> QED BY <2>1
<1>7. ASSUME NEW g, Loop(g) PROVE g[D] = f[D]
  <2> DEFINE T == {W \in SUBSET D : g[W] = f[W]}
  <2>1. {} \in T
    BY <1>6, <1>7
  <2>2. ASSUME NEW W \in SUBSET D, W # {} PROVE \E k \in W : W \ {k} \in T => W \in T
    <3>1. First(W) \in W /\ W \ {First(W)} \in SUBSET D
      BY <1>5, <2>2
    <3>2. /\ g[W] = PushCothorityAggregatedFilteredResponses(g[W \ {First(W)}], maps[First(W)])
          /\ f[W] = PushCothorityAggregatedFilteredResponses(f[W \ {First(W)}], maps[First(W)])
      <4> HIDE DEF f
      <4> QED BY <1>6, <1>7, <2>2
    <3> QED BY <3>1, <3>2
  <2> HIDE DEF T
  <2>3. \A W \in SUBSET D : W \in T
    BY <1>0, <2>1, <2>2, RemovalInduct
  <2> QED BY <2>3 DEF T
<1>8. f[D] = SumOver(K, R, Of(D), n)
  OBVIOUS
<1> HIDE DEF Loop, f
<1>9. (CHOOSE g : Loop(g))[D] = f[D]
  BY <1>6, <1>7
<1>10. Aggregated(maps) = SumOver(K, R, Of(D), n)
  BY <1>1, <1>8, <1>9
<1> QED BY <1>10 DEF Of, D

(* The same sums over other indices.                                       *)
LEMMA SumOverMoved ==
  ASSUME NEW n \in Nat, NEW K, NEW R, Recs(K, R, n), NEW X \in SUBSET DOMAIN K,
         NEW L, NEW Q, Recs(L, Q, n), NEW Z \in SUBSET DOMAIN L,
         NEW h \in [X -> Z], \A i, j \in X : h[i] = h[j] => i = j,
         \A z \in Z : \E i \in X : h[i] = z,
         \A i \in X : K[i] = L[h[i]] /\ R[i].AggregatingAttributes = Q[h[i]].AggregatingAttributes
  PROVE  SumOver(K, R, X, n) = SumOver(L, Q, Z, n)
<1>1. {K[i] : i \in X} = {L[z] : z \in Z}
  OBVIOUS
<1>2. ASSUME NEW k PROVE Entry(K, R, X, k, n) = Entry(L, Q, Z, k, n)
  <2>1. ASSUME NEW a \in 1..n PROVE Total(Part(K, R, k, a), X) = Total(Part(L, Q, k, a), Z)
    <3> DEFINE u == Part(K, R, k, a)
               v == Part(L, Q, k, a)
    <3>1. IsFiniteSet(X) /\ Ints(v, Z)
      BY PartInts
    <3>2. \A i \in X : u[i] = v[h[i]]
      BY DEF Part
    <3>3. h \in [X -> Z] /\ \A i, j \in X : h[i] = h[j] => i = j
      OBVIOUS
    <3>4. \A z \in Z : \E i \in X : h[i] = z
      OBVIOUS
    <3> HIDE DEF u, v
    <3>5. Total(u, X) = Total(v, Z)
      BY <3>1, <3>2, <3>3, <3>4, TotalMoved
    <3> QED BY <3>5 DEF u, v
  <2> QED BY <2>1 DEF Entry
<1>3. SumOver(K, R, X, n) = [k \in {K[i] : i \in X} |-> Entry(L, Q, Z, k, n)]
  BY <1>2 DEF SumOver
<1> QED BY <1>1, <1>3 DEF SumOver

-----------------------------------------------------------------------------
(* Pieces of a vector of ciphertexts.                                      *)
LEMMA SubSeqIs ==
  ASSUME NEW X, NEW t \in Seq(X), NEW a \in Nat, NEW n \in Nat, a + n <= Len(t)
  PROVE  SubSeq(t, a + 1, a + n) = [i \in 1..n |-> t[a + i]]
<1>1. \A i \in (a + 1)..(a + n) : t[i] \in X
  BY ElementOfSeq
<1>2. /\ SubSeq(t, a + 1, a + n) \in Seq(X) /\ Len(SubSeq(t, a + 1, a + n)) = n
      /\ \A i \in 1..n : SubSeq(t, a + 1, a + n)[i] = t[a + i]
  BY <1>1, SubSeqProperties
<1> DEFINE s == SubSeq(t, a + 1, a + n)
<1>4. s \in Seq(X) /\ Len(s) = n /\ \A i \in 1..n : s[i] = t[a + i]
  BY <1>2
<1> HIDE DEF s
<1>3. DOMAIN s = 1..n /\ s = [i \in DOMAIN s |-> s[i]]
  BY <1>4, LenProperties
<1>5. s = [i \in 1..n |-> t[a + i]]
  BY <1>3, <1>4
<1> QED BY <1>5 DEF s

(* After b elements of t comes s.                                          *)
Piece(t, b, s) ==
  /\ b \in Nat /\ b + Len(s) <= Len(t)
  /\ \A p \in 1..Len(s) : t[b + p] = s[p]

LEMMA PieceCut ==
  ASSUME NEW X, NEW t \in Seq(X), NEW s \in Seq(X), NEW b, Piece(t, b, s)
  PROVE  SubSeq(t, b + 1, b + Len(s)) = s
<1> DEFINE n == Len(s)
<1>1. n \in Nat /\ DOMAIN s = 1..n /\ s = [p \in 1..n |-> s[p]]
  BY LenProperties
<1>2. b \in Nat /\ b + n <= Len(t) /\ \A p \in 1..n : t[b + p] = s[p]
  BY DEF Piece
<1> HIDE DEF n
<1>3. SubSeq(t, b + 1, b + n) = [p \in 1..n |-> t[b + p]]
  BY <1>1, <1>2, SubSeqIs
<1>4. SubSeq(t, b + 1, b + n) = [p \in 1..n |-> s[p]]
  BY <1>2, <1>3
<1> QED BY <1>1, <1>4 DEF n

LEMMA TagPiece ==
  ASSUME NEW t \in Seq(Int), NEW s \in Seq(Int), NEW b, Piece(t, b, s),
         NEW tags, tags = TagVec(t)
  PROVE  SubSeq(tags, b + 1, b + Len(s)) = TagVec(s)
<1> DEFINE n == Len(s)
           N == Len(t)
           X == {Tag(x) : x \in Int}
<1>1. /\ n \in Nat /\ DOMAIN s = 1..n /\ N \in Nat /\ DOMAIN t = 1..N
      /\ \A p \in 1..N : t[p] \in Int
  BY LenProperties, ElementOfSeq
<1>2. b \in Nat /\ b + n <= N /\ \A p \in 1..n : t[b + p] = s[p]
  BY DEF Piece
<1> HIDE DEF n, N
<1>3. /\ tags \in Seq(X) /\ Len(tags) = N /\ \A p \in 1..N : tags[p] = Tag(t[p])
  <2>1. tags = [p \in 1..N |-> Tag(t[p])]
    BY <1>1 DEF TagVec
  <2>2. tags \in [1..N -> X]
    BY <1>1, <2>1
  <2> HIDE DEF X
  <2>3. tags \in Seq(X) /\ Len(tags) = N
    BY <1>1, <2>2
  <2> QED BY <2>1, <2>3
<1> HIDE DEF X
<1>4. SubSeq(tags, b + 1, b + n) = [p \in 1..n |-> tags[b + p]]
  <2>1. b + n <= Len(tags)
    BY <1>2, <1>3
  <2> QED BY <1>1, <1>2, <1>3, <2>1, SubSeqIs
<1>5. \A p \in 1..n : tags[b + p] = Tag(s[p])
  <2> SUFFICES ASSUME NEW p \in 1..n PROVE tags[b + p] = Tag(s[p])
    OBVIOUS
  <2>1. b + p \in 1..N
    BY <1>1, <1>2
  <2> QED BY <1>2, <1>3, <2>1
<1>6. TagVec(s) = [p \in 1..n |-> Tag(s[p])]
  BY <1>1 DEF TagVec
<1> QED BY <1>4, <1>5, <1>6 DEF n

Pairs(m, ls, w, g, k) ==
  /\ m = [i \in 1..k |-> w[i] \o g[i]]
  /\ ls = [i \in 1..k |-> Len(w[i]) + Len(g[i])]

(* When pairs of vectors are put one after the other, each is found at     *)
(* the place that the lengths of those before it give.                     *)
LEMMA PairsInPlace ==
  ASSUME NEW k \in Nat, k > 0, NEW w, NEW g, \A i \in 1..k : w[i] \in Seq(Int) /\ g[i] \in Seq(Int),
         NEW m, NEW ls, Pairs(m, ls, w, g, k)
  PROVE  /\ FlattenSeq(m) \in Seq(Int)
         /\ \A i \in 1..k : /\ Piece(FlattenSeq(m), Before(ls, i), w[i])
                            /\ Piece(FlattenSeq(m), Before(ls, i) + Len(w[i]), g[i])
<1> DEFINE cv == FlattenSeq(m)
<1>1. \A i \in 1..k : Len(w[i]) \in Nat /\ Len(g[i]) \in Nat
  BY LenProperties
<1>2. \A i \in 1..k : m[i] = w[i] \o g[i] /\ ls[i] = Len(w[i]) + Len(g[i])
  BY DEF Pairs
<1>3. /\ m \in Seq(Seq(Int)) /\ Len(m) = k /\ ls \in Seq(Nat) /\ Len(ls) = k
      /\ \A i \in 1..k : ls[i] = Len(m[i])
  <2>1. \A i \in 1..k : w[i] \o g[i] \in Seq(Int) /\ Len(w[i] \o g[i]) = Len(w[i]) + Len(g[i])
    BY <1>1, ConcatProperties
  <2>2. \A i \in 1..k : Len(w[i]) + Len(g[i]) \in Nat
    <3> SUFFICES ASSUME NEW i \in 1..k PROVE Len(w[i]) + Len(g[i]) \in Nat
      OBVIOUS
    <3> DEFINE a == Len(w[i])
               b == Len(g[i])
    <3>1. a \in Nat /\ b \in Nat
      BY <1>1
    <3> HIDE DEF a, b
    <3>2. a + b \in Nat
      BY <3>1
    <3> QED BY <3>2 DEF a, b
  <2>3. m \in [1..k -> Seq(Int)] /\ ls \in [1..k -> Nat]
    BY <2>1, <2>2 DEF Pairs
  <2>4. m \in Seq(Seq(Int)) /\ Len(m) = k /\ ls \in Seq(Nat) /\ Len(ls) = k
    BY <2>3
  <2>5. \A i \in 1..k : ls[i] = Len(m[i])
    BY <1>2, <2>1
  <2> QED BY <2>4, <2>5
<1>4. PICK sums \in [0..k -> Nat] :
        /\ sums[0] = 0
        /\ \A i \in 1..k : sums[i] = sums[i - 1] + ls[i]
        /\ \A i \in 1..k : Before(ls, i) = sums[i - 1]
  BY <1>3, BeforeSums
<1>5. /\ cv \in Seq(Int)
      /\ \A i \in 1..k : /\ sums[i] <= Len(cv)
                         /\ \A p \in 1..Len(m[i]) : cv[sums[i - 1] + p] = m[i][p]
  <2>1. sums \in [0..Len(m) -> Nat] /\ \A i \in 1..Len(m) : sums[i] = sums[i - 1] + Len(m[i])
    BY <1>3, <1>4
  <2>2. m \in Seq(Seq(Int)) /\ Len(m) > 0 /\ sums[0] = 0
    BY <1>3, <1>4
  <2>3. /\ FlattenSeq(m) \in Seq(Int)
        /\ \A i \in 1..Len(m) :
             /\ sums[i] <= Len(FlattenSeq(m))
             /\ \A p \in 1..Len(m[i]) : FlattenSeq(m)[sums[i - 1] + p] = m[i][p]
    BY <2>1, <2>2, PartsInPlace
  <2> QED BY <1>3, <2>3
<1>6. Len(cv) \in Nat
  BY <1>5, LenProperties
<1> HIDE DEF cv
<1>7. ASSUME NEW i \in 1..k
      PROVE  Piece(cv, Before(ls, i), w[i]) /\ Piece(cv, Before(ls, i) + Len(w[i]), g[i])
  <2> DEFINE b == Before(ls, i)
             lw == Len(w[i])
             lg == Len(g[i])
             N == Len(cv)
  <2>1. b \in Nat /\ lw \in Nat /\ lg \in Nat /\ N \in Nat /\ b + (lw + lg) <= N
        /\ m[i] = w[i] \o g[i] /\ Len(m[i]) = lw + lg
    <3>1. i - 1 \in 0..k /\ i \in 0..k
      OBVIOUS
    <3>2. sums[i - 1] \in Nat /\ ls[i] = lw + lg /\ m[i] = w[i] \o g[i] /\ b = sums[i - 1]
      BY <1>2, <1>4, <3>1
    <3>3. sums[i] = b + ls[i] /\ sums[i] <= Len(cv) /\ ls[i] = Len(m[i])
      BY <1>3, <1>4, <1>5, <3>2
    <3> QED BY <1>1, <1>6, <3>2, <3>3
  <2>2. \A p \in 1..(lw + lg) : cv[b + p] = IF p <= lw THEN w[i][p] ELSE g[i][p - lw]
    <3>1. \A p \in 1..(lw + lg) : (w[i] \o g[i])[p] = IF p <= lw THEN w[i][p] ELSE g[i][p - lw]
      BY <1>1, ConcatProperties
    <3>2. sums[i - 1] = b
      BY <1>4
    <3> QED BY <1>5, <2>1, <3>1, <3>2
  <2> HIDE DEF b, lw, lg, N
  <2>3. b + lw <= N /\ b + lw \in Nat /\ (b + lw) + lg <= N
    BY <2>1
  <2>4. \A p \in 1..lw : cv[b + p] = w[i][p]
    BY <2>1, <2>2
  <2>5. \A p \in 1..lg : cv[(b + lw) + p] = g[i][p]
    <3> SUFFICES ASSUME NEW p \in 1..lg PROVE cv[(b + lw) + p] = g[i][p]
      OBVIOUS
    <3> DEFINE r == lw + p
    <3>1. r \in 1..(lw + lg) /\ ~ (r <= lw) /\ r - lw = p /\ b + r = (b + lw) + p
      BY <2>1
    <3> HIDE DEF r
    <3> QED BY <2>2, <3>1
  <2> QED BY <2>1, <2>3, <2>4, <2>5 DEF Piece, b, lw, lg, N
<1> QED BY <1>5, <1>7 DEF cv

-----------------------------------------------------------------------------
(* Tagging.                                                                *)
TagsOf(T) ==
  [p \in DOMAIN ProcessResponseToCipherVector(T) |-> Tag(ProcessResponseToCipherVector(T)[p])]

(* The tags come back to the attributes they belong to.                    *)
LEMMA TagsInPlace ==
  ASSUME NEW T, NEW k \in Nat, k > 0, DOMAIN T = 1..k,
         \A i \in 1..k : T[i].WhereEnc \in Seq(Int) /\ T[i].GroupByEnc \in Seq(Int),
         NEW tags, tags = TagsOf(T)
  PROVE  DeterCipherVectorToProcessResponseDet(tags, T)
           = [i \in 1..k |-> [PR |-> T[i], DetTagWhere |-> TagVec(T[i].WhereEnc),
                              DetTagGroupBy |-> TagVec(T[i].GroupByEnc)]]
<1> DEFINE w == [i \in 1..k |-> T[i].WhereEnc]
           g == [i \in 1..k |-> T[i].GroupByEnc]
           m == [i \in 1..k |-> w[i] \o g[i]]
           ls == [i \in 1..k |-> Len(w[i]) + Len(g[i])]
           cv == FlattenSeq(m)
<1>1. \A i \in 1..k : /\ w[i] \in Seq(Int) /\ g[i] \in Seq(Int)
                      /\ w[i] = T[i].WhereEnc /\ g[i] = T[i].GroupByEnc
  OBVIOUS
<1>2. ProcessResponseToCipherVector(T) = cv /\ TaggedLengths(T) = ls
  BY DEF ProcessResponseToCipherVector, TaggedLengths
<1>3. Pairs(m, ls, w, g, k)
  BY DEF Pairs
<1> HIDE DEF w, g, m, ls
<1>4. /\ cv \in Seq(Int)
      /\ \A i \in 1..k : Piece(cv, Before(ls, i), w[i]) /\ Piece(cv, Before(ls, i) + Len(w[i]), g[i])
  BY <1>1, <1>3, PairsInPlace
<1>5. tags = TagVec(cv)
  BY <1>2 DEF TagsOf, TagVec
<1> HIDE DEF cv
<1>7. ASSUME NEW i \in 1..k
      PROVE  LET b == Before(ls, i)
             IN  /\ SubSeq(tags, b + 1, (b + 1 + Len(w[i])) - 1) = TagVec(w[i])
                 /\ SubSeq(tags, b + 1 + Len(w[i]), b + 1 + Len(w[i]) + Len(g[i]) - 1) = TagVec(g[i])
  <2> DEFINE b == Before(ls, i)
             lw == Len(w[i])
             lg == Len(g[i])
             c == b + lw
  <2>1. Piece(cv, b, w[i]) /\ Piece(cv, c, g[i]) /\ b \in Nat /\ lw \in Nat /\ lg \in Nat
    BY <1>1, <1>4, LenProperties DEF Piece
  <2>5. cv \in Seq(Int) /\ w[i] \in Seq(Int) /\ g[i] \in Seq(Int)
    BY <1>1, <1>4
  <2> HIDE DEF b, c
  <2>2. SubSeq(tags, b + 1, b + lw) = TagVec(w[i])
    BY <1>5, <2>1, <2>5, TagPiece
  <2>3. SubSeq(tags, c + 1, c + lg) = TagVec(g[i])
    BY <1>5, <2>1, <2>5, TagPiece
  <2> HIDE DEF lw, lg
  <2>4. /\ (b + 1 + lw) - 1 = b + lw /\ b + 1 + lw = c + 1 /\ b + 1 + lw + lg - 1 = c + lg
    BY <2>1 DEF c
  <2> QED BY <2>2, <2>3, <2>4 DEF b, lw, lg
<1>8. ASSUME NEW i \in 1..k
      PROVE  DeterCipherVectorToProcessResponseDet(tags, T)[i]
               = [PR |-> T[i], DetTagWhere |-> TagVec(T[i].WhereEnc),
                  DetTagGroupBy |-> TagVec(T[i].GroupByEnc)]
  <2>4. DeterCipherVectorToProcessResponseDet(tags, T)[i]
          = [PR |-> T[i],
             DetTagWhere |-> SubSeq(tags, Before(TaggedLengths(T), i) + 1,
                                    (Before(TaggedLengths(T), i) + 1 + Len(T[i].WhereEnc)) - 1),
             DetTagGroupBy |-> SubSeq(tags, Before(TaggedLengths(T), i) + 1 + Len(T[i].WhereEnc),
                                      Before(TaggedLengths(T), i) + 1 + Len(T[i].WhereEnc)
                                        + Len(T[i].GroupByEnc) - 1)]
    <3>1. i \in DOMAIN T
      OBVIOUS
    <3> QED BY <3>1, Zenon DEF DeterCipherVectorToProcessResponseDet
  <2>2. DeterCipherVectorToProcessResponseDet(tags, T)[i]
          = [PR |-> T[i],
             DetTagWhere |-> SubSeq(tags, Before(ls, i) + 1, (Before(ls, i) + 1 + Len(w[i])) - 1),
             DetTagGroupBy |-> SubSeq(tags, Before(ls, i) + 1 + Len(w[i]),
                                      Before(ls, i) + 1 + Len(w[i]) + Len(g[i]) - 1)]
    BY <1>1, <1>2, <2>4
  <2> QED BY <1>1, <1>7, <2>2
<1>9. DOMAIN DeterCipherVectorToProcessResponseDet(tags, T) = 1..k
      /\ DeterCipherVectorToProcessResponseDet(tags, T)
           = [i \in 1..k |-> DeterCipherVectorToProcessResponseDet(tags, T)[i]]
  BY DEF DeterCipherVectorToProcessResponseDet
<1> QED BY <1>8, <1>9

-----------------------------------------------------------------------------
(* The responses that match, by position.                                  *)
Compared(q, w, i) == IF i % 2 = 0 THEN q.Where[(i \div 2) + 1].Value ELSE w[(i \div 2) + 1]

Fits(q, w) ==
  \/ q.Predicate = {} \/ Len(q.Where) = 0
  \/ \E conj \in q.Predicate : \A eq \in conj : Compared(q, w, eq[1]) = Compared(q, w, eq[2])

Chosen(F, q) == {i \in DOMAIN F : Fits(q, F[i].WhereEnc)}

Triple == [WhereEnc : Seq(Int), GroupByEnc : Seq(Int), AggregatingAttributes : Seq(Int)]

WithTags(r) ==
  [PR |-> r, DetTagWhere |-> TagVec(r.WhereEnc), DetTagGroupBy |-> TagVec(r.GroupByEnc)]

(* The predicate is evaluated over tags instead of values.                 *)
LEMMA EvaluateFits ==
  ASSUME NEW q \in Query, PredicateFits(q), NEW w \in Vec(Len(q.Where)),
         NEW queryTags, Len(queryTags) = Len(q.Where),
         \A i \in 1..Len(q.Where) : queryTags[i] = Tag(q.Where[i].Value),
         ~ (q.Predicate = {} \/ Len(q.Where) = 0)
  PROVE  Evaluate(q.Predicate, Parameters(queryTags, TagVec(w))) <=> Fits(q, w)
<1> DEFINE n == Len(q.Where)
           v == Parameters(queryTags, TagVec(w))
<1>1. n \in Nat
  BY DEF Query
<1>2. DOMAIN w = 1..n
  BY LenProperties DEF Vec
<1>3. ASSUME NEW i \in 0..(2 * n - 1) PROVE v[i] = Tag(Compared(q, w, i))
  <2>1. (i \div 2) + 1 \in 1..n
    BY <1>1
  <2>2. v[i] = IF i % 2 = 0 THEN queryTags[(i \div 2) + 1] ELSE TagVec(w)[(i \div 2) + 1]
    BY DEF Parameters
  <2> DEFINE j == (i \div 2) + 1
  <2> HIDE DEF j
  <2>3. j \in 1..n /\ v[i] = (IF i % 2 = 0 THEN queryTags[j] ELSE TagVec(w)[j])
        /\ Compared(q, w, i) = (IF i % 2 = 0 THEN q.Where[j].Value ELSE w[j])
    BY <2>1, <2>2 DEF j, Compared
  <2>4. TagVec(w)[j] = Tag(w[j]) /\ queryTags[j] = Tag(q.Where[j].Value)
    BY <1>2, <2>3 DEF TagVec
  <2> HIDE DEF v
  <2> QED BY <2>3, <2>4
<1>4. \A conj \in q.Predicate : \A eq \in conj : eq[1] \in 0..(2 * n - 1) /\ eq[2] \in 0..(2 * n - 1)
  BY DEF PredicateFits
<1> HIDE DEF v, n
<1>5. \A x, y : Tag(x) = Tag(y) <=> x = y
  BY DEF Tag
<1>6. \A conj \in q.Predicate : \A eq \in conj :
        v[eq[1]] = v[eq[2]] <=> Compared(q, w, eq[1]) = Compared(q, w, eq[2])
  BY <1>3, <1>4, <1>5
<1>7. Evaluate(q.Predicate, v)
        <=> \E conj \in q.Predicate : \A eq \in conj : Compared(q, w, eq[1]) = Compared(q, w, eq[2])
  BY <1>6 DEF Evaluate
<1> QED BY <1>7 DEF v, Fits

AllWithTags(F) == [i \in 1..Len(F) |-> WithTags(F[i])]

(* A row of the query, and the values of the query, as they are tagged.    *)
LEMMA TaggedResponses ==
  ASSUME NEW q \in Query, NEW F \in Seq(Row(q)), Len(F) > 0,
         NEW tags, tags = TagsOf(QueryWhereToTag(q) \o F),
         NEW det, det = DeterCipherVectorToProcessResponseDet(tags, QueryWhereToTag(q) \o F)
  PROVE  /\ \A i \in 1..Len(q.Where) : det[i].DetTagWhere[1] = Tag(q.Where[i].Value)
         /\ SubSeq(det, Len(q.Where) + 1, Len(det)) = AllWithTags(F)
<1> DEFINE W == Len(q.Where)
           n == Len(F)
           Q == QueryWhereToTag(q)
           T == Q \o F
           R == Triple
<1>1. W \in Nat /\ n \in Nat /\ n > 0 /\ \A i \in 1..W : q.Where[i].Value \in Int
  <2>1. q.Where \in Seq([Name : Attribute, Value : Int])
    BY DEF Query
  <2>2. \A i \in 1..W : q.Where[i] \in [Name : Attribute, Value : Int]
    BY <2>1, ElementOfSeq
  <2> QED BY <2>1, <2>2, LenProperties
<1>2. /\ Q \in Seq(R) /\ Len(Q) = W
      /\ \A i \in 1..W : Q[i].WhereEnc = <<q.Where[i].Value>> /\ Q[i].GroupByEnc = <<>>
  <2>1. DOMAIN q.Where = 1..W
    BY LenProperties DEF Query
  <2>2. Q = [i \in 1..W |-> [WhereEnc |-> <<q.Where[i].Value>>, GroupByEnc |-> <<>>,
                             AggregatingAttributes |-> <<>>]]
    BY <2>1 DEF QueryWhereToTag
  <2>3. \A i \in 1..W : [WhereEnc |-> <<q.Where[i].Value>>, GroupByEnc |-> <<>>,
                         AggregatingAttributes |-> <<>>] \in R
    <3>1. \A x \in Int : <<x>> \in Seq(Int)
      OBVIOUS
    <3>2. <<>> \in Seq(Int)
      OBVIOUS
    <3> QED BY <1>1, <3>1, <3>2 DEF Triple
  <2> HIDE DEF Q
  <2>4. Q \in [1..W -> R]
    BY <2>2, <2>3
  <2>5. \A i \in 1..W : Q[i] = [WhereEnc |-> <<q.Where[i].Value>>, GroupByEnc |-> <<>>,
                                AggregatingAttributes |-> <<>>]
    BY <2>2
  <2>6. Q \in Seq(R) /\ Len(Q) = W
    BY <1>1, <2>4
  <2>7. \A i \in 1..W : Q[i].WhereEnc = <<q.Where[i].Value>> /\ Q[i].GroupByEnc = <<>>
    <3> SUFFICES ASSUME NEW i \in 1..W
                 PROVE  Q[i].WhereEnc = <<q.Where[i].Value>> /\ Q[i].GroupByEnc = <<>>
      OBVIOUS
    <3> DEFINE x == <<q.Where[i].Value>>
               e == <<>>
    <3>1. Q[i] = [WhereEnc |-> x, GroupByEnc |-> e, AggregatingAttributes |-> e]
      BY <2>5
    <3> HIDE DEF x, e
    <3>2. Q[i].WhereEnc = x /\ Q[i].GroupByEnc = e
      BY <3>1
    <3> QED BY <3>2 DEF x, e
  <2> QED BY <2>6, <2>7
<1>3. F \in Seq(R) /\ \A i \in 1..n : F[i] \in R
  <2>1. \A r \in Row(q) : r \in R
    BY DEF Row, Triple, Vec
  <2>2. \A i \in 1..n : F[i] \in R
    BY <2>1, ElementOfSeq
  <2>3. F \in [1..n -> R]
    BY <2>2, LenProperties
  <2> QED BY <1>1, <2>2, <2>3
<1> HIDE DEF Q, R
<1>4. /\ DOMAIN T = 1..(W + n) /\ T \in Seq(R)
      /\ \A i \in 1..W : T[i] = Q[i]
      /\ \A i \in 1..n : T[W + i] = F[i]
  <2>2. Q \in Seq(R) /\ F \in Seq(R)
    BY <1>2, <1>3
  <2>1. /\ DOMAIN (Q \o F) = 1..(Len(Q) + Len(F)) /\ Q \o F \in Seq(R)
        /\ \A i \in 1..Len(Q) : (Q \o F)[i] = Q[i]
        /\ \A i \in 1..Len(F) : (Q \o F)[Len(Q) + i] = F[i]
    BY <2>2, JoinedElements
  <2> QED BY <1>2, <2>1
<1> HIDE DEF T
<1> DEFINE k == W + n
<1>5. k \in Nat /\ k > 0 /\ \A i \in 1..k : T[i] \in Triple
  <2>1. \A i \in 1..Len(T) : T[i] \in R
    BY <1>4, ElementOfSeq
  <2>2. Len(T) = k
    BY <1>1, <1>4, LenProperties
  <2> QED BY <1>1, <2>1, <2>2 DEF R
<1>6. \A i \in 1..k : T[i].WhereEnc \in Seq(Int) /\ T[i].GroupByEnc \in Seq(Int)
  BY <1>5 DEF Triple
<1>7. tags = TagsOf(T)
      /\ det = DeterCipherVectorToProcessResponseDet(tags, T)
  BY DEF T, Q
<1> HIDE DEF k
<1>8. det = [i \in 1..k |-> [PR |-> T[i], DetTagWhere |-> TagVec(T[i].WhereEnc),
                             DetTagGroupBy |-> TagVec(T[i].GroupByEnc)]]
  <2>1. DOMAIN T = 1..k
    BY <1>4 DEF k
  <2>2. k \in Nat /\ k > 0
    BY <1>5
  <2>3. tags = TagsOf(T)
    BY <1>7
  <2>4. DeterCipherVectorToProcessResponseDet(tags, T)
          = [i \in 1..k |-> [PR |-> T[i], DetTagWhere |-> TagVec(T[i].WhereEnc),
                             DetTagGroupBy |-> TagVec(T[i].GroupByEnc)]]
    BY <1>6, <2>1, <2>2, <2>3, TagsInPlace
  <2> QED BY <1>7, <2>4
<1>9. \A i \in 1..k : det[i] = WithTags(T[i])
  BY <1>8 DEF WithTags
<1>10. \A i \in 1..W : det[i].DetTagWhere[1] = Tag(q.Where[i].Value)
  <2> SUFFICES ASSUME NEW i \in 1..W PROVE det[i].DetTagWhere[1] = Tag(q.Where[i].Value)
    OBVIOUS
  <2>1. i \in 1..k
    BY <1>1 DEF k
  <2>4. T[i].WhereEnc = <<q.Where[i].Value>>
    BY <1>2, <1>4
  <2>5. det[i].DetTagWhere = TagVec(T[i].WhereEnc)
    <3>1. det[i] = WithTags(T[i])
      BY <1>9, <2>1
    <3> QED BY <3>1 DEF WithTags
  <2>2. det[i].DetTagWhere = TagVec(<<q.Where[i].Value>>)
    BY <2>4, <2>5
  <2>3. TagVec(<<q.Where[i].Value>>)[1] = Tag(q.Where[i].Value)
    BY DEF TagVec
  <2> QED BY <2>2, <2>3
<1>11. SubSeq(det, W + 1, Len(det)) = [i \in 1..n |-> WithTags(F[i])]
  <2> DEFINE D == {WithTags(r) : r \in Triple}
  <2>1. det \in Seq(D) /\ Len(det) = W + n
    <3>1. det \in [1..k -> D]
      BY <1>5, <1>8, <1>9
    <3>2. det \in Seq(D) /\ Len(det) = k
      <4> HIDE DEF D
      <4> QED BY <1>5, <3>1
    <3> QED BY <3>2 DEF k
  <2> HIDE DEF D
  <2>2. W + n <= Len(det)
    BY <1>1, <2>1
  <2>3. SubSeq(det, W + 1, W + n) = [i \in 1..n |-> det[W + i]]
    <3>1. det \in Seq(D) /\ W \in Nat /\ n \in Nat
      BY <1>1, <2>1
    <3> HIDE DEF W, n
    <3> QED BY <2>2, <3>1, SubSeqIs
  <2>4. \A i \in 1..n : det[W + i] = WithTags(F[i])
    <3> SUFFICES ASSUME NEW i \in 1..n PROVE det[W + i] = WithTags(F[i])
      OBVIOUS
    <3>1. W + i \in 1..k
      BY <1>1 DEF k
    <3> QED BY <1>4, <1>9, <3>1
  <2> QED BY <2>1, <2>3, <2>4
<1> QED BY <1>10, <1>11 DEF AllWithTags

(* What is left are the rows that match, each once, under the tags of      *)
(* their group by attributes.                                              *)
LEMMA FilteredRows ==
  ASSUME NEW q \in Query, PredicateFits(q), NEW F \in Seq(Row(q)), Len(F) > 0,
         NEW f, f = TaggedAndFiltered(q, F)
  PROVE  /\ Len(f) \in Nat /\ DOMAIN f = 1..Len(f)
         /\ \E h \in [1..Len(f) -> Chosen(F, q)] :
              /\ \A i, j \in 1..Len(f) : h[i] = h[j] => i = j
              /\ \A z \in Chosen(F, q) : \E i \in 1..Len(f) : h[i] = z
              /\ \A i \in 1..Len(f) : f[i] = Filtered(WithTags(F[h[i]]))
<1> DEFINE W == Len(q.Where)
           n == Len(F)
           target == QueryWhereToTag(q) \o F
           cv == ProcessResponseToCipherVector(target)
           tags == [i \in DOMAIN cv |-> Tag(cv[i])]
           det == DeterCipherVectorToProcessResponseDet(tags, target)
           queryTags == [i \in 1..W |-> det[i].DetTagWhere[1]]
           responses == SubSeq(det, W + 1, Len(det))
           keep == [i \in DOMAIN responses |->
                      Evaluate(q.Predicate, Parameters(queryTags, responses[i].DetTagWhere))]
           t == IF q.Predicate = {} \/ W = 0 THEN responses ELSE Kept(responses, keep)
           D == {WithTags(r) : r \in Row(q)}
           X == Chosen(F, q)
<1>1. f = FilterNone(t)
  BY DEF TaggedAndFiltered, FilterResponses
<1>2. W \in Nat /\ n \in Nat /\ DOMAIN F = 1..n /\ \A i \in 1..n : F[i] \in Row(q)
  BY ElementOfSeq, LenProperties DEF Query
<1>3. /\ \A i \in 1..W : det[i].DetTagWhere[1] = Tag(q.Where[i].Value)
      /\ responses = [i \in 1..n |-> WithTags(F[i])]
  <2>1. tags = TagsOf(QueryWhereToTag(q) \o F)
    BY DEF TagsOf
  <2>2. det = DeterCipherVectorToProcessResponseDet(tags, QueryWhereToTag(q) \o F)
    OBVIOUS
  <2> HIDE DEF tags, det
  <2>4. q \in Query /\ F \in Seq(Row(q)) /\ Len(F) > 0
    OBVIOUS
  <2>3. /\ \A i \in 1..Len(q.Where) : det[i].DetTagWhere[1] = Tag(q.Where[i].Value)
        /\ SubSeq(det, Len(q.Where) + 1, Len(det)) = AllWithTags(F)
    BY <2>1, <2>2, <2>4, TaggedResponses
  <2> QED BY <2>3 DEF AllWithTags
<1>4. Len(queryTags) = W /\ \A i \in 1..W : queryTags[i] = Tag(q.Where[i].Value)
  <2> HIDE DEF det
  <2> QED BY <1>2, <1>3
<1> HIDE DEF det, tags, cv, target, queryTags, responses
<1>5. responses \in Seq(D) /\ Len(responses) = n /\ DOMAIN responses = 1..n
  <2>1. responses \in [1..n -> D]
    BY <1>2, <1>3
  <2> HIDE DEF D
  <2> QED BY <1>2, <2>1
<1>6. \A i \in 1..n : responses[i] = WithTags(F[i])
  BY <1>3
<1>7. ASSUME NEW i \in 1..n, ~ (q.Predicate = {} \/ W = 0)
      PROVE  Evaluate(q.Predicate, Parameters(queryTags, responses[i].DetTagWhere)) <=> Fits(q, F[i].WhereEnc)
  <2>1. F[i].WhereEnc \in Vec(W)
    BY <1>2, RowParts
  <2>2. responses[i].DetTagWhere = TagVec(F[i].WhereEnc)
    <3>1. responses[i] = WithTags(F[i])
      BY <1>6
    <3> QED BY <3>1 DEF WithTags
  <2>3. Evaluate(q.Predicate, Parameters(queryTags, TagVec(F[i].WhereEnc))) <=> Fits(q, F[i].WhereEnc)
    BY <1>4, <1>7, <2>1, EvaluateFits
  <2> QED BY <2>2, <2>3
<1>8. X \subseteq 1..n /\ \A i \in 1..n : i \in X <=> Fits(q, F[i].WhereEnc)
  BY <1>2 DEF Chosen
<1>9. Picks(t, D, responses, X)
  <2>1. CASE q.Predicate = {} \/ W = 0
    <3>1. X = 1..n
      BY <1>8, <2>1 DEF Fits
    <3> DEFINE h == [i \in 1..n |-> i]
    <3>2. /\ h \in [1..n -> 1..n] /\ \A i, j \in 1..n : h[i] = h[j] => i = j
          /\ \A z \in 1..n : \E i \in 1..n : h[i] = z
          /\ \A i \in 1..n : responses[i] = responses[h[i]]
      OBVIOUS
    <3> HIDE DEF h, D
    <3>4. h \in [1..Len(responses) -> 1..n] /\ \A i, j \in 1..Len(responses) : h[i] = h[j] => i = j
      BY <1>5, <3>2
    <3>5. /\ \A z \in 1..n : \E i \in 1..Len(responses) : h[i] = z
          /\ \A i \in 1..Len(responses) : responses[i] = responses[h[i]]
      BY <1>5, <3>2
    <3>3. Picks(responses, D, responses, 1..n)
      BY <1>5, <3>4, <3>5, Zenon DEF Picks
    <3> QED BY <2>1, <3>1, <3>3
  <2>2. CASE ~ (q.Predicate = {} \/ W = 0)
    <3>1. keep \in [1..Len(responses) -> BOOLEAN]
      BY <1>5 DEF Evaluate
    <3>2. Upto(keep, Len(responses)) = X
      <4>1. \A i \in 1..n : keep[i] <=> Fits(q, F[i].WhereEnc)
        BY <1>5, <1>7, <2>2
      <4> HIDE DEF keep, X
      <4> QED BY <1>5, <1>8, <4>1 DEF Upto
    <3> HIDE DEF keep, D
    <3>3. Picks(Kept(responses, keep), D, responses, Upto(keep, Len(responses)))
      BY <1>5, <3>1, KeptAre
    <3> QED BY <2>2, <3>2, <3>3
  <2> QED BY <2>1, <2>2
<1> HIDE DEF t, D, X
<1>10. PICK h \in [1..Len(t) -> X] :
         /\ \A i, j \in 1..Len(t) : h[i] = h[j] => i = j
         /\ \A z \in X : \E i \in 1..Len(t) : h[i] = z
         /\ \A i \in 1..Len(t) : t[i] = responses[h[i]]
  BY <1>9 DEF Picks
<1>11. t \in Seq(D) /\ Len(t) \in Nat /\ DOMAIN t = 1..Len(t)
  BY <1>9, LenProperties DEF Picks
<1>12. DOMAIN f = 1..Len(t) /\ Len(f) = Len(t) /\ \A i \in 1..Len(t) : f[i] = Filtered(t[i])
  <2>1. f = [i \in 1..Len(t) |-> Filtered(t[i])]
    BY <1>1, <1>11 DEF FilterNone
  <2> QED BY <1>11, <2>1
<1>13. \A i \in 1..Len(t) : f[i] = Filtered(WithTags(F[h[i]]))
  <2> SUFFICES ASSUME NEW i \in 1..Len(t) PROVE f[i] = Filtered(WithTags(F[h[i]]))
    OBVIOUS
  <2>1. h[i] \in 1..n
    BY <1>8, <1>10
  <2>2. t[i] = WithTags(F[h[i]])
    BY <1>6, <1>10, <2>1
  <2> QED BY <1>12, <2>2
<1> QED
  <2>1. /\ \A i, j \in 1..Len(f) : h[i] = h[j] => i = j
        /\ \A z \in X : \E i \in 1..Len(f) : h[i] = z
        /\ \A i \in 1..Len(f) : f[i] = Filtered(WithTags(F[h[i]]))
        /\ h \in [1..Len(f) -> X]
    BY <1>10, <1>12, <1>13
  <2>2. Len(f) \in Nat /\ DOMAIN f = 1..Len(f)
    BY <1>11, <1>12
  <2> QED BY <2>1, <2>2 DEF X

-----------------------------------------------------------------------------
(* The map of a server: its matching rows, added by group.                 *)
Tags(F) == [i \in DOMAIN F |-> TagVec(F[i].GroupByEnc)]

LocMap(F, q) == SumOver(Tags(F), F, Chosen(F, q), Len(q.Sum))

LEMMA RowRecs ==
  ASSUME NEW q \in Query, NEW F, Rows(F, q)
  PROVE  Recs(Tags(F), F, Len(q.Sum)) /\ DOMAIN Tags(F) = DOMAIN F /\ Len(q.Sum) \in Nat
         /\ Chosen(F, q) \in SUBSET DOMAIN F
<1>1. DOMAIN Tags(F) = DOMAIN F
  BY DEF Tags
<1>2. \A i \in DOMAIN F : F[i].AggregatingAttributes \in Vec(Len(q.Sum))
  BY RowParts DEF Rows
<1>3. Len(q.Sum) \in Nat
  BY DEF Query
<1> QED BY <1>1, <1>2, <1>3 DEF Recs, Rows, Chosen

LEMMA TagVecUntag ==
  ASSUME NEW g \in Seq(Int)
  PROVE  Untag(TagVec(g)) = g
<1>1. DOMAIN TagVec(g) = DOMAIN g /\ \A i \in DOMAIN g : TagVec(g)[i][2] = g[i]
  BY DEF TagVec, Tag
<1>2. Untag(TagVec(g)) = [i \in DOMAIN g |-> g[i]]
  BY <1>1 DEF Untag
<1> QED BY <1>2, LenProperties

(* The keys and records of filtered responses.                             *)
KeysOf(f) == [i \in 1..Len(f) |-> f[i].DetTagGroupBy]
RecsOf(f) == [i \in 1..Len(f) |-> f[i].Fr]

IsFiltered(f, F, q, h) ==
  /\ Len(f) \in Nat /\ DOMAIN f = 1..Len(f)
  /\ h \in [1..Len(f) -> Chosen(F, q)]
  /\ \A i, j \in 1..Len(f) : h[i] = h[j] => i = j
  /\ \A z \in Chosen(F, q) : \E i \in 1..Len(f) : h[i] = z
  /\ \A i \in 1..Len(f) : f[i] = Filtered(WithTags(F[h[i]]))

LEMMA FilteredRecs ==
  ASSUME NEW q \in Query, NEW F, Rows(F, q), NEW f, NEW h, IsFiltered(f, F, q, h)
  PROVE  /\ Recs(KeysOf(f), RecsOf(f), Len(q.Sum)) /\ DOMAIN KeysOf(f) = 1..Len(f)
         /\ \A i \in 1..Len(f) :
              /\ f[i].DetTagGroupBy = KeysOf(f)[i] /\ f[i].Fr = RecsOf(f)[i]
              /\ IsRec(RecsOf(f)[i], KeysOf(f)[i])
              /\ h[i] \in DOMAIN F /\ KeysOf(f)[i] = Tags(F)[h[i]]
              /\ RecsOf(f)[i].AggregatingAttributes = F[h[i]].AggregatingAttributes
<1> DEFINE N == Len(f)
<1>1. DOMAIN KeysOf(f) = 1..N /\ IsFiniteSet(1..N) /\ N \in Nat
  BY FS_Interval DEF KeysOf, IsFiltered
<1>2. ASSUME NEW i \in 1..N
      PROVE  /\ f[i].DetTagGroupBy = KeysOf(f)[i] /\ f[i].Fr = RecsOf(f)[i]
             /\ IsRec(RecsOf(f)[i], KeysOf(f)[i])
             /\ h[i] \in DOMAIN F /\ KeysOf(f)[i] = Tags(F)[h[i]]
             /\ RecsOf(f)[i].AggregatingAttributes = F[h[i]].AggregatingAttributes
             /\ RecsOf(f)[i].AggregatingAttributes \in Vec(Len(q.Sum))
  <2> DEFINE r == F[h[i]]
  <2>1. h[i] \in Chosen(F, q) /\ f[i] = Filtered(WithTags(r))
    BY DEF IsFiltered
  <2>2. h[i] \in DOMAIN F
    BY <2>1 DEF Chosen
  <2>3. r.GroupByEnc \in Seq(Int) /\ r.AggregatingAttributes \in Vec(Len(q.Sum))
    <3>1. r \in Row(q)
      BY <2>2 DEF Rows
    <3> HIDE DEF r
    <3> QED BY <3>1, RowParts DEF Vec
  <2>4. Tags(F)[h[i]] = TagVec(r.GroupByEnc)
    BY <2>2 DEF Tags
  <2> HIDE DEF r
  <2>5. f[i] = [DetTagGroupBy |-> TagVec(r.GroupByEnc),
                Fr |-> [GroupByEnc |-> r.GroupByEnc, AggregatingAttributes |-> r.AggregatingAttributes]]
    BY <2>1 DEF Filtered, WithTags
  <2>6. KeysOf(f)[i] = TagVec(r.GroupByEnc) /\ RecsOf(f)[i] = f[i].Fr /\ KeysOf(f)[i] = f[i].DetTagGroupBy
    BY <2>5 DEF KeysOf, RecsOf
  <2>7. RecsOf(f)[i] = [GroupByEnc |-> r.GroupByEnc, AggregatingAttributes |-> r.AggregatingAttributes]
    BY <2>5, <2>6
  <2>8. Untag(TagVec(r.GroupByEnc)) = r.GroupByEnc
    BY <2>3, TagVecUntag
  <2>9. IsRec(RecsOf(f)[i], KeysOf(f)[i])
    BY <2>6, <2>7, <2>8 DEF IsRec
  <2>10. RecsOf(f)[i].AggregatingAttributes = r.AggregatingAttributes
    BY <2>7
  <2> QED BY <2>2, <2>3, <2>4, <2>6, <2>9, <2>10 DEF r
<1>3. Recs(KeysOf(f), RecsOf(f), Len(q.Sum))
  BY <1>1, <1>2 DEF Recs
<1> QED BY <1>1, <1>2, <1>3

LEMMA PushedMap ==
  ASSUME NEW q \in Query, NEW F, Rows(F, q), NEW f, NEW h, IsFiltered(f, F, q, h)
  PROVE  /\ PushDeterministicFilteredResponses(<<>>, f)
              = SumOver(KeysOf(f), RecsOf(f), 1..Len(f), Len(q.Sum))
         /\ PushDeterministicFilteredResponses(<<>>, f) = LocMap(F, q)
<1> DEFINE n == Len(q.Sum)
           N == Len(f)
           K == KeysOf(f)
           R == RecsOf(f)
           I == 1..N
<1>1. /\ Recs(K, R, n) /\ DOMAIN K = 1..N /\ n \in Nat /\ N \in Nat
      /\ \A i \in 1..N : f[i].DetTagGroupBy = K[i] /\ f[i].Fr = R[i] /\ IsRec(R[i], K[i])
  BY FilteredRecs, RowRecs DEF IsFiltered
<1>2. /\ \A i \in I : K[i] = Tags(F)[h[i]] /\ R[i].AggregatingAttributes = F[h[i]].AggregatingAttributes
      /\ Recs(Tags(F), F, n) /\ Chosen(F, q) \in SUBSET DOMAIN Tags(F)
  BY FilteredRecs, RowRecs
<1>3. /\ h \in [I -> Chosen(F, q)] /\ \A i, j \in I : h[i] = h[j] => i = j
      /\ \A z \in Chosen(F, q) : \E i \in I : h[i] = z
  BY DEF IsFiltered
<1>4. I \in SUBSET DOMAIN K
  BY <1>1
<1> HIDE DEF n, N, K, R
<1>5. PushDeterministicFilteredResponses(<<>>, f) = SumOver(K, R, 1..Len(f), n)
  BY <1>1, PushIs DEF N
<1> HIDE DEF I
<1>6. SumOver(K, R, I, n) = SumOver(Tags(F), F, Chosen(F, q), n)
  BY <1>1, <1>2, <1>3, <1>4, SumOverMoved
<1> QED BY <1>5, <1>6 DEF LocMap, I, n, N, K, R

(* The keys of the matching rows with one tag.                             *)
Sel(F, q, t) == {k \in Keys(F) : TagVec(k[1]) = t /\ Fits(q, k[2])}

LEMMA ChosenWeight ==
  ASSUME NEW q \in Query, NEW F, Rows(F, q), NEW t, NEW a \in 1..Len(q.Sum)
  PROVE  Total(Part(Tags(F), F, t, a), Chosen(F, q)) = Weight(F, Sel(F, q, t), a)
<1> DEFINE X == Sel(F, q, t)
           u == Share(F, X, a)
           v == Part(Tags(F), F, t, a)
           C == Chosen(F, q)
<1>1. C \in SUBSET DOMAIN F /\ DOMAIN Tags(F) = DOMAIN F /\ IsFiniteSet(DOMAIN F) /\ IsFiniteSet(C)
  <2>1. C \in SUBSET DOMAIN F /\ DOMAIN Tags(F) = DOMAIN F /\ IsFiniteSet(DOMAIN F)
    BY RowRecs DEF Rows
  <2> QED BY <2>1, FS_Subset
<1>2. ASSUME NEW i \in DOMAIN F
      PROVE  /\ KeyOf(F[i]) \in X <=> (i \in C /\ Tags(F)[i] = t)
             /\ KeyOf(F[i])[2] = F[i].WhereEnc
  <2>1. KeyOf(F[i]) \in Keys(F) /\ KeyOf(F[i])[1] = F[i].GroupByEnc /\ KeyOf(F[i])[2] = F[i].WhereEnc
    BY DEF Keys, KeyOf
  <2>2. Tags(F)[i] = TagVec(F[i].GroupByEnc)
    BY DEF Tags
  <2>3. i \in C <=> Fits(q, F[i].WhereEnc)
    BY DEF Chosen
  <2> HIDE DEF C
  <2> QED BY <2>1, <2>2, <2>3 DEF Sel
<1>3. \A i \in DOMAIN F : F[i].AggregatingAttributes[a] \in Int
  BY RowParts DEF Rows
<1>4. \A i \in DOMAIN F : u[i] = IF KeyOf(F[i]) \in X THEN F[i].AggregatingAttributes[a] ELSE 0
  BY DEF Share
<1>5. \A i \in DOMAIN F : v[i] = IF Tags(F)[i] = t THEN F[i].AggregatingAttributes[a] ELSE 0
  BY <1>1 DEF Part
<1> HIDE DEF X, u, v, C
<1>6. Ints(u, C) /\ Ints(v, C)
  BY <1>1, <1>3, <1>4, <1>5 DEF Ints
<1>7. \A i \in C : v[i] = u[i]
  BY <1>1, <1>2, <1>4, <1>5
<1>8. \A i \in DOMAIN F \ C : u[i] = 0
  BY <1>2, <1>4
<1>9. Total(v, C) = Total(u, C)
  BY <1>1, <1>6, <1>7, TotalSame
<1>10. Total(u, DOMAIN F) = Total(u, C)
  BY <1>1, <1>6, <1>8, TotalRestrict
<1> QED BY <1>9, <1>10 DEF Weight, X, u, v, C

(* Rows that amount to the same are tagged, filtered and added to the same *)
(* map.                                                                    *)
LEMMA LocMapAlike ==
  ASSUME NEW q \in Query, NEW F, NEW G, Rows(F, q), Rows(G, q), Alike(F, G, q)
  PROVE  LocMap(F, q) = LocMap(G, q)
<1> DEFINE n == Len(q.Sum)
<1>1. Keys(F) = Keys(G) /\ \A X : \A a \in 1..n : Weight(F, X, a) = Weight(G, X, a)
  BY DEF Alike
<1>2. ASSUME NEW H, Rows(H, q)
      PROVE  {Tags(H)[i] : i \in Chosen(H, q)} = {TagVec(k[1]) : k \in {k \in Keys(H) : Fits(q, k[2])}}
  <2>1. \A i \in DOMAIN H : /\ KeyOf(H[i])[1] = H[i].GroupByEnc /\ KeyOf(H[i])[2] = H[i].WhereEnc
                            /\ Tags(H)[i] = TagVec(H[i].GroupByEnc)
    BY DEF KeyOf, Tags
  <2> QED BY <2>1 DEF Keys, Chosen
<1>3. \A t : Sel(F, q, t) = Sel(G, q, t)
  BY <1>1 DEF Sel
<1>4. ASSUME NEW t
      PROVE  Entry(Tags(F), F, Chosen(F, q), t, n) = Entry(Tags(G), G, Chosen(G, q), t, n)
  <2>1. ASSUME NEW a \in 1..n
        PROVE  Total(Part(Tags(F), F, t, a), Chosen(F, q)) = Total(Part(Tags(G), G, t, a), Chosen(G, q))
    <3>1. Total(Part(Tags(F), F, t, a), Chosen(F, q)) = Weight(F, Sel(F, q, t), a)
      BY ChosenWeight
    <3>2. Total(Part(Tags(G), G, t, a), Chosen(G, q)) = Weight(G, Sel(G, q, t), a)
      BY ChosenWeight
    <3> QED BY <1>1, <1>3, <3>1, <3>2
  <2> QED BY <2>1 DEF Entry
<1>5. {Tags(F)[i] : i \in Chosen(F, q)} = {Tags(G)[i] : i \in Chosen(G, q)}
  <2>1. {Tags(F)[i] : i \in Chosen(F, q)} = {TagVec(k[1]) : k \in {k \in Keys(F) : Fits(q, k[2])}}
    BY <1>2
  <2>2. {Tags(G)[i] : i \in Chosen(G, q)} = {TagVec(k[1]) : k \in {k \in Keys(G) : Fits(q, k[2])}}
    BY <1>2
  <2> QED BY <1>1, <2>1, <2>2
<1> HIDE DEF n
<1>6. SumOver(Tags(F), F, Chosen(F, q), n)
        = [t \in {Tags(G)[i] : i \in Chosen(G, q)} |-> Entry(Tags(F), F, Chosen(F, q), t, n)]
  BY <1>5 DEF SumOver
<1>7. SumOver(Tags(F), F, Chosen(F, q), n) = SumOver(Tags(G), G, Chosen(G, q), n)
  BY <1>4, <1>6 DEF SumOver
<1> QED BY <1>7 DEF LocMap, n

-----------------------------------------------------------------------------
(* The published proofs of what a server adds up locally.                  *)
AddsUpTo(p) ==
  /\ Len(p.Data) = Len(p.AggregationResult)
  /\ \A a \in DOMAIN p.Data : Total(p.Data[a], DOMAIN p.Data[a]) = p.AggregationResult[a]

(* The values that are published for a group are those of its records.     *)
LEMMA OwnValues ==
  ASSUME NEW n \in Nat, NEW X, NEW f \in Seq(X), NEW K, NEW R, Recs(K, R, n), DOMAIN K = 1..Len(f),
         \A i \in 1..Len(f) : f[i].DetTagGroupBy = K[i] /\ f[i].Fr = R[i],
         NEW key \in {K[i] : i \in 1..Len(f)}
  PROVE  LET d == FormatAggregationProofs(f)[key]
         IN  /\ DOMAIN d = 1..n /\ Len(d) = n
             /\ \A a \in 1..n : Total(d[a], DOMAIN d[a]) = Total(Part(K, R, key, a), 1..Len(f))
<1> DEFINE N == Len(f)
           keep == [i \in DOMAIN f |-> f[i].DetTagGroupBy = key]
           own == Kept(f, keep)
           P == Upto(keep, N)
           d == [a \in DOMAIN own[1].Fr.AggregatingAttributes |->
                   [i \in DOMAIN own |-> own[i].Fr.AggregatingAttributes[a]]]
<1>1. N \in Nat /\ DOMAIN f = 1..N
  BY LenProperties
<1>2. key \in {f[i].DetTagGroupBy : i \in DOMAIN f}
  BY <1>1
<1>3. FormatAggregationProofs(f)[key] = d
  BY <1>2 DEF FormatAggregationProofs
<1>4. keep \in [1..N -> BOOLEAN] /\ \A i \in 1..N : keep[i] <=> K[i] = key
  BY <1>1
<1> HIDE DEF keep
<1>5. Picks(own, X, f, P)
  BY <1>4, KeptAre
<1>6. P = {i \in 1..N : K[i] = key}
  BY <1>4 DEF Upto
<1> HIDE DEF P, own
<1>7. /\ own \in Seq(X) /\ Len(own) \in Nat /\ DOMAIN own = 1..Len(own)
  BY <1>5, LenProperties DEF Picks
<1>8. PICK g :
        /\ g \in [1..Len(own) -> P]
        /\ \A i, j \in 1..Len(own) : g[i] = g[j] => i = j
        /\ \A z \in P : \E i \in 1..Len(own) : g[i] = z
        /\ \A i \in 1..Len(own) : own[i] = f[g[i]]
  BY <1>5 DEF Picks
<1>9. \A i \in 1..Len(own) : /\ g[i] \in P /\ g[i] \in 1..N /\ K[g[i]] = key
                             /\ own[i].Fr = R[g[i]] /\ R[g[i]].AggregatingAttributes \in Vec(n)
  <2> SUFFICES ASSUME NEW i \in 1..Len(own)
               PROVE  /\ g[i] \in P /\ g[i] \in 1..N /\ K[g[i]] = key
                      /\ own[i].Fr = R[g[i]] /\ R[g[i]].AggregatingAttributes \in Vec(n)
    OBVIOUS
  <2>1. g[i] \in P
    BY <1>8
  <2>2. g[i] \in 1..N /\ K[g[i]] = key
    BY <1>6, <2>1
  <2>3. own[i] = f[g[i]]
    BY <1>8
  <2>4. R[g[i]].AggregatingAttributes \in Vec(n)
    BY <2>2 DEF Recs
  <2> QED BY <2>1, <2>2, <2>3, <2>4
<1>10. 1 \in 1..Len(own)
  <2>1. PICK z \in 1..N : K[z] = key
    OBVIOUS
  <2>2. z \in P
    BY <1>6, <2>1
  <2>3. \E i \in 1..Len(own) : g[i] = z
    BY <1>8, <2>2
  <2> QED BY <1>7, <2>3
<1>11. DOMAIN own[1].Fr.AggregatingAttributes = 1..n
  <2>1. own[1].Fr.AggregatingAttributes \in Vec(n)
    BY <1>9, <1>10
  <2> QED BY <2>1, LenProperties DEF Vec
<1>12. DOMAIN d = 1..n /\ \A a \in 1..n : d[a] = [i \in 1..Len(own) |-> own[i].Fr.AggregatingAttributes[a]]
  BY <1>7, <1>11
<1>13. Len(d) = n
  <2>1. d = [a \in 1..n |-> [i \in 1..Len(own) |-> own[i].Fr.AggregatingAttributes[a]]]
    BY <1>7, <1>11
  <2> HIDE DEF d
  <2> QED BY <2>1
<1> HIDE DEF d
<1>14. ASSUME NEW a \in 1..n PROVE Total(d[a], DOMAIN d[a]) = Total(Part(K, R, key, a), 1..Len(f))
  <2> DEFINE u == d[a]
             v == Part(K, R, key, a)
             L == Len(own)
             I == 1..L
             M == 1..N
  <2>1. \A i \in I : u[i] = v[g[i]]
    <3>1. \A i \in I : u[i] = own[i].Fr.AggregatingAttributes[a]
      BY <1>12
    <3>2. \A i \in I : v[g[i]] = R[g[i]].AggregatingAttributes[a]
      BY <1>9 DEF Part
    <3> QED BY <1>9, <3>1, <3>2
  <2>2. DOMAIN u = I
    BY <1>12
  <2>3. \A i \in M \ P : v[i] = 0
    BY <1>6 DEF Part
  <2>4. M \in SUBSET DOMAIN K /\ P \in SUBSET DOMAIN K /\ P \in SUBSET M
    BY <1>6
  <2>5. IsFiniteSet(M) /\ Ints(v, P)
    BY <2>4, PartInts
  <2>6. IsFiniteSet(I)
    <3>1. L \in Nat
      BY <1>7
    <3> HIDE DEF L
    <3> QED BY <3>1, FS_Interval
  <2>7. g \in [I -> P] /\ \A i, j \in I : g[i] = g[j] => i = j
    BY <1>8
  <2>8. \A z \in P : \E i \in I : g[i] = z
    BY <1>8
  <2> HIDE DEF u, v, I, M
  <2>9. Total(u, I) = Total(v, P)
    BY <2>1, <2>5, <2>6, <2>7, <2>8, TotalMoved
  <2>10. Total(v, M) = Total(v, P)
    BY <2>3, <2>4, <2>5, TotalRestrict
  <2> QED BY <2>2, <2>9, <2>10 DEF u, v, M
<1> QED BY <1>3, <1>12, <1>13, <1>14

(* When a server's map was empty, each proof it publishes adds up to what  *)
(* is in the map.                                                          *)
LEMMA ProofsAddUp ==
  ASSUME NEW q \in Query, NEW F, Rows(F, q), NEW X, NEW f \in Seq(X), NEW h, IsFiltered(f, F, q, h),
         NEW p \in AggregationProofs(PushDeterministicFilteredResponses(<<>>, f), f)
  PROVE  AddsUpTo(p)
<1> DEFINE n == Len(q.Sum)
           N == Len(f)
           K == KeysOf(f)
           R == RecsOf(f)
           map == PushDeterministicFilteredResponses(<<>>, f)
           data == FormatAggregationProofs(f)
<1>1. /\ Recs(K, R, n) /\ DOMAIN K = 1..N /\ n \in Nat
      /\ \A i \in 1..N : f[i].DetTagGroupBy = K[i] /\ f[i].Fr = R[i]
  BY FilteredRecs, RowRecs
<1>2. map = SumOver(K, R, 1..N, n)
  BY PushedMap
<1>3. DOMAIN data = {K[i] : i \in 1..N}
  <2>1. DOMAIN f = 1..N
    BY LenProperties
  <2> HIDE DEF K
  <2> QED BY <1>1, <2>1 DEF FormatAggregationProofs
<1>4. PICK key \in DOMAIN data : p = [Data |-> data[key], AggregationResult |-> map[key].AggregatingAttributes]
  BY DEF AggregationProofs
<1> HIDE DEF K, R, map
<1>5. /\ DOMAIN data[key] = 1..n /\ Len(data[key]) = n
      /\ \A a \in 1..n : Total(data[key][a], DOMAIN data[key][a]) = Total(Part(K, R, key, a), 1..N)
  <2>1. key \in {K[i] : i \in 1..N}
    BY <1>3, <1>4
  <2> HIDE DEF n
  <2> QED BY <1>1, <2>1, OwnValues
<1>6. map[key].AggregatingAttributes = [a \in 1..n |-> Total(Part(K, R, key, a), 1..N)]
  BY <1>2, <1>3, <1>4 DEF SumOver, Entry
<1>7. p.Data = data[key] /\ p.AggregationResult = map[key].AggregatingAttributes
  BY <1>4
<1>8. Len(p.AggregationResult) = n
  <2> HIDE DEF n
  <2> QED BY <1>1, <1>6, <1>7
<1> HIDE DEF data, n
<1> QED BY <1>5, <1>6, <1>7, <1>8 DEF AddsUpTo

-----------------------------------------------------------------------------
Phase == {"idle", "waiting", "shuffling", "tagging", "tagged", "switching", "answering"}

(* Only a server that has tagged has a map of its own sums, and what it    *)
(* has published adds up.                                                  *)
PInv ==
  /\ Inv
  /\ pc \in [Server -> Phase]
  /\ \A s \in Server : pc[s] # "tagged" => store[s].LocAggregatedProcessResponse = <<>>
  /\ DOMAIN published = Server
  /\ \A s \in Server : \A p \in published[s] : AddsUpTo(p)

LEMMA InitPInv == Init => PInv
<1> SUFFICES ASSUME Init PROVE PInv
  OBVIOUS
<1>1. Inv
  BY InitInv
<1> QED BY <1>1 DEF Init, PInv, Phase, NewStore

(* What tagging filters, and the map it is added to.                       *)
LEMMA TaggedIsFiltered ==
  ASSUME NEW q \in Query, PredicateFits(q), NEW F \in Seq(Row(q)), F # <<>>,
         NEW f, f = TaggedAndFiltered(q, F)
  PROVE  /\ \E X : f \in Seq(X)
         /\ \E h : IsFiltered(f, F, q, h)
<1>1. Len(F) > 0
  BY EmptySeq, LenProperties
<1>2. Len(f) \in Nat /\ DOMAIN f = 1..Len(f)
  BY <1>1, FilteredRows
<1>3. PICK h \in [1..Len(f) -> Chosen(F, q)] :
              /\ \A i, j \in 1..Len(f) : h[i] = h[j] => i = j
              /\ \A z \in Chosen(F, q) : \E i \in 1..Len(f) : h[i] = z
              /\ \A i \in 1..Len(f) : f[i] = Filtered(WithTags(F[h[i]]))
  BY <1>1, FilteredRows
<1>4. IsFiltered(f, F, q, h)
  BY <1>2, <1>3 DEF IsFiltered
<1>5. f = [i \in DOMAIN f |-> f[i]]
  BY DEF TaggedAndFiltered, FilterResponses, FilterNone
<1>6. f \in Seq({f[i] : i \in 1..Len(f)})
  BY <1>2, <1>5
<1> QED BY <1>4, <1>6

LEMMA TagKeepsProofs ==
  ASSUME PInv, NEW s \in Server, TaggingPhase(s)
  PROVE  PInv'
<1> DEFINE q == query
           F == store[s].ShuffledProcessResponses
           f == TaggedAndFiltered(q, F)
           map == PushDeterministicFilteredResponses(<<>>, f)
<1>1. Inv'
  BY TagPreserves DEF PInv
<1>2. /\ pc' = [pc EXCEPT ![s] = "tagged"] /\ pc[s] = "tagging"
      /\ store[s].LocAggregatedProcessResponse = <<>>
  BY DEF TaggingPhase, PInv
<1>3. CASE F = <<>>
  <2>1. store' = store /\ published' = published
    BY <1>3 DEF TaggingPhase
  <2> QED BY <1>1, <1>2, <2>1 DEF PInv, Phase
<1>4. CASE F # <<>>
  <2>1. /\ store' = [store EXCEPT ![s].ShuffledProcessResponses = <<>>,
                                  ![s].LocAggregatedProcessResponse = map]
        /\ published' = [published EXCEPT ![s] = AggregationProofs(map, f)]
    BY <1>2, <1>4 DEF TaggingPhase
  <2>2. /\ q \in Query /\ PredicateFits(q) /\ F \in Seq(Row(q))
    BY InputsAssumption DEF PInv, Inv, query, StoreOK
  <2>3. Rows(F, q)
    BY <2>2, RowsOfSeq
  <2> HIDE DEF F, q
  <2>4. ASSUME NEW p \in AggregationProofs(map, f) PROVE AddsUpTo(p)
    <3>1. f = TaggedAndFiltered(q, F)
      OBVIOUS
    <3> HIDE DEF f
    <3>2. PICK X, h : f \in Seq(X) /\ IsFiltered(f, F, q, h)
      BY <1>4, <2>2, <3>1, TaggedIsFiltered
    <3> QED BY <2>2, <2>3, <3>2, ProofsAddUp
  <2> HIDE DEF map, f
  <2>5. \A t \in Server : \A p \in published'[t] : AddsUpTo(p)
    BY <2>1, <2>4 DEF PInv
  <2>8. DOMAIN store = Server /\ pc \in [Server -> Phase]
    BY DEF PInv, Inv
  <2>6. \A t \in Server \ {s} : store'[t] = store[t] /\ pc'[t] = pc[t]
    BY <1>2, <2>1, <2>8
  <2>7. /\ pc' \in [Server -> Phase] /\ pc'[s] = "tagged" /\ DOMAIN published' = Server
    BY <1>2, <2>1 DEF PInv, Phase
  <2> QED BY <1>1, <2>5, <2>6, <2>7 DEF PInv
<1> QED BY <1>3, <1>4

LEMMA StepPInv == PInv /\ [Next]_vars => PInv'
<1> SUFFICES ASSUME PInv, [Next]_vars PROVE PInv'
  OBVIOUS
<1>0. Inv'
  BY StepInv DEF PInv
<1>a. DOMAIN store = Server /\ \A s \in Server : DOMAIN store[s] = StoreField
  BY DEF PInv, Inv, StoreOK
<1>1. CASE HandleSurveyResultsQuery
  BY <1>0, <1>1 DEF HandleSurveyResultsQuery, PInv, Phase
<1>2. ASSUME NEW s \in Server, PushData(s) PROVE PInv'
  <2>1. /\ \E cr : store' = [store EXCEPT ![s] = InsertDpResponse(@, cr, query)]
        /\ pc' = pc /\ published' = published
    BY <1>2 DEF PushData
  <2>2. \A cr : InsertDpResponse(store[s], cr, query).LocAggregatedProcessResponse
                  = store[s].LocAggregatedProcessResponse
    BY <1>a DEF InsertDpResponse, StoreField
  <2>3. \A t \in Server : store'[t].LocAggregatedProcessResponse = store[t].LocAggregatedProcessResponse
    BY <1>a, <2>1, <2>2
  <2> QED BY <1>0, <2>1, <2>3 DEF PInv
<1>3. ASSUME NEW s \in Server, SendDpToken(s) PROVE PInv'
  BY <1>0, <1>3 DEF SendDpToken, PInv
<1>4. ASSUME NEW s \in Server, StartService(s) PROVE PInv'
  BY <1>0, <1>4 DEF StartService, PInv, Phase
<1>5. ASSUME NEW s \in Server, ShufflingPhase(s) PROVE PInv'
  <2>1. \/ store' = store
        \/ \E x : store' = [store EXCEPT ![s].DpResponses = <<>>,
                              ![s].ShuffledProcessResponses = @ \o x]
    BY <1>5 DEF ShufflingPhase
  <2>2. \A t \in Server : store'[t].LocAggregatedProcessResponse = store[t].LocAggregatedProcessResponse
    <3>1. CASE store' = store
      BY <3>1
    <3>2. ASSUME NEW x, store' = [store EXCEPT ![s].DpResponses = <<>>,
                                    ![s].ShuffledProcessResponses = @ \o x]
          PROVE  \A t \in Server :
                   store'[t].LocAggregatedProcessResponse = store[t].LocAggregatedProcessResponse
      <4> DEFINE y == store[s].ShuffledProcessResponses \o x
      <4>1. store' = [store EXCEPT ![s] = [store[s] EXCEPT !.DpResponses = <<>>,
                                             !.ShuffledProcessResponses = y]]
        BY <1>a, <3>2
      <4> HIDE DEF y
      <4> QED BY <1>a, <4>1 DEF StoreField
    <3> QED BY <2>1, <3>1, <3>2
  <2>3. pc' = [pc EXCEPT ![s] = "tagging"] /\ pc[s] = "shuffling" /\ published' = published
    BY <1>5 DEF ShufflingPhase
  <2> QED BY <1>0, <2>2, <2>3 DEF PInv, Phase
<1>6. ASSUME NEW s \in Server, TaggingPhase(s) PROVE PInv'
  BY <1>6, TagKeepsProofs
<1>7. ASSUME NEW s \in Server, AggregationPhase(s) PROVE PInv'
  <2>1. \E f : store' = [t \in Server |->
           [store[t] EXCEPT !.LocAggregatedProcessResponse = <<>>,
                            !.GroupedDeterministicFilteredResponses = IF t = s THEN f ELSE @]]
    BY <1>7 DEF AggregationPhase
  <2>2. \A t \in Server : store'[t].LocAggregatedProcessResponse = <<>>
    <3>1. PICK f : store' = [t \in Server |->
           [store[t] EXCEPT !.LocAggregatedProcessResponse = <<>>,
                            !.GroupedDeterministicFilteredResponses = IF t = s THEN f ELSE @]]
      BY <2>1
    <3> SUFFICES ASSUME NEW t \in Server PROVE store'[t].LocAggregatedProcessResponse = <<>>
      OBVIOUS
    <3> DEFINE st == store[t]
    <3>2. store'[t] = [st EXCEPT !.LocAggregatedProcessResponse = <<>>,
                                 !.GroupedDeterministicFilteredResponses = IF t = s THEN f ELSE @]
      BY <3>1
    <3>3. DOMAIN st = StoreField
      BY <1>a
    <3> HIDE DEF st
    <3> QED BY <3>2, <3>3 DEF StoreField
  <2>3. pc' = [t \in Server |-> IF t = s THEN "switching" ELSE "idle"] /\ published' = published
    BY <1>7 DEF AggregationPhase
  <2> QED BY <1>0, <2>2, <2>3 DEF PInv, Phase
<1>8. ASSUME NEW s \in Server, KeySwitchingPhase(s) PROVE PInv'
  <2>1. \E x : store' = [store EXCEPT ![s].GroupedDeterministicFilteredResponses = <<>>,
                                      ![s].DeliverableResults = x]
    BY <1>8 DEF KeySwitchingPhase
  <2>2. \A t \in Server : store'[t].LocAggregatedProcessResponse = store[t].LocAggregatedProcessResponse
    BY <1>a, <2>1 DEF StoreField
  <2>3. pc' = [pc EXCEPT ![s] = "answering"] /\ pc[s] = "switching" /\ published' = published
    BY <1>8 DEF KeySwitchingPhase
  <2> QED BY <1>0, <2>2, <2>3 DEF PInv, Phase
<1>9. ASSUME NEW s \in Server, Answer(s) PROVE PInv'
  <2>1. store' = [store EXCEPT ![s].DeliverableResults = <<>>]
    BY <1>9 DEF Answer
  <2>2. \A t \in Server : store'[t].LocAggregatedProcessResponse = store[t].LocAggregatedProcessResponse
    BY <1>a, <2>1 DEF StoreField
  <2>3. pc' = [pc EXCEPT ![s] = "idle"] /\ pc[s] = "answering" /\ published' = published
    BY <1>9 DEF Answer
  <2> QED BY <1>0, <2>2, <2>3 DEF PInv, Phase
<1>10. CASE UNCHANGED vars
  BY <1>0, <1>10 DEF vars, PInv
<1> QED BY <1>1, <1>2, <1>3, <1>4, <1>5, <1>6, <1>7, <1>8, <1>9, <1>10 DEF Next

LEMMA PInvHolds == PInv => AggregationProofsHold
<1> SUFFICES ASSUME PInv, NEW s \in Server, NEW p \in published[s]
             PROVE  /\ Len(p.Data) = Len(p.AggregationResult)
                    /\ \A a \in DOMAIN p.Data :
                         MapThenSumSet(LAMBDA i : p.Data[a][i], DOMAIN p.Data[a]) = p.AggregationResult[a]
  BY DEF AggregationProofsHold
<1>1. AddsUpTo(p)
  BY DEF PInv
<1>2. \A a \in DOMAIN p.Data : Total(p.Data[a], DOMAIN p.Data[a]) = p.AggregationResult[a]
  BY <1>1 DEF AddsUpTo
<1>3. \A a \in DOMAIN p.Data :
        MapThenSumSet(LAMBDA i : p.Data[a][i], DOMAIN p.Data[a]) = p.AggregationResult[a]
  BY <1>2 DEF Total
<1> QED BY <1>1, <1>3 DEF AddsUpTo

(* Every proof of local aggregation that a server publishes holds: the     *)
(* values it shows for a group and attribute add up to what the server's   *)
(* map has for them, whatever the responses were and however shuffling     *)
(* ordered them.                                                           *)
THEOREM ProofsOfAggregationHold == Spec => []AggregationProofsHold
<1>1. PInv /\ [Next]_vars => PInv'
  BY StepPInv
<1> QED BY <1>1, InitPInv, PInvHolds, PTL DEF Spec

-----------------------------------------------------------------------------
(* The rows of the responses that data providers send.                     *)
RowsOf(rs, q) == [k \in DOMAIN rs |-> NewResponse(rs[k], q)]

LEMMA RowsOfSent ==
  ASSUME NEW i \in Inputs, NEW rs \in Seq(Sent(i))
  PROVE  /\ RowsOf(rs, i.query) \in Seq(Row(i.query)) /\ Rows(RowsOf(rs, i.query), i.query)
         /\ DOMAIN RowsOf(rs, i.query) = DOMAIN rs /\ DOMAIN rs = 1..Len(rs) /\ Len(rs) \in Nat
         /\ \A k \in DOMAIN rs : rs[k] \in Sent(i) /\ RowsOf(rs, i.query)[k] = NewResponse(rs[k], i.query)
<1> DEFINE F == RowsOf(rs, i.query)
           n == Len(rs)
<1>1. n \in Nat /\ DOMAIN rs = 1..n /\ \A k \in 1..n : rs[k] \in Sent(i)
  BY ElementOfSeq, LenProperties
<1>2. F = [k \in 1..n |-> NewResponse(rs[k], i.query)]
  BY <1>1 DEF RowsOf
<1>3. \A k \in 1..n : NewResponse(rs[k], i.query) \in Row(i.query)
  BY <1>1, SentResponse
<1> HIDE DEF F, n
<1>4. F \in Seq(Row(i.query))
  BY <1>1, <1>2, <1>3
<1>5. i.query \in Query
  BY InputsAssumption
<1>6. Rows(F, i.query)
  BY <1>4, <1>5, RowsOfSeq
<1>7. DOMAIN F = 1..n /\ \A k \in 1..n : F[k] = NewResponse(rs[k], i.query)
  BY <1>2
<1> QED BY <1>1, <1>4, <1>6, <1>7 DEF F, n

LEMMA RowsOfAppended ==
  ASSUME NEW i \in Inputs, NEW rs \in Seq(Sent(i)), NEW cr \in Sent(i)
  PROVE  /\ Append(rs, cr) \in Seq(Sent(i))
         /\ RowsOf(Append(rs, cr), i.query) = Append(RowsOf(rs, i.query), NewResponse(cr, i.query))
<1> DEFINE q == i.query
           R == Row(q)
           F == RowsOf(rs, q)
           r == NewResponse(cr, q)
           new == Append(rs, cr)
           n == Len(rs)
<1>1. /\ F \in Seq(R) /\ DOMAIN F = DOMAIN rs
      /\ \A k \in DOMAIN rs : F[k] = NewResponse(rs[k], q)
  BY RowsOfSent
<1>2. r \in R
  BY SentResponse
<1>3. /\ n \in Nat /\ DOMAIN rs = 1..n /\ new \in Seq(Sent(i)) /\ DOMAIN new = 1..(n + 1)
      /\ \A k \in 1..n : new[k] = rs[k]
      /\ new[n + 1] = cr
  BY AppendedElements
<1>4. Len(F) = n
  <2>1. DOMAIN F = 1..Len(F) /\ Len(F) \in Nat
    BY <1>1, LenProperties
  <2> QED BY <1>1, <1>3, <2>1
<1> HIDE DEF F, r, R, q, new, n
<1>5. /\ Append(F, r) \in Seq(R) /\ DOMAIN Append(F, r) = 1..(n + 1)
      /\ \A k \in 1..n : Append(F, r)[k] = F[k]
      /\ Append(F, r)[n + 1] = r
  BY <1>1, <1>2, <1>4, AppendedElements
<1>6. RowsOf(new, q) = [k \in 1..(n + 1) |-> NewResponse(new[k], q)]
  BY <1>3 DEF RowsOf
<1>7. \A k \in 1..(n + 1) : NewResponse(new[k], q) = Append(F, r)[k]
  <2> SUFFICES ASSUME NEW k \in 1..(n + 1) PROVE NewResponse(new[k], q) = Append(F, r)[k]
    OBVIOUS
  <2>1. CASE k = n + 1
    BY <1>3, <1>5, <2>1 DEF r
  <2>2. CASE k # n + 1
    <3>1. k \in 1..n
      BY <1>3, <2>2
    <3> QED BY <1>1, <1>3, <1>5, <3>1
  <2> QED BY <2>1, <2>2
<1>8. Append(F, r) = [k \in 1..(n + 1) |-> Append(F, r)[k]]
  BY <1>5, LenProperties
<1>9. RowsOf(new, q) = Append(F, r)
  BY <1>6, <1>7, <1>8
<1> QED BY <1>3, <1>9 DEF F, r, new, q

-----------------------------------------------------------------------------
(* The phases of a query.                                                  *)
LEMMA NoRows ==
  ASSUME NEW q \in Query
  PROVE  Rows(<<>>, q) /\ Keys(<<>>) = {} /\ \A X : \A a : Weight(<<>>, X, a) = 0
<1>1. DOMAIN <<>> = {}
  OBVIOUS
<1>2. IsFiniteSet({})
  BY FS_EmptySet
<1>3. Rows(<<>>, q)
  BY <1>1, <1>2 DEF Rows
<1> QED BY <1>1, <1>3, WeightNone

(* What comes back from shuffling amounts to what the store held.          *)
LEMMA ShuffledStore ==
  ASSUME NEW q \in Query, NEW st, StoreOK(st, q), NEW G, Holds(st, G, q),
         NEW pulled \in PullDpResponses(st), NEW pr, pr = WithDummy(pulled),
         NEW pi \in Orders(DOMAIN ProcessResponseToMatrixCipherText(pr)), NEW back,
         back = MatrixCipherTextToProcessResponse(
                  [i \in DOMAIN pi |-> ProcessResponseToMatrixCipherText(pr)[pi[i]]], LengthsOf(pr))
  PROVE  back \in Seq(Row(q)) /\ Alike(back, G, q)
<1>1. pulled \in Seq(Row(q)) /\ Alike(pulled, G, q)
  BY PulledRows, PulledAlike
<1>2. pr \in Seq(Row(q)) /\ Alike(pr, pulled, q)
  BY <1>1, DummyRow, DummyAlike
<1>3. back \in Seq(Row(q))
  BY <1>2, ShuffledRows
<1>4. Alike(back, pr, q)
  BY <1>2, ShuffledAlike
<1> QED BY <1>1, <1>2, <1>3, <1>4 DEF Alike

LEMMA EmptyStore ==
  ASSUME NEW q \in Query, NEW st, NEW G, Rows(G, q), Holds(st, G, q),
         st.DpResponses = <<>>, st.DpResponsesAggr = <<>>
  PROVE  Alike(<<>>, G, q)
<1>1. Keys(<<>>) = {} /\ \A X : \A a : Weight(<<>>, X, a) = 0
  BY NoRows
<1>2. DOMAIN <<>> = {}
  OBVIOUS
<1>3. Keys(<<>>) = Keys(G)
  BY <1>1, <1>2 DEF Holds
<1>4. \A X : \A a \in 1..Len(q.Sum) : Weight(<<>>, X, a) + Weight(<<>>, X, a) = Weight(G, X, a)
  BY DEF Holds
<1>5. \A X : \A a \in 1..Len(q.Sum) : Weight(<<>>, X, a) = Weight(G, X, a)
  BY <1>1, <1>4
<1> QED BY <1>3, <1>5 DEF Alike

LEMMA PulledStore ==
  ASSUME NEW q \in Query, NEW st, st.DpResponses = <<>>, st.DpResponsesAggr = <<>>
  PROVE  Holds(st, <<>>, q)
<1>1. Keys(<<>>) = {} /\ \A X : \A a : Weight(<<>>, X, a) = 0
  BY NoRows
<1>2. DOMAIN <<>> = {}
  OBVIOUS
<1>3. \A X : \A a \in 1..Len(q.Sum) : Weight(<<>>, X, a) + Weight(<<>>, X, a) = Weight(<<>>, X, a)
  BY <1>1
<1> QED BY <1>1, <1>2, <1>3 DEF Holds

(* The map of a server depends on the responses alone.                     *)
LEMMA TaggedMap ==
  ASSUME NEW q \in Query, PredicateFits(q), NEW F \in Seq(Row(q)), NEW G, Rows(G, q), Alike(F, G, q)
  PROVE  LocMap(G, q) = IF F = <<>> THEN <<>>
                        ELSE PushDeterministicFilteredResponses(<<>>, TaggedAndFiltered(q, F))
<1>1. Rows(F, q)
  BY RowsOfSeq
<1>2. LocMap(F, q) = LocMap(G, q)
  BY <1>1, LocMapAlike
<1>3. CASE F = <<>>
  <2>1. Chosen(F, q) = {}
    BY <1>3 DEF Chosen
  <2>2. LocMap(F, q) = <<>>
    BY <2>1, SumOverNone DEF LocMap
  <2> QED BY <1>2, <1>3, <2>2
<1>4. CASE F # <<>>
  <2> DEFINE f == TaggedAndFiltered(q, F)
  <2>1. f = TaggedAndFiltered(q, F)
    OBVIOUS
  <2> HIDE DEF f
  <2>2. PICK h : IsFiltered(f, F, q, h)
    BY <1>4, <2>1, TaggedIsFiltered
  <2>3. PushDeterministicFilteredResponses(<<>>, f) = LocMap(F, q)
    BY <1>1, <2>2, PushedMap
  <2> QED BY <1>2, <1>4, <2>1, <2>3
<1> QED BY <1>3, <1>4

-----------------------------------------------------------------------------
(* The rows of all servers, and the map of the sums over all that match.   *)
Index(F) == UNION {{s} \X DOMAIN F[s] : s \in Server}
AllRows(F) == [x \in Index(F) |-> F[x[1]][x[2]]]
AllTags(F) == [x \in Index(F) |-> TagVec(F[x[1]][x[2]].GroupByEnc)]
Hits(F, q) == [s \in Server |-> {s} \X Chosen(F[s], q)]
Found(F, q) == UNION {Hits(F, q)[s] : s \in Server}
Wanted(F, q) == SumOver(AllTags(F), AllRows(F), Found(F, q), Len(q.Sum))

AllRowsOK(F, q) == \A s \in Server : Rows(F[s], q)

LEMMA AllRecs ==
  ASSUME NEW q \in Query, NEW F, AllRowsOK(F, q)
  PROVE  /\ Recs(AllTags(F), AllRows(F), Len(q.Sum)) /\ DOMAIN AllTags(F) = Index(F)
         /\ \A s \in Server : Hits(F, q)[s] \in SUBSET Index(F)
         /\ Found(F, q) \in SUBSET Index(F) /\ IsFiniteSet(Found(F, q))
<1>1. DOMAIN AllTags(F) = Index(F) /\ DOMAIN AllRows(F) = Index(F)
  BY DEF AllTags, AllRows
<1>2. IsFiniteSet(Index(F))
  <2> DEFINE f == [s \in Server |-> {s} \X DOMAIN F[s]]
             S == {f[s] : s \in Server}
  <2>1. IsFiniteSet(S)
    <3> HIDE DEF f
    <3> QED BY ServerAssumption, ImageFinite
  <2>2. \A s \in Server : IsFiniteSet(f[s])
    <3> SUFFICES ASSUME NEW s \in Server PROVE IsFiniteSet({s} \X DOMAIN F[s])
      OBVIOUS
    <3>1. IsFiniteSet({s}) /\ IsFiniteSet(DOMAIN F[s])
      BY FS_Singleton DEF AllRowsOK, Rows
    <3> QED BY <3>1, FS_Product
  <2>3. \A D \in S : IsFiniteSet(D)
    BY <2>2
  <2>4. Index(F) = UNION S
    BY DEF Index
  <2> HIDE DEF S
  <2> QED BY <2>1, <2>3, <2>4, FS_UNION
<1>3. \A x \in Index(F) : AllRows(F)[x].AggregatingAttributes \in Vec(Len(q.Sum))
  <2> SUFFICES ASSUME NEW x \in Index(F) PROVE AllRows(F)[x].AggregatingAttributes \in Vec(Len(q.Sum))
    OBVIOUS
  <2>1. x[1] \in Server /\ x[2] \in DOMAIN F[x[1]]
    BY DEF Index
  <2>2. F[x[1]][x[2]] \in Row(q)
    BY <2>1 DEF AllRowsOK, Rows
  <2> QED BY <2>2, RowParts DEF AllRows
<1>4. \A s \in Server : Hits(F, q)[s] \in SUBSET Index(F)
  BY DEF Hits, Index, Chosen
<1>5. Found(F, q) \in SUBSET Index(F)
  BY <1>4 DEF Found
<1> QED BY <1>1, <1>2, <1>3, <1>4, <1>5, FS_Subset DEF Recs

(* The maps of the servers are added to that one.                          *)
LEMMA AllAggregated ==
  ASSUME NEW q \in Query, NEW F, AllRowsOK(F, q),
         NEW maps, DOMAIN maps = Server, \A s \in Server : maps[s] = LocMap(F[s], q)
  PROVE  PushCothorityAggregatedFilteredResponses(<<>>, Aggregated(maps)) = Wanted(F, q)
<1> DEFINE n == Len(q.Sum)
           K == AllTags(F)
           R == AllRows(F)
           P == Hits(F, q)
           Z == Found(F, q)
<1>1. /\ Recs(K, R, n) /\ DOMAIN K = Index(F) /\ n \in Nat
      /\ \A s \in Server : P[s] \in SUBSET Index(F)
      /\ Z \in SUBSET Index(F)
  <2>1. n \in Nat
    BY DEF Query
  <2> QED BY <2>1, AllRecs
<1>2. ASSUME NEW s \in Server PROVE maps[s] = SumOver(K, R, P[s], n)
  <2> DEFINE G == F[s]
             X == Chosen(G, q)
             h == [k \in X |-> <<s, k>>]
             W == P[s]
  <2>1. Recs(Tags(G), G, n) /\ X \in SUBSET DOMAIN Tags(G)
    BY RowRecs DEF AllRowsOK
  <2>2. W = {s} \X X
    BY DEF Hits
  <2>3. h \in [X -> W] /\ \A i, j \in X : h[i] = h[j] => i = j
    BY <2>2
  <2>4. \A z \in W : \E i \in X : h[i] = z
    <3> SUFFICES ASSUME NEW z \in W PROVE \E i \in X : h[i] = z
      OBVIOUS
    <3>1. z[2] \in X /\ h[z[2]] = z
      BY <2>2
    <3> QED BY <3>1
  <2>5. \A i \in X : Tags(G)[i] = K[h[i]] /\ G[i].AggregatingAttributes = R[h[i]].AggregatingAttributes
    <3> SUFFICES ASSUME NEW i \in X
                 PROVE  Tags(G)[i] = K[h[i]] /\ G[i].AggregatingAttributes = R[h[i]].AggregatingAttributes
      OBVIOUS
    <3>1. h[i] = <<s, i>> /\ i \in DOMAIN G
      BY DEF Chosen
    <3>2. <<s, i>> \in Index(F)
      BY <3>1 DEF Index
    <3>3. K[<<s, i>>] = TagVec(G[i].GroupByEnc) /\ R[<<s, i>>] = G[i]
      BY <3>2 DEF AllTags, AllRows
    <3> QED BY <3>1, <3>3 DEF Tags
  <2>6. maps[s] = SumOver(Tags(G), G, X, n)
    BY DEF LocMap
  <2>7. W \in SUBSET DOMAIN K
    BY <1>1
  <2> HIDE DEF G, X, h, W, K, R, n, P
  <2>8. SumOver(Tags(G), G, X, n) = SumOver(K, R, W, n)
    BY <1>1, <2>1, <2>3, <2>4, <2>5, <2>7, SumOverMoved
  <2> QED BY <2>6, <2>8 DEF W
<1>3. \A s, t \in Server : s # t => P[s] \cap P[t] = {}
  BY DEF Hits
<1>4. Z = UNION {P[s] : s \in DOMAIN maps}
  BY DEF Found
<1>5. \A s \in DOMAIN maps : P[s] \in SUBSET DOMAIN K /\ maps[s] = SumOver(K, R, P[s], n)
  BY <1>1, <1>2
<1>6. IsFiniteSet(DOMAIN maps) /\ \A s, t \in DOMAIN maps : s # t => P[s] \cap P[t] = {}
  BY <1>3, ServerAssumption
<1> HIDE DEF K, R, P, Z, n
<1>7. Aggregated(maps) = SumOver(K, R, UNION {P[s] : s \in DOMAIN maps}, n)
  BY <1>1, <1>5, <1>6, AggregatedIs
<1>8. Aggregated(maps) = SumOver(K, R, Z, n)
  BY <1>4, <1>7
<1>9. PushCothorityAggregatedFilteredResponses(SumOver(K, R, {}, n), SumOver(K, R, Z, n))
        = SumOver(K, R, {} \cup Z, n)
  <2>1. {} \in SUBSET DOMAIN K /\ Z \in SUBSET DOMAIN K /\ {} \cap Z = {}
    BY <1>1
  <2> QED BY <1>1, <2>1, MergeIs
<1>10. SumOver(K, R, {}, n) = <<>> /\ {} \cup Z = Z
  BY SumOverNone
<1> QED BY <1>8, <1>9, <1>10 DEF Wanted, K, R, Z, n

-----------------------------------------------------------------------------
(* Key switching: the vector is cut into the responses it was made of.     *)
IsAnswer(d, M) == \E order \in Orders(DOMAIN M) : d = [i \in DOMAIN order |-> M[order[i]]]

LEMMA SwitchedInPlace ==
  ASSUME NEW k \in Nat, NEW c, c = [i \in 1..k |-> c[i]],
         \A i \in 1..k : /\ c[i] = [GroupByEnc |-> c[i].GroupByEnc,
                                    AggregatingAttributes |-> c[i].AggregatingAttributes]
                         /\ c[i].GroupByEnc \in Seq(Int) /\ c[i].AggregatingAttributes \in Seq(Int)
  PROVE  CipherVectorToFilteredResponse(FilteredResponseToCipherVector(c), FilteredLengths(c)) = c
<1> DEFINE w == [i \in 1..k |-> c[i].GroupByEnc]
           g == [i \in 1..k |-> c[i].AggregatingAttributes]
           m == [i \in 1..k |-> w[i] \o g[i]]
           ls == [i \in 1..k |-> Len(w[i]) + Len(g[i])]
           lengths == FilteredLengths(c)
           cv == FilteredResponseToCipherVector(c)
           back == CipherVectorToFilteredResponse(cv, lengths)
<1>1. \A i \in 1..k : /\ w[i] \in Seq(Int) /\ g[i] \in Seq(Int)
                      /\ w[i] = c[i].GroupByEnc /\ g[i] = c[i].AggregatingAttributes
                      /\ c[i] = [GroupByEnc |-> w[i], AggregatingAttributes |-> g[i]]
  OBVIOUS
<1>2. DOMAIN c = 1..k
  OBVIOUS
<1>3. lengths = [i \in 1..k |-> <<Len(w[i]), Len(g[i])>>] /\ DOMAIN lengths = 1..k
  BY <1>2 DEF FilteredLengths
<1>4. WholeLengths(lengths) = ls
  <2>1. \A i \in 1..k : lengths[i][1] = Len(w[i]) /\ lengths[i][2] = Len(g[i])
    BY <1>3
  <2> HIDE DEF lengths, w, g
  <2> QED BY <1>3, <2>1 DEF WholeLengths
<1>5. Pairs(m, ls, w, g, k)
  BY DEF Pairs
<1>6. cv = FlattenSeq(m)
  BY <1>2 DEF FilteredResponseToCipherVector
<1> HIDE DEF w, g, m, ls, cv
<1>7. ASSUME NEW i \in 1..k PROVE back[i] = c[i]
  <2> DEFINE b == Before(ls, i)
             lw == Len(w[i])
             lg == Len(g[i])
             d == b + lw
  <2>1. /\ cv \in Seq(Int) /\ Piece(cv, b, w[i]) /\ Piece(cv, d, g[i])
        /\ w[i] \in Seq(Int) /\ g[i] \in Seq(Int)
    <3>1. k > 0
      OBVIOUS
    <3> QED BY <1>1, <1>5, <1>6, <3>1, PairsInPlace
  <2>2. b \in Nat /\ lw \in Nat /\ lg \in Nat
    BY <2>1, LenProperties DEF Piece
  <2> HIDE DEF b, d
  <2>3. SubSeq(cv, b + 1, b + lw) = w[i]
    BY <2>1, PieceCut
  <2>4. SubSeq(cv, d + 1, d + lg) = g[i]
    BY <2>1, PieceCut
  <2>5. lengths[i][1] = lw /\ lengths[i][2] = lg
    BY <1>3
  <2> HIDE DEF lw, lg
  <2>6. /\ (b + 1 + lw) - 1 = b + lw /\ b + 1 + lw = d + 1 /\ b + 1 + lw + lg - 1 = d + lg
    BY <2>2 DEF d
  <2> HIDE DEF lengths
  <2>7. back[i] = [GroupByEnc |-> SubSeq(cv, Before(WholeLengths(lengths), i) + 1,
                                         (Before(WholeLengths(lengths), i) + 1 + lengths[i][1]) - 1),
                   AggregatingAttributes |->
                     SubSeq(cv, Before(WholeLengths(lengths), i) + 1 + lengths[i][1],
                            Before(WholeLengths(lengths), i) + 1 + lengths[i][1] + lengths[i][2] - 1)]
    <3>1. i \in DOMAIN lengths
      BY <1>3
    <3> QED BY <3>1, Zenon DEF CipherVectorToFilteredResponse
  <2>8. Before(WholeLengths(lengths), i) = b
    BY <1>4 DEF b
  <2>9. back[i] = [GroupByEnc |-> w[i], AggregatingAttributes |-> g[i]]
    BY <2>3, <2>4, <2>5, <2>6, <2>7, <2>8
  <2> QED BY <1>1, <2>9
<1>8. back = [i \in 1..k |-> back[i]]
  <2> HIDE DEF lengths
  <2> QED BY <1>3 DEF CipherVectorToFilteredResponse
<1> HIDE DEF back
<1>9. back = [i \in 1..k |-> c[i]]
  BY <1>7, <1>8
<1>10. back = c
  BY <1>9
<1> QED BY <1>10 DEF back, cv, lengths

(* What the root switches is an answer that lists its map.                 *)
LEMMA SwitchedIsAnswer ==
  ASSUME NEW q \in Query, NEW F, AllRowsOK(F, q), NEW order \in Orders(DOMAIN Wanted(F, q)),
         NEW c, c = [i \in DOMAIN order |-> Wanted(F, q)[order[i]]]
  PROVE  IsAnswer(CipherVectorToFilteredResponse(FilteredResponseToCipherVector(c), FilteredLengths(c)),
                  Wanted(F, q))
<1> DEFINE M == Wanted(F, q)
           n == Len(q.Sum)
           K == AllTags(F)
           R == AllRows(F)
           Z == Found(F, q)
           k == Cardinality(DOMAIN M)
<1>1. /\ Recs(K, R, n) /\ DOMAIN K = Index(F) /\ Z \in SUBSET Index(F) /\ IsFiniteSet(Z)
      /\ n \in Nat
  <2>1. n \in Nat
    BY DEF Query
  <2> QED BY <2>1, AllRecs
<1>2. /\ DOMAIN M = {K[x] : x \in Z}
      /\ \A t \in DOMAIN M : M[t] = Entry(K, R, Z, t, n)
  BY DEF Wanted, SumOver
<1>3. IsFiniteSet(DOMAIN M)
  <2> HIDE DEF K, Z
  <2>1. IsFiniteSet({K[x] : x \in Z})
    BY <1>1, ImageFinite
  <2> QED BY <1>2, <2>1
<1>4. ASSUME NEW t \in DOMAIN M
      PROVE  /\ M[t] = [GroupByEnc |-> M[t].GroupByEnc, AggregatingAttributes |-> M[t].AggregatingAttributes]
             /\ M[t].GroupByEnc \in Seq(Int) /\ M[t].AggregatingAttributes \in Seq(Int)
  <2>1. M[t] = [GroupByEnc |-> Untag(t), AggregatingAttributes |-> [a \in 1..n |-> Total(Part(K, R, t, a), Z)]]
    BY <1>2 DEF Entry
  <2>2. PICK x \in Z : t = K[x]
    BY <1>2
  <2>3. Untag(t) \in Seq(Int)
    <3>1. x \in Index(F)
      BY <1>1, <2>2
    <3>2. x[1] \in Server /\ x[2] \in DOMAIN F[x[1]]
      BY <3>1 DEF Index
    <3>3. F[x[1]][x[2]] \in Row(q)
      BY <3>2 DEF AllRowsOK, Rows
    <3>4. F[x[1]][x[2]].GroupByEnc \in Seq(Int)
      BY <3>3, RowParts DEF Vec
    <3>5. t = TagVec(F[x[1]][x[2]].GroupByEnc)
      BY <2>2, <3>1 DEF AllTags
    <3> QED BY <3>4, <3>5, TagVecUntag
  <2>4. [a \in 1..n |-> Total(Part(K, R, t, a), Z)] \in Seq(Int)
    <3>1. \A a \in 1..n : Total(Part(K, R, t, a), Z) \in Int
      <4> HIDE DEF K, R, Z, n
      <4> QED BY <1>1, PartInts
    <3> HIDE DEF n
    <3> QED BY <1>1, <3>1
  <2> HIDE DEF M
  <2> QED BY <2>1, <2>3, <2>4
<1> HIDE DEF M
<1>5. /\ k \in Nat /\ DOMAIN order = 1..k /\ order \in [1..k -> DOMAIN M]
  BY <1>3, OrderOnto DEF M
<1> HIDE DEF k
<1>6. c = [i \in 1..k |-> M[order[i]]] /\ c = [i \in 1..k |-> c[i]]
  BY <1>5 DEF M
<1>7. \A i \in 1..k : /\ c[i] = [GroupByEnc |-> c[i].GroupByEnc,
                                 AggregatingAttributes |-> c[i].AggregatingAttributes]
                      /\ c[i].GroupByEnc \in Seq(Int) /\ c[i].AggregatingAttributes \in Seq(Int)
  <2> SUFFICES ASSUME NEW i \in 1..k
               PROVE  /\ c[i] = [GroupByEnc |-> c[i].GroupByEnc,
                                 AggregatingAttributes |-> c[i].AggregatingAttributes]
                      /\ c[i].GroupByEnc \in Seq(Int) /\ c[i].AggregatingAttributes \in Seq(Int)
    OBVIOUS
  <2>1. order[i] \in DOMAIN M /\ c[i] = M[order[i]]
    BY <1>5, <1>6
  <2> QED BY <1>4, <2>1
<1>8. CipherVectorToFilteredResponse(FilteredResponseToCipherVector(c), FilteredLengths(c)) = c
  BY <1>5, <1>6, <1>7, SwitchedInPlace
<1>9. IsAnswer(c, M)
  BY DEF IsAnswer, M
<1> QED BY <1>8, <1>9 DEF M

-----------------------------------------------------------------------------
(* The answer and what the querier asked for.                              *)
(* The row of a response holds what the reference reads in the response.   *)
ReadAs(r, cr, q) ==
  /\ r.GroupByEnc = [i \in DOMAIN q.GroupBy |-> Value(cr.GroupByClear, cr.GroupByEnc, q.GroupBy[i])]
  /\ r.WhereEnc = [i \in DOMAIN q.Where |-> Value(cr.WhereClear, cr.WhereEnc, q.Where[i].Name)]
  /\ r.AggregatingAttributes
       = [i \in DOMAIN q.Sum |->
            Value(cr.AggregatingAttributesClear, cr.AggregatingAttributesEnc, q.Sum[i])]

LEMMA RowValues ==
  ASSUME NEW cr, NEW q \in Query
  PROVE  ReadAs(NewResponse(cr, q), cr, q)
<1> DEFINE r == NewResponse(cr, q)
           N == WhereNames(q)
<1>1. r.GroupByEnc = [i \in DOMAIN q.GroupBy |-> Value(cr.GroupByClear, cr.GroupByEnc, q.GroupBy[i])]
  <2>1. r.GroupByEnc = proccessParameters(q.GroupBy, cr.GroupByClear, cr.GroupByEnc, NoEnc(cr))
    BY DEF NewResponse
  <2>2. NoEnc(cr) => DOMAIN cr.GroupByEnc = {}
    BY DEF NoEnc
  <2> HIDE DEF r
  <2> QED BY <2>1, <2>2 DEF proccessParameters, Value
<1>2. r.WhereEnc = [i \in DOMAIN q.Where |-> Value(cr.WhereClear, cr.WhereEnc, q.Where[i].Name)]
  <2>1. r.WhereEnc = proccessParameters(N, cr.WhereClear, cr.WhereEnc, NoEnc(cr))
    BY DEF NewResponse
  <2>2. NoEnc(cr) => DOMAIN cr.WhereEnc = {}
    BY DEF NoEnc
  <2>3. DOMAIN N = DOMAIN q.Where /\ \A i \in DOMAIN q.Where : N[i] = q.Where[i].Name
    BY DEF WhereNames
  <2> HIDE DEF r, N
  <2>4. r.WhereEnc = [i \in DOMAIN N |-> Value(cr.WhereClear, cr.WhereEnc, N[i])]
    BY <2>1, <2>2 DEF proccessParameters, Value
  <2> QED BY <2>3, <2>4
<1>3. r.AggregatingAttributes
        = [i \in DOMAIN q.Sum |->
             Value(cr.AggregatingAttributesClear, cr.AggregatingAttributesEnc, q.Sum[i])]
  <2>1. r.AggregatingAttributes
          = proccessParameters(q.Sum, cr.AggregatingAttributesClear, cr.AggregatingAttributesEnc, FALSE)
    BY DEF NewResponse
  <2> HIDE DEF r
  <2> QED BY <2>1 DEF proccessParameters, Value
<1> QED BY <1>1, <1>2, <1>3 DEF ReadAs

(* A response matches when its row fits.                                   *)
LEMMA MatchesFits ==
  ASSUME query \in Query, PredicateFits(query), NEW cr
  PROVE  Matches(cr) <=> Fits(query, NewResponse(cr, query).WhereEnc)
<1> DEFINE q == query
           n == Len(q.Where)
           w == NewResponse(cr, q).WhereEnc
           val(j) == Value(cr.WhereClear, cr.WhereEnc, q.Where[j].Name)
           v(i) == IF i % 2 = 0 THEN q.Where[(i \div 2) + 1].Value ELSE val((i \div 2) + 1)
<1>1. n \in Nat /\ DOMAIN q.Where = 1..n /\ (n = 0 <=> q.Where = <<>>)
  <2>1. q.Where \in Seq([Name : Attribute, Value : Int])
    BY DEF Query
  <2> QED BY <2>1, LenProperties, EmptySeq
<1>2. \A j \in 1..n : w[j] = val(j)
  <2>1. w = [i \in DOMAIN q.Where |-> Value(cr.WhereClear, cr.WhereEnc, q.Where[i].Name)]
    BY RowValues DEF ReadAs
  <2> HIDE DEF w, n
  <2> QED BY <1>1, <2>1
<1>3. ASSUME NEW i \in 0..(2 * n - 1) PROVE v(i) = Compared(q, w, i)
  <2> DEFINE j == (i \div 2) + 1
  <2>1. j \in 1..n
    BY <1>1
  <2> HIDE DEF j, w
  <2>2. w[j] = val(j)
    BY <1>2, <2>1
  <2>3. v(i) = IF i % 2 = 0 THEN q.Where[j].Value ELSE val(j)
    BY DEF j
  <2>4. Compared(q, w, i) = IF i % 2 = 0 THEN q.Where[j].Value ELSE w[j]
    BY DEF j, Compared
  <2> HIDE DEF v, val
  <2> QED BY <2>2, <2>3, <2>4
<1>4. \A conj \in q.Predicate : \A eq \in conj : eq[1] \in 0..(2 * n - 1) /\ eq[2] \in 0..(2 * n - 1)
  BY DEF PredicateFits
<1>5. Matches(cr) <=> \/ q.Predicate = {} \/ q.Where = <<>>
                      \/ \E conj \in q.Predicate : \A eq \in conj : v(eq[1]) = v(eq[2])
  BY Zenon DEF Matches
<1> HIDE DEF v, w, n
<1>6. \A conj \in q.Predicate : \A eq \in conj :
        v(eq[1]) = v(eq[2]) <=> Compared(q, w, eq[1]) = Compared(q, w, eq[2])
  BY <1>3, <1>4
<1>7. (\E conj \in q.Predicate : \A eq \in conj : v(eq[1]) = v(eq[2]))
        <=> (\E conj \in q.Predicate : \A eq \in conj : Compared(q, w, eq[1]) = Compared(q, w, eq[2]))
  BY <1>6
<1>8. Fits(q, w) <=> \/ q.Predicate = {} \/ n = 0
                     \/ \E conj \in q.Predicate : \A eq \in conj : Compared(q, w, eq[1]) = Compared(q, w, eq[2])
  BY DEF Fits, n
<1> QED BY <1>1, <1>5, <1>7, <1>8 DEF w

(* The sum that the reference takes over responses.                        *)
LEMMA SumOfTotal ==
  ASSUME NEW S, IsFiniteSet(S), NEW i, NEW v, Ints(v, S),
         \A x \in S : v[x] = SumOf(answered[x[1]][x[2]], i)
  PROVE  MapThenSumSet(LAMBDA x : SumOf(answered[x[1]][x[2]], i), S) = Total(v, S)
<1> DEFINE First(X) == CHOOSE x \in X : TRUE
           e(x) == SumOf(answered[x[1]][x[2]], i)
           Loop(g) == g = [X \in SUBSET S |-> IF X = {} THEN 0 ELSE e(First(X)) + g[X \ {First(X)}]]
           f == [X \in SUBSET S |-> Total(v, X)]
<1>1. MapThenSumSet(LAMBDA x : SumOf(answered[x[1]][x[2]], i), S) = (CHOOSE g : Loop(g))[S]
  BY DEF MapThenSumSet, MapThenFoldSet
<1>2. \A X \in SUBSET S : X # {} => First(X) \in X /\ X \ {First(X)} \in SUBSET S
  OBVIOUS
<1>3. \A x \in S : v[x] = e(x)
  OBVIOUS
<1> HIDE DEF First, e
<1>4. ASSUME NEW X \in SUBSET S, NEW x \in X
      PROVE  Total(v, X) = e(x) + Total(v, X \ {x})
  <2> DEFINE Y == X \ {x}
  <2>1. IsFiniteSet(Y) /\ x \notin Y /\ Y \cup {x} = X
    BY FS_Subset
  <2>2. Ints(v, Y \cup {x}) /\ Ints(v, Y)
    BY DEF Ints
  <2> HIDE DEF Y
  <2>3. Total(v, Y \cup {x}) = Total(v, Y) + v[x]
    BY <2>1, <2>2, TotalAdd
  <2>4. v[x] = e(x) /\ v[x] \in Int
    BY <1>3 DEF Ints
  <2>5. Total(v, Y) \in Int
    BY <2>1, <2>2, TotalType
  <2>6. Total(v, X) = e(x) + Total(v, Y)
    <3> DEFINE a == Total(v, Y)
               b == v[x]
    <3>1. a \in Int /\ b \in Int /\ e(x) = b /\ Total(v, X) = a + b
      BY <2>1, <2>3, <2>4, <2>5
    <3> HIDE DEF a, b
    <3>2. a + b = b + a
      BY <3>1
    <3>3. Total(v, X) = e(x) + a
      BY <3>1, <3>2
    <3> QED BY <3>3 DEF a
  <2> QED BY <2>6 DEF Y
<1>5. Loop(f)
  <2>1. ASSUME NEW X \in SUBSET S
        PROVE  f[X] = IF X = {} THEN 0 ELSE e(First(X)) + f[X \ {First(X)}]
    <3>1. CASE X = {}
      BY <3>1, TotalNone
    <3>2. CASE X # {}
      <4> DEFINE k == First(X)
      <4>1. k \in X /\ X \ {k} \in SUBSET S
        BY <1>2, <3>2
      <4> HIDE DEF k
      <4>2. f[X] = e(k) + f[X \ {k}]
        BY <1>4, <4>1
      <4> QED BY <3>2, <4>2 DEF k
    <3> QED BY <3>1, <3>2
  <2> QED BY <2>1
<1>6. ASSUME NEW g, Loop(g) PROVE g[S] = f[S]
  <2> DEFINE T == {X \in SUBSET S : g[X] = f[X]}
  <2>1. {} \in T
    BY <1>5, <1>6
  <2>2. ASSUME NEW X \in SUBSET S, X # {} PROVE \E k \in X : X \ {k} \in T => X \in T
    <3>1. First(X) \in X /\ X \ {First(X)} \in SUBSET S
      BY <1>2, <2>2
    <3>2. /\ g[X] = e(First(X)) + g[X \ {First(X)}]
          /\ f[X] = e(First(X)) + f[X \ {First(X)}]
      <4> HIDE DEF f
      <4> QED BY <1>5, <1>6, <2>2
    <3> QED BY <3>1, <3>2
  <2> HIDE DEF T
  <2>3. \A X \in SUBSET S : X \in T
    BY <2>1, <2>2, RemovalInduct
  <2> QED BY <2>3 DEF T
<1>7. f[S] = Total(v, S)
  OBVIOUS
<1> HIDE DEF Loop, f
<1>8. (CHOOSE g : Loop(g))[S] = f[S]
  BY <1>5, <1>6
<1> QED BY <1>1, <1>7, <1>8

-----------------------------------------------------------------------------
AllOf(rss, q) == [s \in Server |-> RowsOf(rss[s], q)]

(* What the reference says of a group.                                     *)
RefSum(S, i) == MapThenSumSet(LAMBDA x : SumOf(answered[x[1]][x[2]], i), S)
Members(S, g) == {x \in S : GroupOf(answered[x[1]][x[2]]) = g}
RefGroup(S, g) ==
  [GroupByEnc |-> g, AggregatingAttributes |-> [i \in DOMAIN query.Sum |-> RefSum(Members(S, g), i)]]

LEMMA ReferenceIs ==
  GroupBySum = LET S == UNION {Matching(s) : s \in Server}
               IN  {RefGroup(S, g) : g \in {GroupOf(answered[x[1]][x[2]]) : x \in S}}
BY Zenon DEF GroupBySum, RefGroup, RefSum, Members

(* The rows are the responses as the reference reads them.                 *)
LEMMA RowsAsRead ==
  ASSUME in \in Inputs, answered \in [Server -> Seq(Sent(in))], NEW F, F = AllOf(answered, query)
  PROVE  /\ query \in Query /\ AllRowsOK(F, query)
         /\ Found(F, query) = UNION {Matching(s) : s \in Server}
         /\ \A x \in Index(F) :
              /\ AllTags(F)[x] = TagVec(GroupOf(answered[x[1]][x[2]]))
              /\ GroupOf(answered[x[1]][x[2]]) \in Seq(Int)
              /\ \A i \in 1..Len(query.Sum) :
                   /\ AllRows(F)[x].AggregatingAttributes[i] = SumOf(answered[x[1]][x[2]], i)
                   /\ SumOf(answered[x[1]][x[2]], i) \in Int
<1> DEFINE q == query
<1>1. q \in Query /\ PredicateFits(q) /\ q = in.query
  BY InputsAssumption DEF query
<1>2. ASSUME NEW s \in Server
      PROVE  /\ F[s] = RowsOf(answered[s], q) /\ Rows(F[s], q) /\ DOMAIN F[s] = DOMAIN answered[s]
             /\ \A k \in DOMAIN F[s] : F[s][k] = NewResponse(answered[s][k], q) /\ F[s][k] \in Row(q)
  <2>1. F[s] = RowsOf(answered[s], q) /\ answered[s] \in Seq(Sent(in))
    BY DEF AllOf
  <2>2. /\ Rows(RowsOf(answered[s], q), q) /\ DOMAIN RowsOf(answered[s], q) = DOMAIN answered[s]
        /\ \A k \in DOMAIN answered[s] : RowsOf(answered[s], q)[k] = NewResponse(answered[s][k], q)
    BY <1>1, <2>1, RowsOfSent
  <2> QED BY <2>1, <2>2 DEF Rows
<1>3. AllRowsOK(F, q)
  BY <1>2 DEF AllRowsOK
<1>4. ASSUME NEW s \in Server
      PROVE  Hits(F, q)[s] = Matching(s)
  <2>1. \A k \in DOMAIN F[s] : Matches(answered[s][k]) <=> Fits(q, F[s][k].WhereEnc)
    BY <1>1, <1>2, MatchesFits
  <2>2. Chosen(F[s], q) = {k \in DOMAIN answered[s] : Matches(answered[s][k])}
    BY <1>2, <2>1 DEF Chosen
  <2>3. Hits(F, q)[s] = {s} \X {k \in DOMAIN answered[s] : Matches(answered[s][k])}
    BY <2>2 DEF Hits
  <2> DEFINE X == {k \in DOMAIN answered[s] : Matches(answered[s][k])}
  <2>4. Matching(s) = {<<s, k>> : k \in X}
    BY DEF Matching
  <2> HIDE DEF X
  <2>5. {s} \X X = {<<s, k>> : k \in X}
    OBVIOUS
  <2> QED BY <2>3, <2>4, <2>5 DEF X
<1>5. Found(F, q) = UNION {Matching(s) : s \in Server}
  BY <1>4 DEF Found
<1>6. ASSUME NEW x \in Index(F)
      PROVE  /\ AllTags(F)[x] = TagVec(GroupOf(answered[x[1]][x[2]]))
             /\ GroupOf(answered[x[1]][x[2]]) \in Seq(Int)
             /\ \A i \in 1..Len(q.Sum) :
                  /\ AllRows(F)[x].AggregatingAttributes[i] = SumOf(answered[x[1]][x[2]], i)
                  /\ SumOf(answered[x[1]][x[2]], i) \in Int
  <2> DEFINE cr == answered[x[1]][x[2]]
             r == F[x[1]][x[2]]
  <2>1. x[1] \in Server /\ x[2] \in DOMAIN F[x[1]]
    BY DEF Index
  <2>2. r = NewResponse(cr, q) /\ r \in Row(q)
    BY <1>2, <2>1
  <2>3. AllTags(F)[x] = TagVec(r.GroupByEnc) /\ AllRows(F)[x] = r
    BY DEF AllTags, AllRows
  <2> HIDE DEF cr, r
  <2>4. r.GroupByEnc \in Seq(Int) /\ \A i \in 1..Len(q.Sum) : r.AggregatingAttributes[i] \in Int
    BY <1>1, <2>2, RowParts DEF Vec
  <2>5. /\ r.GroupByEnc = [i \in DOMAIN q.GroupBy |-> Value(cr.GroupByClear, cr.GroupByEnc, q.GroupBy[i])]
        /\ r.AggregatingAttributes
             = [i \in DOMAIN q.Sum |->
                  Value(cr.AggregatingAttributesClear, cr.AggregatingAttributesEnc, q.Sum[i])]
    <3>1. ReadAs(r, cr, q)
      BY <1>1, <2>2, RowValues
    <3> QED BY <3>1 DEF ReadAs
  <2>6. r.GroupByEnc = GroupOf(cr)
    BY <2>5 DEF GroupOf
  <2>7. DOMAIN q.Sum = 1..Len(q.Sum)
    BY <1>1, LenProperties DEF Query
  <2>8. \A i \in 1..Len(q.Sum) : r.AggregatingAttributes[i] = SumOf(cr, i)
    BY <2>5, <2>7 DEF SumOf
  <2> QED BY <2>3, <2>4, <2>6, <2>8 DEF cr
<1> QED BY <1>1, <1>3, <1>5, <1>6

(* Each entry of the map is what the reference says of that group.         *)
LEMMA EntriesAreGroups ==
  ASSUME in \in Inputs, answered \in [Server -> Seq(Sent(in))], NEW F, F = AllOf(answered, query),
         NEW g \in Seq(Int)
  PROVE  Entry(AllTags(F), AllRows(F), Found(F, query), TagVec(g), Len(query.Sum))
           = RefGroup(Found(F, query), g)
<1> DEFINE n == Len(query.Sum)
           K == AllTags(F)
           R == AllRows(F)
           Z == Found(F, query)
           t == TagVec(g)
           S == Members(Z, g)
           G(x) == GroupOf(answered[x[1]][x[2]])
<1>1. /\ Recs(K, R, n) /\ DOMAIN K = Index(F) /\ Z \in SUBSET Index(F) /\ IsFiniteSet(Z)
      /\ n \in Nat /\ DOMAIN query.Sum = 1..n
  <2>1. query \in Query /\ AllRowsOK(F, query)
    BY RowsAsRead
  <2>2. n \in Nat /\ DOMAIN query.Sum = 1..n
    BY <2>1, LenProperties DEF Query
  <2> QED BY <2>1, <2>2, AllRecs
<1>2. \A x \in Z : K[x] = TagVec(G(x)) /\ G(x) \in Seq(Int)
  BY <1>1, RowsAsRead
<1>3. S = {x \in Z : G(x) = g}
  BY DEF Members
<1>4. \A x \in Z : K[x] = t <=> x \in S
  <2> SUFFICES ASSUME NEW x \in Z PROVE K[x] = t <=> x \in S
    OBVIOUS
  <2>1. Untag(TagVec(G(x))) = G(x) /\ Untag(TagVec(g)) = g
    BY <1>2, TagVecUntag
  <2> HIDE DEF S, G, K, Z
  <2> QED BY <1>2, <1>3, <2>1
<1>5. S \in SUBSET Z /\ IsFiniteSet(S)
  BY <1>1, <1>3, FS_Subset
<1>6. ASSUME NEW i \in 1..n PROVE Total(Part(K, R, t, i), Z) = RefSum(S, i)
  <2> DEFINE v == [x \in Z |-> SumOf(answered[x[1]][x[2]], i)]
             u == Part(K, R, t, i)
  <2>1. \A x \in Z : /\ R[x].AggregatingAttributes[i] = SumOf(answered[x[1]][x[2]], i)
                     /\ SumOf(answered[x[1]][x[2]], i) \in Int
    BY <1>1, RowsAsRead
  <2>2. \A x \in Z : u[x] = IF x \in S THEN v[x] ELSE 0
    BY <1>1, <1>4, <2>1 DEF Part
  <2>3. \A x \in S : v[x] = SumOf(answered[x[1]][x[2]], i)
    BY <1>5
  <2>4. Ints(v, S)
    BY <1>5, <2>1 DEF Ints
  <2> HIDE DEF u, v, S, Z
  <2>5. RefSum(S, i) = Total(v, S)
    BY <1>5, <2>3, <2>4, SumOfTotal DEF RefSum
  <2>6. Ints(u, S)
    BY <1>5, <2>2, <2>4 DEF Ints
  <2>7. Total(u, Z) = Total(u, S)
    <3>1. \A x \in Z \ S : u[x] = 0
      BY <2>2
    <3> QED BY <1>1, <1>5, <2>6, <3>1, TotalRestrict
  <2>8. Total(u, S) = Total(v, S)
    <3>1. \A x \in S : u[x] = v[x]
      BY <1>5, <2>2
    <3> QED BY <1>5, <2>4, <3>1, TotalSame
  <2> QED BY <2>5, <2>7, <2>8 DEF u
<1>7. Untag(t) = g
  BY TagVecUntag
<1> HIDE DEF K, R, Z, t, S, n
<1>8. Entry(K, R, Z, t, n) = [GroupByEnc |-> g, AggregatingAttributes |-> [i \in 1..n |-> RefSum(S, i)]]
  BY <1>6, <1>7 DEF Entry
<1>9. RefGroup(Z, g) = [GroupByEnc |-> g, AggregatingAttributes |-> [i \in 1..n |-> RefSum(S, i)]]
  BY <1>1 DEF RefGroup, S
<1> QED BY <1>8, <1>9 DEF K, R, Z, t, n

LEMMA AnswerIsReference ==
  ASSUME in \in Inputs, answered \in [Server -> Seq(Sent(in))],
         NEW d, IsAnswer(d, Wanted(AllOf(answered, query), query))
  PROVE  Range(d) = GroupBySum /\ Len(d) = Cardinality(GroupBySum)
<1> DEFINE F == AllOf(answered, query)
           M == Wanted(F, query)
           K == AllTags(F)
           Z == Found(F, query)
           G(x) == GroupOf(answered[x[1]][x[2]])
           D == DOMAIN M
           k == Cardinality(D)
<1>0. F = AllOf(answered, query)
  OBVIOUS
<1> HIDE DEF F
<1>1. /\ query \in Query /\ AllRowsOK(F, query) /\ Z = UNION {Matching(s) : s \in Server}
      /\ \A x \in Index(F) : K[x] = TagVec(G(x)) /\ G(x) \in Seq(Int)
  BY <1>0, RowsAsRead
<1>2. Z \in SUBSET Index(F) /\ IsFiniteSet(Z)
  BY <1>1, AllRecs
<1>3. \A x \in Z : K[x] = TagVec(G(x)) /\ G(x) \in Seq(Int)
  BY <1>1, <1>2
<1>4. D = {K[x] : x \in Z}
  BY DEF Wanted, SumOver
<1>5. \A x \in Z : M[K[x]] = RefGroup(Z, G(x))
  <2> SUFFICES ASSUME NEW x \in Z PROVE M[K[x]] = RefGroup(Z, G(x))
    OBVIOUS
  <2> DEFINE g == G(x)
  <2>1. M[K[x]] = Entry(K, AllRows(F), Z, K[x], Len(query.Sum))
    BY DEF Wanted, SumOver
  <2>2. g \in Seq(Int) /\ K[x] = TagVec(g)
    BY <1>3
  <2> HIDE DEF g
  <2>3. Entry(K, AllRows(F), Z, TagVec(g), Len(query.Sum)) = RefGroup(Z, g)
    BY <1>0, <2>2, EntriesAreGroups
  <2> HIDE DEF M, K, Z
  <2>4. M[K[x]] = RefGroup(Z, g)
    BY <2>1, <2>2, <2>3
  <2> QED BY <2>4 DEF g
<1>6. GroupBySum = {RefGroup(Z, g) : g \in {G(x) : x \in Z}}
  BY <1>1, ReferenceIs
<1> HIDE DEF M, K, Z, G
<1>7. GroupBySum = {M[t] : t \in D}
  <2> HIDE DEF D
  <2>1. GroupBySum = {RefGroup(Z, G(x)) : x \in Z}
    BY <1>6
  <2>2. {M[t] : t \in D} = {M[K[x]] : x \in Z}
    BY <1>4
  <2> QED BY <1>5, <2>1, <2>2
<1>8. IsFiniteSet(D)
  BY <1>2, <1>4, ImageFinite
<1>9. \A t, u \in D : M[t] = M[u] => t = u
  <2> SUFFICES ASSUME NEW x \in Z, NEW y \in Z, M[K[x]] = M[K[y]] PROVE K[x] = K[y]
    BY <1>4
  <2>1. RefGroup(Z, G(x)) = RefGroup(Z, G(y))
    BY <1>5
  <2>2. RefGroup(Z, G(x)).GroupByEnc = G(x) /\ RefGroup(Z, G(y)).GroupByEnc = G(y)
    BY DEF RefGroup
  <2>3. G(x) = G(y)
    BY <2>1, <2>2
  <2> QED BY <1>3, <2>3
<1>10. PICK order \in Orders(D) : d = [i \in DOMAIN order |-> M[order[i]]]
  BY DEF IsAnswer, M, F
<1> HIDE DEF D
<1>11. /\ k \in Nat /\ DOMAIN order = 1..k
       /\ \A i \in 1..k : order[i] \in D
       /\ \A i, j \in 1..k : order[i] = order[j] => i = j
       /\ \A z \in D : \E i \in 1..k : order[i] = z
  BY <1>8, OrderOnto
<1> HIDE DEF k
<1>12. d = [i \in 1..k |-> M[order[i]]]
  BY <1>10, <1>11
<1>13. Range(d) = GroupBySum
  <2>1. Range(d) = {M[order[i]] : i \in 1..k}
    BY <1>12 DEF Range
  <2>2. {M[order[i]] : i \in 1..k} = {M[t] : t \in D}
    BY <1>11
  <2> QED BY <1>7, <2>1, <2>2
<1>14. Len(d) = k
  BY <1>11, <1>12
<1>15. Cardinality(GroupBySum) = k
  <2>1. d \in [1..k -> GroupBySum]
    BY <1>7, <1>11, <1>12
  <2>2. \A i, j \in 1..k : d[i] = d[j] => i = j
    BY <1>9, <1>11, <1>12
  <2>3. \A z \in GroupBySum : \E i \in 1..k : d[i] = z
    BY <1>7, <1>11, <1>12
  <2>4. d \in Bijection(1..k, GroupBySum)
    BY <2>1, <2>2, <2>3 DEF Bijection, Injection, Surjection, IsInjective
  <2>5. ExistsBijection(1..k, GroupBySum)
    BY <2>4 DEF ExistsBijection
  <2> QED BY <1>11, <2>5, FS_CountingElements
<1> QED BY <1>13, <1>14, <1>15

-----------------------------------------------------------------------------
(* The invariant behind the answer: what a store holds amounts to the      *)
(* responses received, and what each phase leaves to those answered.       *)
Early == {"waiting", "shuffling", "tagging", "tagged"}

Target == Wanted(AllOf(answered, query), query)

StoredOK(s) ==
  /\ (in.queries # 1 \/ asked = 0 \/ pc[s] \in {"waiting", "shuffling"})
       => Holds(store[s], RowsOf(received[s], query), query)
  /\ in.queries # 1 => store[s].DpResponsesAggr = <<>>

ShuffledOK(s) ==
  IF pc[s] = "tagging" THEN Alike(store[s].ShuffledProcessResponses, RowsOf(answered[s], query), query)
  ELSE store[s].ShuffledProcessResponses = <<>>

TaggedOK(s) ==
  pc[s] = "tagged" => store[s].LocAggregatedProcessResponse = LocMap(RowsOf(answered[s], query), query)

GroupedOK(s) ==
  store[s].GroupedDeterministicFilteredResponses = IF pc[s] = "switching" THEN Target ELSE <<>>

DeliveredOK(s) == pc[s] = "answering" => IsAnswer(store[s].DeliverableResults, Target)

AnswerOK == (asked > 0 /\ \A s \in Server : pc[s] = "idle") => IsAnswer(answer, Target)

(* The servers are in the first phases all together, and one of them does  *)
(* the last ones alone.                                                    *)
Together ==
  /\ asked = 0 => \A s \in Server : pc[s] = "idle"
  /\ \/ \A s \in Server : pc[s] \in Early
     \/ \E r \in Server : /\ pc[r] \in {"idle", "switching", "answering"}
                          /\ \A s \in Server \ {r} : pc[s] = "idle"

AInv ==
  /\ PInv
  /\ asked \in Nat
  /\ received \in [Server -> Seq(Sent(in))] /\ answered \in [Server -> Seq(Sent(in))]
  /\ \A s \in Server :
       StoredOK(s) /\ ShuffledOK(s) /\ TaggedOK(s) /\ GroupedOK(s) /\ DeliveredOK(s)
  /\ AnswerOK /\ Together

LEMMA InitAInv == Init => AInv
<1> SUFFICES ASSUME Init PROVE AInv
  OBVIOUS
<1>1. PInv /\ in \in Inputs /\ query \in Query
  BY InitPInv, InputsAssumption DEF PInv, Inv, query
<1>2. \A s \in Server : /\ store[s] = NewStore /\ pc[s] = "idle"
                        /\ received[s] = <<>> /\ answered[s] = <<>>
  BY DEF Init
<1>3. asked = 0 /\ received \in [Server -> Seq(Sent(in))] /\ answered \in [Server -> Seq(Sent(in))]
  BY DEF Init
<1>4. RowsOf(<<>>, query) = <<>>
  BY DEF RowsOf
<1>5. /\ NewStore.DpResponses = <<>> /\ NewStore.DpResponsesAggr = <<>>
      /\ NewStore.ShuffledProcessResponses = <<>>
      /\ NewStore.GroupedDeterministicFilteredResponses = <<>>
  BY DEF NewStore
<1>6. Holds(NewStore, <<>>, query)
  <2> HIDE DEF NewStore
  <2> QED BY <1>1, <1>5, PulledStore
<1>7. ASSUME NEW s \in Server
      PROVE  StoredOK(s) /\ ShuffledOK(s) /\ TaggedOK(s) /\ GroupedOK(s) /\ DeliveredOK(s)
  BY <1>2, <1>4, <1>5, <1>6 DEF StoredOK, ShuffledOK, TaggedOK, GroupedOK, DeliveredOK
<1>8. AnswerOK /\ Together
  BY <1>2, <1>3, ServerAssumption DEF AnswerOK, Together
<1> QED BY <1>1, <1>3, <1>7, <1>8 DEF AInv

LEMMA EarlyTogether ==
  ASSUME Together, NEW s \in Server, pc[s] \in Early
  PROVE  (\A t \in Server : pc[t] \in Early) /\ asked # 0
BY DEF Together, Early

LEMMA LateAlone ==
  ASSUME Together, NEW s \in Server, pc[s] \in {"switching", "answering"}
  PROVE  (\A t \in Server \ {s} : pc[t] = "idle") /\ asked # 0
BY DEF Together, Early

LEMMA AInvFacts ==
  ASSUME AInv
  PROVE  /\ in \in Inputs /\ query = in.query /\ query \in Query /\ PredicateFits(query)
         /\ DOMAIN store = Server /\ pc \in [Server -> Phase]
         /\ \A s \in Server :
              /\ StoreOK(store[s], query) /\ DOMAIN store[s] = StoreField
              /\ received[s] \in Seq(Sent(in)) /\ answered[s] \in Seq(Sent(in))
              /\ RowsOf(received[s], query) \in Seq(Row(query)) /\ Rows(RowsOf(received[s], query), query)
              /\ RowsOf(answered[s], query) \in Seq(Row(query)) /\ Rows(RowsOf(answered[s], query), query)
<1>1. in \in Inputs /\ query = in.query /\ query \in Query /\ PredicateFits(query)
  BY InputsAssumption DEF AInv, PInv, Inv, query
<1>2. DOMAIN store = Server /\ pc \in [Server -> Phase]
      /\ \A s \in Server : StoreOK(store[s], query) /\ DOMAIN store[s] = StoreField
  BY DEF AInv, PInv, Inv, StoreOK
<1>3. \A s \in Server : received[s] \in Seq(Sent(in)) /\ answered[s] \in Seq(Sent(in))
  BY DEF AInv
<1>4. \A rs \in Seq(Sent(in)) : RowsOf(rs, query) \in Seq(Row(query)) /\ Rows(RowsOf(rs, query), query)
  BY <1>1, RowsOfSent
<1> QED BY <1>1, <1>2, <1>3, <1>4

(* A step within the first phases.                                         *)
LEMMA EarlyStep ==
  ASSUME AInv, PInv', in' = in, asked' = asked,
         \A s \in Server : pc[s] \in Early /\ pc'[s] \in Early,
         received' \in [Server -> Seq(Sent(in))], answered' \in [Server -> Seq(Sent(in))],
         \A s \in Server : store'[s].GroupedDeterministicFilteredResponses
                             = store[s].GroupedDeterministicFilteredResponses,
         \A s \in Server : StoredOK(s)' /\ ShuffledOK(s)' /\ TaggedOK(s)'
  PROVE  AInv'
<1>1. PICK s \in Server : TRUE
  BY ServerAssumption
<1>2. asked # 0
  BY <1>1, EarlyTogether DEF AInv
<1>3. \A t \in Server : GroupedOK(t)'
  BY DEF AInv, GroupedOK, Early
<1>4. \A t \in Server : DeliveredOK(t)'
  BY DEF DeliveredOK, Early
<1>5. AnswerOK' /\ Together'
  BY <1>1, <1>2 DEF AnswerOK, Together, Early
<1>6. Sent(in') = Sent(in) /\ asked' \in Nat
  BY DEF AInv
<1> QED BY <1>3, <1>4, <1>5, <1>6 DEF AInv

LEMMA PushKeeps ==
  ASSUME FreshData, AInv, PInv', NEW s \in Server, PushData(s)
  PROVE  AInv'
<1> DEFINE cr == Upload(s)[inserted[s] + 1]
           st == store[s]
           new == InsertDpResponse(st, cr, query)
           G == RowsOf(received[s], query)
<1>1. /\ in \in Inputs /\ query = in.query /\ query \in Query /\ DOMAIN store = Server
      /\ StoreOK(st, query) /\ DOMAIN st = StoreField /\ received[s] \in Seq(Sent(in))
      /\ G \in Seq(Row(query))
  BY AInvFacts
<1>2. /\ store' = [store EXCEPT ![s] = new]
      /\ received' = [received EXCEPT ![s] = Append(@, cr)]
      /\ in' = in /\ pc' = pc /\ asked' = asked /\ answer' = answer /\ answered' = answered
      /\ query' = query
  BY DEF PushData, query
<1>3. cr \in Sent(in)
  BY UploadedSent DEF PushData, AInv, PInv
<1> HIDE DEF cr
<1>4. NewResponse(cr, query) \in Row(query) /\ (in.queries # 1 => ~ NoEnc(cr))
  BY <1>1, <1>3, SentResponse
<1>5. /\ Append(received[s], cr) \in Seq(Sent(in))
      /\ RowsOf(Append(received[s], cr), query) = Append(G, NewResponse(cr, query))
  BY <1>1, <1>3, RowsOfAppended
<1>6. /\ new.ShuffledProcessResponses = st.ShuffledProcessResponses
      /\ new.LocAggregatedProcessResponse = st.LocAggregatedProcessResponse
      /\ new.GroupedDeterministicFilteredResponses = st.GroupedDeterministicFilteredResponses
      /\ new.DeliverableResults = st.DeliverableResults
      /\ ~ NoEnc(cr) => new.DpResponsesAggr = st.DpResponsesAggr
  <2> HIDE DEF st
  <2> QED BY <1>1 DEF InsertDpResponse, StoreField
<1> HIDE DEF new, G
<1>7. Holds(st, G, query) => Holds(new, Append(G, NewResponse(cr, query)), query)
  <2> HIDE DEF st
  <2> QED BY <1>1, <1>4, InsertHolds DEF new
<1>8. received' \in [Server -> Seq(Sent(in))] /\ received'[s] = Append(received[s], cr)
      /\ \A t \in Server \ {s} : received'[t] = received[t]
  BY <1>2, <1>5 DEF AInv
<1>9. store'[s] = new /\ \A t \in Server \ {s} : store'[t] = store[t]
  BY <1>1, <1>2
<1>10. StoredOK(s)'
  <2>1. StoredOK(s)
    BY DEF AInv
  <2> QED BY <1>2, <1>4, <1>5, <1>6, <1>7, <1>8, <1>9, <2>1 DEF StoredOK, G, st
<1>11. ASSUME NEW t \in Server
       PROVE  StoredOK(t)' /\ ShuffledOK(t)' /\ TaggedOK(t)' /\ GroupedOK(t)' /\ DeliveredOK(t)'
  <2>1. StoredOK(t) /\ ShuffledOK(t) /\ TaggedOK(t) /\ GroupedOK(t) /\ DeliveredOK(t)
    BY DEF AInv
  <2>2. Target' = Target
    BY <1>2 DEF Target
  <2>3. /\ store'[t].ShuffledProcessResponses = store[t].ShuffledProcessResponses
        /\ store'[t].LocAggregatedProcessResponse = store[t].LocAggregatedProcessResponse
        /\ store'[t].GroupedDeterministicFilteredResponses = store[t].GroupedDeterministicFilteredResponses
        /\ store'[t].DeliverableResults = store[t].DeliverableResults
    BY <1>6, <1>9
  <2>4. StoredOK(t)'
    <3>1. CASE t = s
      BY <1>10, <3>1
    <3>2. CASE t # s
      BY <1>2, <1>8, <1>9, <2>1, <3>2 DEF StoredOK
    <3> QED BY <3>1, <3>2
  <2> QED BY <1>2, <2>1, <2>2, <2>3, <2>4 DEF ShuffledOK, TaggedOK, GroupedOK, DeliveredOK
<1>12. AnswerOK' /\ Together'
  BY <1>2 DEF AInv, AnswerOK, Together, Target
<1>13. asked' \in Nat /\ answered' \in [Server -> Seq(Sent(in))] /\ Sent(in') = Sent(in)
  BY <1>2 DEF AInv
<1> QED BY <1>8, <1>11, <1>12, <1>13 DEF AInv

LEMMA AskKeeps ==
  ASSUME AInv, PInv', HandleSurveyResultsQuery
  PROVE  AInv'
<1>1. /\ \A s \in Server : pc[s] = "idle" /\ pc'[s] = "waiting"
      /\ asked' = asked + 1 /\ asked < in.queries /\ asked \in Nat
      /\ in' = in /\ query' = query /\ store' = store
      /\ received' = received /\ answered' = answered
  BY DEF HandleSurveyResultsQuery, query, AInv
<1>2. in \in Inputs /\ in.queries \in Nat \ {0}
  BY AInvFacts, InputsAssumption
<1>3. ASSUME NEW s \in Server
      PROVE  StoredOK(s)' /\ ShuffledOK(s)' /\ TaggedOK(s)' /\ GroupedOK(s)' /\ DeliveredOK(s)'
  <2>1. StoredOK(s) /\ ShuffledOK(s) /\ TaggedOK(s) /\ GroupedOK(s) /\ DeliveredOK(s)
    BY DEF AInv
  <2>2. in.queries # 1 \/ asked = 0
    BY <1>1, <1>2
  <2>3. StoredOK(s)'
    BY <1>1, <2>1, <2>2 DEF StoredOK
  <2> QED BY <1>1, <2>1, <2>3 DEF ShuffledOK, TaggedOK, GroupedOK, DeliveredOK
<1>4. AnswerOK' /\ Together'
  BY <1>1, ServerAssumption DEF AnswerOK, Together, Early
<1>5. /\ asked' \in Nat
      /\ received' \in [Server -> Seq(Sent(in'))] /\ answered' \in [Server -> Seq(Sent(in'))]
  BY <1>1 DEF AInv
<1> QED BY <1>3, <1>4, <1>5 DEF AInv

LEMMA TokenKeeps ==
  ASSUME AInv, PInv', NEW s \in Server, SendDpToken(s)
  PROVE  AInv'
BY DEF SendDpToken, AInv, StoredOK, ShuffledOK, TaggedOK, GroupedOK, DeliveredOK, AnswerOK, Together,
       Target, query

LEMMA StartKeeps ==
  ASSUME AInv, PInv', NEW s \in Server, StartService(s)
  PROVE  AInv'
<1>1. /\ pc[s] = "waiting" /\ pc' = [pc EXCEPT ![s] = "shuffling"]
      /\ in' = in /\ query' = query /\ store' = store /\ asked' = asked
      /\ received' = received /\ answered' = answered
  BY DEF StartService, query
<1>2. \A t \in Server : pc[t] \in Early
  BY <1>1, EarlyTogether DEF AInv, Early
<1>3. /\ pc'[s] = "shuffling" /\ \A t \in Server \ {s} : pc'[t] = pc[t]
  BY <1>1, AInvFacts
<1>4. \A t \in Server : pc'[t] \in Early
  BY <1>2, <1>3 DEF Early
<1>5. ASSUME NEW t \in Server PROVE StoredOK(t)' /\ ShuffledOK(t)' /\ TaggedOK(t)'
  <2>1. StoredOK(t) /\ ShuffledOK(t) /\ TaggedOK(t)
    BY DEF AInv
  <2> QED BY <1>1, <1>3, <2>1 DEF StoredOK, ShuffledOK, TaggedOK
<1>6. received' \in [Server -> Seq(Sent(in))] /\ answered' \in [Server -> Seq(Sent(in))]
  BY <1>1 DEF AInv
<1> QED BY <1>1, <1>2, <1>4, <1>5, <1>6, EarlyStep

LEMMA ShuffleKeeps ==
  ASSUME AInv, PInv', NEW s \in Server, ShufflingPhase(s)
  PROVE  AInv'
<1> DEFINE st == store[s]
           G == RowsOf(received[s], query)
<1>1. /\ pc[s] = "shuffling" /\ pc' = [pc EXCEPT ![s] = "tagging"]
      /\ in' = in /\ query' = query /\ asked' = asked
      /\ received' = [received EXCEPT ![s] = <<>>]
      /\ answered' = [answered EXCEPT ![s] = received[s]]
  BY DEF ShufflingPhase, query
<1>2. (\A t \in Server : pc[t] \in Early) /\ asked # 0
  BY <1>1, EarlyTogether DEF AInv, Early
<1>3. /\ in \in Inputs /\ query = in.query /\ query \in Query /\ DOMAIN store = Server
      /\ pc \in [Server -> Phase] /\ StoreOK(st, query) /\ DOMAIN st = StoreField
      /\ received[s] \in Seq(Sent(in)) /\ G \in Seq(Row(query)) /\ Rows(G, query)
  BY AInvFacts
<1>4. pc'[s] = "tagging" /\ \A t \in Server \ {s} : pc'[t] = pc[t]
  BY <1>1, <1>3
<1>5. \A t \in Server : pc'[t] \in Early
  BY <1>2, <1>4 DEF Early
<1>6. /\ received' \in [Server -> Seq(Sent(in))] /\ answered' \in [Server -> Seq(Sent(in))]
      /\ received'[s] = <<>> /\ answered'[s] = received[s]
      /\ \A t \in Server \ {s} : received'[t] = received[t] /\ answered'[t] = answered[t]
  BY <1>1, <1>3 DEF AInv
<1>7. /\ StoredOK(s) /\ Holds(st, G, query) /\ st.ShuffledProcessResponses = <<>>
      /\ in.queries # 1 => st.DpResponsesAggr = <<>>
  BY <1>1 DEF AInv, StoredOK, ShuffledOK
<1>8. /\ Alike(store'[s].ShuffledProcessResponses, G, query)
      /\ store'[s].DpResponses = <<>>
      /\ store'[s].DpResponsesAggr = st.DpResponsesAggr
      /\ store'[s].GroupedDeterministicFilteredResponses = st.GroupedDeterministicFilteredResponses
      /\ \A t \in Server \ {s} : store'[t] = store[t]
  <2>1. CASE st.DpResponses = <<>> /\ st.DpResponsesAggr = <<>>
    <3>1. store' = store
      BY <2>1 DEF ShufflingPhase
    <3>2. Alike(<<>>, G, query)
      <4> HIDE DEF st, G
      <4> QED BY <1>3, <1>7, <2>1, EmptyStore
    <3> QED BY <1>7, <2>1, <3>1, <3>2
  <2>2. CASE ~ (st.DpResponses = <<>> /\ st.DpResponsesAggr = <<>>)
    <3>1. PICK pulled \in PullDpResponses(st) :
            \E pi \in Orders(DOMAIN ProcessResponseToMatrixCipherText(WithDummy(pulled))) :
              store' = [store EXCEPT ![s].DpResponses = <<>>,
                          ![s].ShuffledProcessResponses =
                            @ \o MatrixCipherTextToProcessResponse(
                                   [i \in DOMAIN pi |->
                                      ProcessResponseToMatrixCipherText(WithDummy(pulled))[pi[i]]],
                                   LengthsOf(WithDummy(pulled)))]
      BY <2>2 DEF ShufflingPhase
    <3> DEFINE pr == WithDummy(pulled)
    <3>2. PICK pi \in Orders(DOMAIN ProcessResponseToMatrixCipherText(pr)) :
              store' = [store EXCEPT ![s].DpResponses = <<>>,
                          ![s].ShuffledProcessResponses =
                            @ \o MatrixCipherTextToProcessResponse(
                                   [i \in DOMAIN pi |-> ProcessResponseToMatrixCipherText(pr)[pi[i]]],
                                   LengthsOf(pr))]
      BY <3>1
    <3> DEFINE back == MatrixCipherTextToProcessResponse(
                         [i \in DOMAIN pi |-> ProcessResponseToMatrixCipherText(pr)[pi[i]]], LengthsOf(pr))
    <3>3. pr = WithDummy(pulled)
      OBVIOUS
    <3> HIDE DEF pr
    <3>4. back = MatrixCipherTextToProcessResponse(
                   [i \in DOMAIN pi |-> ProcessResponseToMatrixCipherText(pr)[pi[i]]], LengthsOf(pr))
      OBVIOUS
    <3> HIDE DEF back
    <3>5. back \in Seq(Row(query)) /\ Alike(back, G, query)
      <4> HIDE DEF st, G
      <4> QED BY <1>3, <1>7, <3>3, <3>4, ShuffledStore
    <3>6. store' = [store EXCEPT ![s].DpResponses = <<>>,
                      ![s].ShuffledProcessResponses = @ \o back]
      BY <3>2 DEF back
    <3>7. <<>> \o back = back
      BY <3>5
    <3>8. store' = [store EXCEPT ![s] = [st EXCEPT !.DpResponses = <<>>,
                                           !.ShuffledProcessResponses = back]]
      BY <1>3, <1>7, <3>6, <3>7
    <3>9. /\ store'[s] = [st EXCEPT !.DpResponses = <<>>, !.ShuffledProcessResponses = back]
          /\ \A t \in Server \ {s} : store'[t] = store[t]
      BY <1>3, <3>8
    <3> HIDE DEF st, G
    <3>10. /\ store'[s].ShuffledProcessResponses = back
           /\ store'[s].DpResponses = <<>>
           /\ store'[s].DpResponsesAggr = st.DpResponsesAggr
           /\ store'[s].GroupedDeterministicFilteredResponses = st.GroupedDeterministicFilteredResponses
      BY <1>3, <3>9 DEF StoreField
    <3> QED BY <3>5, <3>9, <3>10
  <2> QED BY <2>1, <2>2
<1>9. StoredOK(s)' /\ ShuffledOK(s)' /\ TaggedOK(s)'
  <2>1. RowsOf(<<>>, query) = <<>>
    BY DEF RowsOf
  <2>2. ShuffledOK(s)' /\ TaggedOK(s)'
    BY <1>1, <1>4, <1>6, <1>8 DEF ShuffledOK, TaggedOK
  <2>3. CASE in.queries = 1
    BY <1>1, <1>2, <1>4, <2>2, <2>3 DEF StoredOK
  <2>4. CASE in.queries # 1
    <3> DEFINE new == store'[s]
    <3>1. new.DpResponses = <<>> /\ new.DpResponsesAggr = <<>>
      BY <1>7, <1>8, <2>4
    <3> HIDE DEF new
    <3>2. Holds(new, <<>>, query)
      BY <1>3, <3>1, PulledStore
    <3> QED BY <1>1, <1>6, <2>1, <2>2, <3>1, <3>2 DEF StoredOK, new
  <2> QED BY <2>3, <2>4
<1>10. ASSUME NEW t \in Server PROVE StoredOK(t)' /\ ShuffledOK(t)' /\ TaggedOK(t)'
  <2>1. CASE t = s
    BY <1>9, <2>1
  <2>2. CASE t # s
    <3>1. StoredOK(t) /\ ShuffledOK(t) /\ TaggedOK(t)
      BY DEF AInv
    <3> QED BY <1>1, <1>4, <1>6, <1>8, <2>2, <3>1 DEF StoredOK, ShuffledOK, TaggedOK
  <2> QED BY <2>1, <2>2
<1>11. \A t \in Server : store'[t].GroupedDeterministicFilteredResponses
                           = store[t].GroupedDeterministicFilteredResponses
  BY <1>8
<1> QED BY <1>1, <1>2, <1>5, <1>6, <1>10, <1>11, EarlyStep

LEMMA TagKeeps ==
  ASSUME AInv, PInv', NEW s \in Server, TaggingPhase(s)
  PROVE  AInv'
<1> DEFINE st == store[s]
           F == st.ShuffledProcessResponses
           G == RowsOf(answered[s], query)
<1>1. /\ pc[s] = "tagging" /\ pc' = [pc EXCEPT ![s] = "tagged"]
      /\ in' = in /\ query' = query /\ asked' = asked
      /\ received' = received /\ answered' = answered
  BY DEF TaggingPhase, query
<1>2. (\A t \in Server : pc[t] \in Early) /\ asked # 0
  BY <1>1, EarlyTogether DEF AInv, Early
<1>3. /\ in \in Inputs /\ query = in.query /\ query \in Query /\ PredicateFits(query)
      /\ DOMAIN store = Server /\ pc \in [Server -> Phase]
      /\ StoreOK(st, query) /\ DOMAIN st = StoreField
      /\ G \in Seq(Row(query)) /\ Rows(G, query)
  BY AInvFacts
<1>4. pc'[s] = "tagged" /\ \A t \in Server \ {s} : pc'[t] = pc[t]
  BY <1>1, <1>3
<1>5. \A t \in Server : pc'[t] \in Early
  BY <1>2, <1>4 DEF Early
<1>6. /\ StoredOK(s) /\ Alike(F, G, query) /\ F \in Seq(Row(query))
      /\ st.LocAggregatedProcessResponse = <<>>
  <2>1. StoredOK(s) /\ Alike(F, G, query)
    BY <1>1 DEF AInv, ShuffledOK
  <2>2. F \in Seq(Row(query))
    BY <1>3 DEF StoreOK
  <2> QED BY <1>1, <2>1, <2>2 DEF AInv, PInv
<1>7. LocMap(G, query) = IF F = <<>> THEN <<>>
                         ELSE PushDeterministicFilteredResponses(<<>>, TaggedAndFiltered(query, F))
  <2> HIDE DEF F, G
  <2> QED BY <1>3, <1>6, TaggedMap
<1>8. /\ store'[s].LocAggregatedProcessResponse = LocMap(G, query)
      /\ store'[s].ShuffledProcessResponses = <<>>
      /\ store'[s].DpResponses = st.DpResponses
      /\ store'[s].DpResponsesAggr = st.DpResponsesAggr
      /\ store'[s].GroupedDeterministicFilteredResponses = st.GroupedDeterministicFilteredResponses
      /\ \A t \in Server \ {s} : store'[t] = store[t]
  <2>1. CASE F = <<>>
    <3>1. store' = store
      BY <2>1 DEF TaggingPhase
    <3> QED BY <1>6, <1>7, <2>1, <3>1
  <2>2. CASE F # <<>>
    <3> DEFINE map == PushDeterministicFilteredResponses(<<>>, TaggedAndFiltered(query, F))
    <3>1. store' = [store EXCEPT ![s].ShuffledProcessResponses = <<>>,
                                 ![s].LocAggregatedProcessResponse = map]
      BY <1>6, <2>2 DEF TaggingPhase
    <3>2. map = LocMap(G, query)
      BY <1>7, <2>2
    <3> HIDE DEF map
    <3>3. store' = [store EXCEPT ![s] = [st EXCEPT !.ShuffledProcessResponses = <<>>,
                                           !.LocAggregatedProcessResponse = map]]
      BY <1>3, <3>1
    <3>4. /\ store'[s] = [st EXCEPT !.ShuffledProcessResponses = <<>>, !.LocAggregatedProcessResponse = map]
          /\ \A t \in Server \ {s} : store'[t] = store[t]
      BY <1>3, <3>3
    <3> HIDE DEF st, F, G
    <3>5. /\ store'[s].LocAggregatedProcessResponse = map
          /\ store'[s].ShuffledProcessResponses = <<>>
          /\ store'[s].DpResponses = st.DpResponses
          /\ store'[s].DpResponsesAggr = st.DpResponsesAggr
          /\ store'[s].GroupedDeterministicFilteredResponses = st.GroupedDeterministicFilteredResponses
      BY <1>3, <3>4 DEF StoreField
    <3> QED BY <3>2, <3>4, <3>5
  <2> QED BY <2>1, <2>2
<1>9. StoredOK(s)' /\ ShuffledOK(s)' /\ TaggedOK(s)'
  <2>1. ShuffledOK(s)' /\ TaggedOK(s)'
    BY <1>1, <1>4, <1>8 DEF ShuffledOK, TaggedOK
  <2>2. Holds(st, RowsOf(received[s], query), query) => Holds(store'[s], RowsOf(received[s], query), query)
    BY <1>8 DEF Holds
  <2>3. StoredOK(s)'
    BY <1>1, <1>2, <1>4, <1>6, <1>8, <2>2 DEF StoredOK
  <2> QED BY <2>1, <2>3
<1>10. ASSUME NEW t \in Server PROVE StoredOK(t)' /\ ShuffledOK(t)' /\ TaggedOK(t)'
  <2>1. CASE t = s
    BY <1>9, <2>1
  <2>2. CASE t # s
    <3>1. StoredOK(t) /\ ShuffledOK(t) /\ TaggedOK(t)
      BY DEF AInv
    <3> QED BY <1>1, <1>4, <1>8, <2>2, <3>1 DEF StoredOK, ShuffledOK, TaggedOK
  <2> QED BY <2>1, <2>2
<1>11. \A t \in Server : store'[t].GroupedDeterministicFilteredResponses
                           = store[t].GroupedDeterministicFilteredResponses
  BY <1>8
<1>12. received' \in [Server -> Seq(Sent(in))] /\ answered' \in [Server -> Seq(Sent(in))]
  BY <1>1 DEF AInv
<1> QED BY <1>1, <1>2, <1>5, <1>10, <1>11, <1>12, EarlyStep

(* What the stores hold of the phases before, when only the last phases    *)
(* are changed.                                                            *)
Untouched ==
  /\ in' = in /\ query' = query /\ asked' = asked /\ received' = received /\ answered' = answered
  /\ \A t \in Server : /\ store'[t].DpResponses = store[t].DpResponses
                       /\ store'[t].DpResponsesAggr = store[t].DpResponsesAggr
                       /\ store'[t].ShuffledProcessResponses = store[t].ShuffledProcessResponses

(* A step of the root.                                                     *)
LEMMA LateStep ==
  ASSUME AInv, PInv', asked # 0, Untouched, Together', AnswerOK',
         \A t \in Server : pc[t] # "waiting" /\ pc[t] # "shuffling" /\ pc[t] # "tagging",
         \A t \in Server : pc'[t] \notin Early,
         \A t \in Server : GroupedOK(t)' /\ DeliveredOK(t)'
  PROVE  AInv'
<1>1. ASSUME NEW t \in Server PROVE StoredOK(t)' /\ ShuffledOK(t)' /\ TaggedOK(t)'
  <2>1. StoredOK(t) /\ ShuffledOK(t)
    BY DEF AInv
  <2>2. Holds(store[t], RowsOf(received[t], query), query)
          => Holds(store'[t], RowsOf(received'[t], query'), query')
    BY DEF Holds, Untouched
  <2>3. StoredOK(t)'
    BY <2>1, <2>2 DEF StoredOK, Untouched, Early
  <2>4. ShuffledOK(t)'
    BY <2>1 DEF ShuffledOK, Untouched, Early
  <2>5. TaggedOK(t)'
    BY DEF TaggedOK, Early
  <2> QED BY <2>3, <2>4, <2>5
<1>2. /\ asked' \in Nat
      /\ received' \in [Server -> Seq(Sent(in'))] /\ answered' \in [Server -> Seq(Sent(in'))]
  BY DEF AInv, Untouched
<1> QED BY <1>1, <1>2 DEF AInv

LEMMA AggregateKeeps ==
  ASSUME AInv, PInv', NEW root \in Server, AggregationPhase(root)
  PROVE  AInv'
<1> DEFINE maps == [t \in Server |-> store[t].LocAggregatedProcessResponse]
           F == AllOf(answered, query)
           own == store[root].GroupedDeterministicFilteredResponses
           sum == PushCothorityAggregatedFilteredResponses(own, Aggregated(maps))
<1>1. /\ \A t \in Server : pc[t] = "tagged"
      /\ \A t \in Server : pc'[t] = IF t = root THEN "switching" ELSE "idle"
      /\ store' = [t \in Server |->
           [store[t] EXCEPT !.LocAggregatedProcessResponse = <<>>,
                            !.GroupedDeterministicFilteredResponses = IF t = root THEN sum ELSE @]]
      /\ in' = in /\ query' = query /\ asked' = asked
      /\ received' = received /\ answered' = answered
  BY DEF AggregationPhase, query
<1>2. asked # 0
  BY <1>1, EarlyTogether DEF AInv, Early
<1>3. /\ query \in Query /\ \A t \in Server : DOMAIN store[t] = StoreField /\ Rows(RowsOf(answered[t], query), query)
  BY AInvFacts
<1>4. \A t \in Server : maps[t] = LocMap(F[t], query)
  <2> SUFFICES ASSUME NEW t \in Server PROVE maps[t] = LocMap(F[t], query)
    OBVIOUS
  <2>1. TaggedOK(t) /\ pc[t] = "tagged"
    BY <1>1 DEF AInv
  <2> QED BY <2>1 DEF TaggedOK, AllOf
<1>5. AllRowsOK(F, query)
  BY <1>3 DEF AllRowsOK, AllOf
<1>6. own = <<>>
  BY <1>1 DEF AInv, GroupedOK
<1>7. DOMAIN maps = Server
  OBVIOUS
<1>8. sum = Target
  <2> HIDE DEF maps, F, own
  <2>1. PushCothorityAggregatedFilteredResponses(<<>>, Aggregated(maps)) = Wanted(F, query)
    BY <1>3, <1>4, <1>5, <1>7, AllAggregated
  <2> QED BY <1>6, <2>1 DEF Target, F
<1> HIDE DEF maps, F, own, sum
<1>9. ASSUME NEW t \in Server
      PROVE  /\ store'[t].DpResponses = store[t].DpResponses
             /\ store'[t].DpResponsesAggr = store[t].DpResponsesAggr
             /\ store'[t].ShuffledProcessResponses = store[t].ShuffledProcessResponses
             /\ store'[t].GroupedDeterministicFilteredResponses
                  = IF t = root THEN sum ELSE store[t].GroupedDeterministicFilteredResponses
  <2> DEFINE st == store[t]
  <2>1. store'[t] = [st EXCEPT !.LocAggregatedProcessResponse = <<>>,
                               !.GroupedDeterministicFilteredResponses = IF t = root THEN sum ELSE @]
    BY <1>1
  <2>2. DOMAIN st = StoreField
    BY <1>3
  <2> HIDE DEF st
  <2>3. /\ store'[t].DpResponses = st.DpResponses
        /\ store'[t].DpResponsesAggr = st.DpResponsesAggr
        /\ store'[t].ShuffledProcessResponses = st.ShuffledProcessResponses
        /\ store'[t].GroupedDeterministicFilteredResponses
             = IF t = root THEN sum ELSE st.GroupedDeterministicFilteredResponses
    BY <2>1, <2>2 DEF StoreField
  <2> QED BY <2>3 DEF st
<1>10. Untouched
  BY <1>1, <1>9 DEF Untouched
<1>11. Target' = Target
  BY <1>1 DEF Target
<1>12. \A t \in Server : GroupedOK(t)' /\ DeliveredOK(t)'
  <2> SUFFICES ASSUME NEW t \in Server PROVE GroupedOK(t)' /\ DeliveredOK(t)'
    OBVIOUS
  <2>1. GroupedOK(t)
    BY DEF AInv
  <2> QED BY <1>1, <1>8, <1>9, <1>11, <2>1 DEF GroupedOK, DeliveredOK
<1>13. AnswerOK' /\ Together'
  BY <1>1, <1>2 DEF AnswerOK, Together, Early
<1>14. /\ \A t \in Server : pc[t] # "waiting" /\ pc[t] # "shuffling" /\ pc[t] # "tagging"
       /\ \A t \in Server : pc'[t] \notin Early
  BY <1>1 DEF Early
<1> QED BY <1>2, <1>10, <1>12, <1>13, <1>14, LateStep

LEMMA SwitchKeeps ==
  ASSUME AInv, PInv', NEW root \in Server, KeySwitchingPhase(root)
  PROVE  AInv'
<1> DEFINE st == store[root]
           map == st.GroupedDeterministicFilteredResponses
           F == AllOf(answered, query)
<1>1. /\ pc[root] = "switching" /\ pc' = [pc EXCEPT ![root] = "answering"]
      /\ in' = in /\ query' = query /\ asked' = asked
      /\ received' = received /\ answered' = answered
  BY DEF KeySwitchingPhase, query
<1>2. (\A t \in Server \ {root} : pc[t] = "idle") /\ asked # 0
  BY <1>1, LateAlone DEF AInv
<1>3. /\ query \in Query /\ DOMAIN store = Server /\ pc \in [Server -> Phase] /\ DOMAIN st = StoreField
      /\ \A t \in Server : Rows(RowsOf(answered[t], query), query)
  BY AInvFacts
<1>4. map = Wanted(F, query)
  BY <1>1 DEF AInv, GroupedOK, Target
<1>5. AllRowsOK(F, query)
  BY <1>3 DEF AllRowsOK, AllOf
<1>6. PICK order \in Orders(DOMAIN map) :
        store' = [store EXCEPT
                    ![root].GroupedDeterministicFilteredResponses = <<>>,
                    ![root].DeliverableResults =
                       CipherVectorToFilteredResponse(
                         FilteredResponseToCipherVector([i \in DOMAIN order |-> map[order[i]]]),
                         FilteredLengths([i \in DOMAIN order |-> map[order[i]]]))]
  BY DEF KeySwitchingPhase
<1> DEFINE c == [i \in DOMAIN order |-> map[order[i]]]
           d == CipherVectorToFilteredResponse(FilteredResponseToCipherVector(c), FilteredLengths(c))
<1>7. IsAnswer(d, Target)
  <2>1. c = [i \in DOMAIN order |-> Wanted(F, query)[order[i]]] /\ order \in Orders(DOMAIN Wanted(F, query))
    BY <1>4
  <2> HIDE DEF c, F, map
  <2>2. IsAnswer(d, Wanted(F, query))
    BY <1>3, <1>5, <2>1, SwitchedIsAnswer
  <2> QED BY <2>2 DEF Target, F
<1>8. store' = [store EXCEPT ![root].GroupedDeterministicFilteredResponses = <<>>,
                             ![root].DeliverableResults = d]
  BY <1>6
<1> HIDE DEF d
<1>9. store' = [store EXCEPT ![root] = [st EXCEPT !.GroupedDeterministicFilteredResponses = <<>>,
                                          !.DeliverableResults = d]]
  BY <1>3, <1>8
<1>10. /\ store'[root] = [st EXCEPT !.GroupedDeterministicFilteredResponses = <<>>, !.DeliverableResults = d]
       /\ \A t \in Server \ {root} : store'[t] = store[t]
  BY <1>3, <1>9
<1>11. /\ store'[root].DpResponses = store[root].DpResponses
       /\ store'[root].DpResponsesAggr = store[root].DpResponsesAggr
       /\ store'[root].ShuffledProcessResponses = store[root].ShuffledProcessResponses
       /\ store'[root].GroupedDeterministicFilteredResponses = <<>>
       /\ store'[root].DeliverableResults = d
  <2>1. st = store[root]
    OBVIOUS
  <2> HIDE DEF st
  <2>2. /\ store'[root].DpResponses = st.DpResponses
        /\ store'[root].DpResponsesAggr = st.DpResponsesAggr
        /\ store'[root].ShuffledProcessResponses = st.ShuffledProcessResponses
        /\ store'[root].GroupedDeterministicFilteredResponses = <<>>
        /\ store'[root].DeliverableResults = d
    BY <1>3, <1>10 DEF StoreField
  <2> QED BY <2>1, <2>2
<1>12. Untouched
  BY <1>1, <1>10, <1>11 DEF Untouched
<1>13. Target' = Target
  BY <1>1 DEF Target
<1>14. pc'[root] = "answering" /\ \A t \in Server \ {root} : pc'[t] = "idle"
  BY <1>1, <1>2, <1>3
<1>15. \A t \in Server : GroupedOK(t)' /\ DeliveredOK(t)'
  <2> SUFFICES ASSUME NEW t \in Server PROVE GroupedOK(t)' /\ DeliveredOK(t)'
    OBVIOUS
  <2>1. GroupedOK(t)
    BY DEF AInv
  <2>2. CASE t = root
    BY <1>7, <1>11, <1>13, <1>14, <2>2 DEF GroupedOK, DeliveredOK
  <2>3. CASE t # root
    BY <1>2, <1>10, <1>14, <2>1, <2>3 DEF GroupedOK, DeliveredOK
  <2> QED BY <2>2, <2>3
<1>16. AnswerOK' /\ Together'
  BY <1>1, <1>2, <1>14 DEF AnswerOK, Together
<1>17. /\ \A t \in Server : pc[t] # "waiting" /\ pc[t] # "shuffling" /\ pc[t] # "tagging"
       /\ \A t \in Server : pc'[t] \notin Early
  BY <1>1, <1>2, <1>14 DEF Early
<1> QED BY <1>2, <1>12, <1>15, <1>16, <1>17, LateStep

LEMMA AnswerKeeps ==
  ASSUME AInv, PInv', NEW root \in Server, Answer(root)
  PROVE  AInv'
<1> DEFINE st == store[root]
<1>1. /\ pc[root] = "answering" /\ pc' = [pc EXCEPT ![root] = "idle"]
      /\ answer' = st.DeliverableResults
      /\ store' = [store EXCEPT ![root].DeliverableResults = <<>>]
      /\ in' = in /\ query' = query /\ asked' = asked
      /\ received' = received /\ answered' = answered
  BY DEF Answer, query
<1>2. (\A t \in Server \ {root} : pc[t] = "idle") /\ asked # 0
  BY <1>1, LateAlone DEF AInv
<1>3. DOMAIN store = Server /\ pc \in [Server -> Phase] /\ DOMAIN st = StoreField
  BY AInvFacts
<1>4. \A t \in Server : pc'[t] = "idle"
  BY <1>1, <1>2, <1>3
<1>5. Target' = Target
  BY <1>1 DEF Target
<1>6. IsAnswer(answer', Target)
  <2>1. DeliveredOK(root)
    BY DEF AInv
  <2> QED BY <1>1, <2>1 DEF DeliveredOK
<1>7. /\ store'[root].DpResponses = store[root].DpResponses
      /\ store'[root].DpResponsesAggr = store[root].DpResponsesAggr
      /\ store'[root].ShuffledProcessResponses = store[root].ShuffledProcessResponses
      /\ store'[root].GroupedDeterministicFilteredResponses
           = store[root].GroupedDeterministicFilteredResponses
      /\ \A t \in Server \ {root} : store'[t] = store[t]
  BY <1>1, <1>3 DEF StoreField
<1>8. Untouched
  BY <1>1, <1>7 DEF Untouched
<1>9. \A t \in Server : GroupedOK(t)' /\ DeliveredOK(t)'
  <2> SUFFICES ASSUME NEW t \in Server PROVE GroupedOK(t)' /\ DeliveredOK(t)'
    OBVIOUS
  <2>1. GroupedOK(t)
    BY DEF AInv
  <2>2. store'[t].GroupedDeterministicFilteredResponses = <<>>
    BY <1>1, <1>2, <1>7, <2>1 DEF GroupedOK
  <2> QED BY <1>4, <2>2 DEF GroupedOK, DeliveredOK
<1>10. AnswerOK' /\ Together'
  BY <1>1, <1>2, <1>4, <1>5, <1>6 DEF AnswerOK, Together
<1>11. /\ \A t \in Server : pc[t] # "waiting" /\ pc[t] # "shuffling" /\ pc[t] # "tagging"
       /\ \A t \in Server : pc'[t] \notin Early
  BY <1>1, <1>2, <1>4 DEF Early
<1> QED BY <1>2, <1>8, <1>9, <1>10, <1>11, LateStep

LEMMA StepAInv ==
  ASSUME FreshData, AInv, [Next]_vars
  PROVE  AInv'
<1>1. PInv'
  BY StepPInv DEF AInv
<1>2. CASE UNCHANGED vars
  BY <1>1, <1>2 DEF vars, AInv, StoredOK, ShuffledOK, TaggedOK, GroupedOK, DeliveredOK, AnswerOK,
       Together, Target, query
<1>3. CASE HandleSurveyResultsQuery
  BY <1>1, <1>3, AskKeeps
<1>4. ASSUME NEW s \in Server, PushData(s) PROVE AInv'
  BY <1>1, <1>4, PushKeeps
<1>5. ASSUME NEW s \in Server, SendDpToken(s) PROVE AInv'
  BY <1>1, <1>5, TokenKeeps
<1>6. ASSUME NEW s \in Server, StartService(s) PROVE AInv'
  BY <1>1, <1>6, StartKeeps
<1>7. ASSUME NEW s \in Server, ShufflingPhase(s) PROVE AInv'
  BY <1>1, <1>7, ShuffleKeeps
<1>8. ASSUME NEW s \in Server, TaggingPhase(s) PROVE AInv'
  BY <1>1, <1>8, TagKeeps
<1>9. ASSUME NEW s \in Server, AggregationPhase(s) PROVE AInv'
  BY <1>1, <1>9, AggregateKeeps
<1>10. ASSUME NEW s \in Server, KeySwitchingPhase(s) PROVE AInv'
  BY <1>1, <1>10, SwitchKeeps
<1>11. ASSUME NEW s \in Server, Answer(s) PROVE AInv'
  BY <1>1, <1>11, AnswerKeeps
<1> QED BY <1>2, <1>3, <1>4, <1>5, <1>6, <1>7, <1>8, <1>9, <1>10, <1>11 DEF Next

LEMMA AInvAnswers == AInv => AnswerIsGroupBySum
<1> SUFFICES ASSUME AInv, asked > 0, \A s \in Server : pc[s] = "idle"
             PROVE  Range(answer) = GroupBySum /\ Len(answer) = Cardinality(GroupBySum)
  BY DEF AnswerIsGroupBySum
<1>1. IsAnswer(answer, Wanted(AllOf(answered, query), query))
  BY DEF AInv, AnswerOK, Target
<1>2. in \in Inputs /\ answered \in [Server -> Seq(Sent(in))]
  BY AInvFacts DEF AInv
<1> QED BY <1>1, <1>2, AnswerIsReference

(* The querier is told each group once, with the sums over exactly the     *)
(* matching responses received for the query, for every roster, query and  *)
(* mix of clear, encrypted and missing attributes.  A survey is queried    *)
(* once or its responses are not all clear: PullDpResponses leaves the     *)
(* map of clear responses as it is, and a second query counts them again   *)
(* (lib/store/store.go, the run MCResponseStoreSecondQuery).               *)
THEOREM AnswersAreRight == FreshData => (Spec => []AnswerIsGroupBySum)
<1> SUFFICES ASSUME FreshData PROVE Spec => []AnswerIsGroupBySum
  OBVIOUS
<1>1. Init => AInv
  BY InitAInv
<1>2. AInv /\ [Next]_vars => AInv'
  BY StepAInv
<1>3. AInv => AnswerIsGroupBySum
  BY AInvAnswers
<1> QED BY <1>1, <1>2, <1>3, PTL DEF Spec
=============================================================================
