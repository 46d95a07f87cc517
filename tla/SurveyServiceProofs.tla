------------------------- MODULE SurveyServiceProofs -------------------------
(***************************************************************************)
(* Theorems about SurveyService for every set of servers, data providers   *)
(* and queriers.                                                           *)
(***************************************************************************)
EXTENDS SurveyService, FiniteSetTheorems, TLAPS

(* A thread is a pair of a querier and a server.                           *)
LEMMA ThreadType ==
  ASSUME NEW t \in Thread
  PROVE  /\ Asker(t) \in Querier
         /\ At(t) \in Server
         /\ t = <<Asker(t), At(t)>>
BY DEF Thread, Asker, At

(* Where a step may lead a thread: the pcs that AfterPut yields.           *)
LEMMA AfterPutType ==
  ASSUME NEW t \in Thread, thread[t].pc \in PutPc
  PROVE  AfterPut(t) \in ThreadPc
BY DEF AfterPut, PutPc, ThreadPc

LEMMA GotoType ==
  ASSUME TypeOK, NEW t \in Thread, NEW pc \in ThreadPc, Goto(t, pc)
  PROVE  thread' \in [Thread -> ThreadRec]
BY DEF TypeOK, Goto, ThreadRec

LEMMA GotoPutType ==
  ASSUME TypeOK, NEW t \in Thread, NEW pc \in ThreadPc,
         NEW copy \in SurveyRec, NEW held \in SUBSET DP, GotoPut(t, pc, copy, held)
  PROVE  thread' \in [Thread -> ThreadRec]
<1>1. thread[t] \in ThreadRec
  BY DEF TypeOK
<1>2. [thread[t] EXCEPT !.pc = pc, !.copy = copy, !.held = held] \in ThreadRec
  BY <1>1 DEF ThreadRec
<1>. QED  BY <1>2 DEF TypeOK, GotoPut

LEMMA AckTakenType ==
  ASSUME NEW i, NEW s \in Server, NEW c \in [Server -> ChanRec]
  PROVE  [c EXCEPT ![s].survey = @ \ {i}] \in [Server -> ChanRec]
<1>1. [c[s] EXCEPT !.survey = @ \ {i}] \in ChanRec
  BY DEF ChanRec
<1>. QED  BY <1>1

LEMMA CreateType ==
  ASSUME TypeOK, Create
  PROVE  TypeOK'
<1>. USE ServerAssumption DEF TypeOK
<1>1. CASE CreateSurvey
  BY <1>1 DEF CreateSurvey, CreationPc
<1>2. CASE BroadcastCreation
  BY <1>2 DEF BroadcastCreation, CreationPc, NetRec, SendISMOthers, Others, AfterBroadcast
<1>3. ASSUME NEW s \in Server, ReceiveCreation(s)
      PROVE  TypeOK'
  BY <1>3 DEF ReceiveCreation, CreationPc, NetRec
<1>4. ASSUME NEW s \in Server, AckCreation(s)
      PROVE  TypeOK'
  BY <1>4 DEF AckCreation, CreationPc, NetRec, AfterBroadcast
<1>5. ASSUME NEW s \in Server, DataLoaded(s)
      PROVE  TypeOK'
  BY <1>5 DEF DataLoaded, CreationPc
<1>6. ASSUME NEW i \in Server, HandleQueryBroadcastFinished(i)
      PROVE  TypeOK'
  <2>1. net' \in NetRec
    BY <1>6 DEF HandleQueryBroadcastFinished, NetRec
  <2>2. chan' \in [Server -> ChanRec]
    BY <1>6 DEF HandleQueryBroadcastFinished, ChanRec
  <2>. QED  BY <1>6, <2>1, <2>2 DEF HandleQueryBroadcastFinished
<1>7. ASSUME NEW i \in Server, TakeAck(i)
      PROVE  TypeOK'
  <2>1. chan' \in [Server -> ChanRec]
    BY <1>7, AckTakenType DEF TakeAck
  <2>. QED  BY <1>7, <2>1 DEF TakeAck
<1>8. CASE ReturnSurveyID
  BY <1>8 DEF ReturnSurveyID, CreationPc
<1>. QED  BY <1>1, <1>2, <1>3, <1>4, <1>5, <1>6, <1>7, <1>8 DEF Create

LEMMA UploadType ==
  ASSUME TypeOK, NEW d \in DP, Upload(d)
  PROVE  TypeOK'
<1>1. /\ HomeOf[d] \in Server
      /\ upload \in [DP -> UploadRec]
      /\ upload[d] \in UploadRec
      /\ survey \in [Server -> SurveyRec]
      /\ store \in [Server -> StoreRec]
      /\ chan \in [Server -> ChanRec]
  BY ClientAssumption DEF TypeOK
<1>2. CASE StartUpload(d)
  <2>1. survey[HomeOf[d]] \in SurveyRec
    BY <1>1
  <2>2. upload' \in [DP -> UploadRec]
    BY <1>1, <1>2, <2>1 DEF StartUpload, UploadRec
  <2>. QED  BY <1>2, <2>2 DEF TypeOK, StartUpload
<1>3. CASE ReadResponses(d)
  <2>1. store[HomeOf[d]] \in StoreRec
    BY <1>1
  <2>2. upload' \in [DP -> UploadRec]
    BY <1>1, <1>3, <2>1 DEF ReadResponses, UploadRec, StoreRec
  <2>. QED  BY <1>3, <2>2 DEF TypeOK, ReadResponses
<1>4. CASE InsertDpResponse(d)
  <2>1. upload' \in [DP -> UploadRec]
    BY <1>1, <1>4 DEF InsertDpResponse, UploadRec
  <2>2. upload[d].seen \cup {d} \in SUBSET DP
    BY <1>1 DEF UploadRec
  <2>3. store' \in [Server -> StoreRec]
    <3> DEFINE u == upload[d].seen \cup {d}
    <3> HIDE DEF u
    <3>1. /\ [store[HomeOf[d]] EXCEPT !.DpResponses = u] \in StoreRec
          /\ [store[HomeOf[d]] EXCEPT !.DpResponsesAggr = u] \in StoreRec
      BY <1>1, <2>2 DEF StoreRec, u
    <3>2. store' = [store EXCEPT ![HomeOf[d]] =
                      IF d \in ClearDP THEN [@ EXCEPT !.DpResponsesAggr = u]
                                       ELSE [@ EXCEPT !.DpResponses = u]]
      BY <1>1, <1>4 DEF InsertDpResponse, u
    <3> QED BY <1>1, <3>1, <3>2
  <2>. QED  BY <1>4, <2>1, <2>3 DEF TypeOK, InsertDpResponse
<1>5. CASE PutUpload(d)
  <2>1. upload' \in [DP -> UploadRec]
    BY <1>1, <1>5 DEF PutUpload, UploadRec
  <2>2. upload[d].copy \in SurveyRec
    BY <1>1 DEF UploadRec
  <2>3. survey' \in [Server -> SurveyRec]
    BY <1>1, <1>5, <2>2 DEF PutUpload
  <2>. QED  BY <1>5, <2>1, <2>3 DEF TypeOK, PutUpload
<1>6. CASE SendDpToken(d)
  <2>1. upload' \in [DP -> UploadRec]
    BY <1>1, <1>6 DEF SendDpToken, UploadRec
  <2>2. chan' \in [Server -> ChanRec]
    BY <1>1, <1>6 DEF SendDpToken, ChanRec
  <2>. QED  BY <1>6, <2>1, <2>2 DEF TypeOK, SendDpToken
<1>. QED  BY <1>2, <1>3, <1>4, <1>5, <1>6 DEF Upload

(* What the type invariant says of one thread and its server.              *)
LEMMA ThreadFacts ==
  ASSUME TypeOK, NEW t \in Thread
  PROVE  /\ At(t) \in Server
         /\ Asker(t) \in Querier
         /\ thread \in [Thread -> ThreadRec]
         /\ thread[t] \in ThreadRec
         /\ agg \in [Thread -> AggRec]
         /\ agg[t] \in AggRec
         /\ survey \in [Server -> SurveyRec]
         /\ survey[At(t)] \in SurveyRec
         /\ store \in [Server -> StoreRec]
         /\ store[At(t)] \in StoreRec
         /\ chan \in [Server -> ChanRec]
         /\ chan[At(t)] \in ChanRec
         /\ net \in NetRec
BY ThreadType DEF TypeOK

LEMMA QueryType ==
  ASSUME TypeOK, NEW t \in Thread,
         \/ HandleSurveyResultsQuery(t) \/ PutSurvey(t) \/ ForwardQuery(t)
         \/ \E d \in DP : TakeDpToken(t, d)
  PROVE  TypeOK'
<1>0. /\ At(t) \in Server /\ Asker(t) \in Querier
      /\ thread \in [Thread -> ThreadRec] /\ thread[t] \in ThreadRec
      /\ agg \in [Thread -> AggRec] /\ agg[t] \in AggRec
      /\ survey \in [Server -> SurveyRec] /\ survey[At(t)] \in SurveyRec
      /\ store \in [Server -> StoreRec] /\ store[At(t)] \in StoreRec
      /\ chan \in [Server -> ChanRec] /\ chan[At(t)] \in ChanRec
      /\ net \in NetRec
  BY ThreadFacts
<1>. USE <1>0
<1>1. CASE HandleSurveyResultsQuery(t)
  <2>1. CopyWithKey(t) \in SurveyRec
    BY DEF CopyWithKey, SurveyRec, Key
  <2>2. thread' \in [Thread -> ThreadRec]
    BY <1>1, <2>1, GotoPutType DEF HandleSurveyResultsQuery, ThreadPc, PutPc
  <2>3. net' \in NetRec
    BY <1>1 DEF HandleSurveyResultsQuery, NetRec
  <2>. QED  BY <1>1, <2>2, <2>3 DEF TypeOK, HandleSurveyResultsQuery
<1>2. CASE PutSurvey(t)
  <2>1. thread[t].copy \in SurveyRec
    BY DEF ThreadRec
  <2>2. survey' \in [Server -> SurveyRec]
    BY <1>2, <2>1 DEF PutSurvey
  <2>3. thread' \in [Thread -> ThreadRec]
    BY <1>2, AfterPutType, GotoType DEF PutSurvey
  <2>. QED  BY <1>2, <2>2, <2>3 DEF TypeOK, PutSurvey
<1>3. CASE ForwardQuery(t)
  <2>1. PICK reached \in SendISMOthers(At(t)) :
          /\ net' = [net EXCEPT !.query = @ \cup ({Asker(t)} \X reached)]
          /\ Goto(t, IF reached = Others(At(t)) THEN "wait_dps" ELSE "failed")
    BY <1>3 DEF ForwardQuery
  <2>2. reached \subseteq Server
    BY DEF SendISMOthers, Others
  <2>3. {Asker(t)} \X reached \subseteq Thread
    BY <2>2 DEF Thread
  <2>4. net' \in NetRec
    BY <2>1, <2>3 DEF NetRec
  <2>5. thread' \in [Thread -> ThreadRec]
    <3>1. (IF reached = Others(At(t)) THEN "wait_dps" ELSE "failed") \in ThreadPc
      BY DEF ThreadPc
    <3>. QED  BY <2>1, <3>1, GotoType
  <2>. QED  BY <1>3, <2>4, <2>5 DEF TypeOK, ForwardQuery
<1>4. ASSUME NEW d \in DP, TakeDpToken(t, d)
      PROVE  TypeOK'
  <2>1. chan' \in [Server -> ChanRec]
    BY <1>4 DEF TakeDpToken, ChanRec
  <2>2. thread' \in [Thread -> ThreadRec]
    BY <1>4 DEF TakeDpToken, ThreadRec
  <2>. QED  BY <1>4, <2>1, <2>2 DEF TypeOK, TakeDpToken
<1>. QED  BY <1>1, <1>2, <1>3, <1>4

LEMMA PhaseType ==
  ASSUME TypeOK, NEW t \in Thread,
         \/ SkipShuffling(t) \/ StartShuffling(t) \/ EndShuffling(t)
         \/ SkipTagging(t) \/ StartTagging(t) \/ EndTagging(t)
         \/ BroadcastDDTfinished(t) \/ \E s \in Server : HandleDDTfinished(t, s)
         \/ TimeOut(t)
  PROVE  TypeOK'
<1>0. /\ At(t) \in Server /\ Asker(t) \in Querier
      /\ thread \in [Thread -> ThreadRec] /\ thread[t] \in ThreadRec
      /\ agg \in [Thread -> AggRec] /\ agg[t] \in AggRec
      /\ survey \in [Server -> SurveyRec] /\ survey[At(t)] \in SurveyRec
      /\ store \in [Server -> StoreRec] /\ store[At(t)] \in StoreRec
      /\ chan \in [Server -> ChanRec] /\ chan[At(t)] \in ChanRec
      /\ net \in NetRec
  BY ThreadFacts
<1>. USE <1>0
<1>1. CASE SkipShuffling(t)
  BY <1>1, GotoType DEF TypeOK, SkipShuffling, ThreadPc
<1>2. CASE StartShuffling(t)
  <2>1. [survey[At(t)] EXCEPT !.Lengths = "responses"] \in SurveyRec
    BY DEF SurveyRec
  <2>2. Responses(At(t)) \in SUBSET DP
    BY DEF Responses, StoreRec
  <2>3. thread' \in [Thread -> ThreadRec]
    BY <1>2, <2>1, <2>2, GotoPutType DEF StartShuffling, ThreadPc, PutPc
  <2>4. store' \in [Server -> StoreRec]
    BY <1>2 DEF StartShuffling, StoreRec
  <2>. QED  BY <1>2, <2>3, <2>4 DEF TypeOK, StartShuffling
<1>3. CASE EndShuffling(t)
  <2>1. thread' \in [Thread -> ThreadRec]
    BY <1>3, GotoPutType DEF EndShuffling, ThreadPc, PutPc
  <2>2. thread[t].held \in SUBSET DP
    BY DEF ThreadRec
  <2>3. store' \in [Server -> StoreRec]
    BY <1>3, <2>2 DEF EndShuffling, StoreRec
  <2>. QED  BY <1>3, <2>1, <2>3 DEF TypeOK, EndShuffling
<1>4. CASE SkipTagging(t)
  BY <1>4, GotoType DEF TypeOK, SkipTagging, ThreadPc
<1>5. CASE StartTagging(t)
  <2>1. store[At(t)].ShuffledProcessResponses \in SUBSET DP
    BY DEF StoreRec
  <2>2. [survey[At(t)] EXCEPT !.TargetOfSwitch = store[At(t)].ShuffledProcessResponses] \in SurveyRec
    BY <2>1 DEF SurveyRec
  <2>3. thread' \in [Thread -> ThreadRec]
    BY <1>5, <2>1, <2>2, GotoPutType DEF StartTagging, ThreadPc, PutPc
  <2>4. store' \in [Server -> StoreRec]
    BY <1>5 DEF StartTagging, StoreRec
  <2>. QED  BY <1>5, <2>3, <2>4 DEF TypeOK, StartTagging
<1>6. CASE EndTagging(t)
  <2>1. thread' \in [Thread -> ThreadRec]
    BY <1>6, GotoPutType DEF EndTagging, ThreadPc, PutPc
  <2>2. survey[At(t)].TargetOfSwitch \in SUBSET DP
    BY DEF SurveyRec
  <2>3. store' \in [Server -> StoreRec]
    BY <1>6, <2>2 DEF EndTagging, FilterResponses, StoreRec
  <2>. QED  BY <1>6, <2>1, <2>3 DEF TypeOK, EndTagging
<1>7. CASE BroadcastDDTfinished(t)
  <2>1. PICK reached \in SendISMOthers(At(t)) :
          /\ net' = [net EXCEPT !.ddt = @ \cup ({t} \X reached)]
          /\ Goto(t, IF reached # Others(At(t)) THEN "failed"
                     ELSE IF IsRoot(t) THEN "aggregate" ELSE "done")
    BY <1>7 DEF BroadcastDDTfinished
  <2>2. {t} \X reached \subseteq Thread \X Server
    BY DEF SendISMOthers, Others
  <2>3. net' \in NetRec
    BY <2>1, <2>2 DEF NetRec
  <2>4. thread' \in [Thread -> ThreadRec]
    <3>1. (IF reached # Others(At(t)) THEN "failed"
           ELSE IF IsRoot(t) THEN "aggregate" ELSE "done") \in ThreadPc
      BY DEF ThreadPc
    <3>. QED  BY <2>1, <3>1, GotoType
  <2>. QED  BY <1>7, <2>3, <2>4 DEF TypeOK, BroadcastDDTfinished
<1>8. ASSUME NEW s \in Server, HandleDDTfinished(t, s)
      PROVE  TypeOK'
  <2>1. net' \in NetRec
    BY <1>8 DEF HandleDDTfinished, NetRec
  <2>2. chan' \in [Server -> ChanRec]
    BY <1>8 DEF HandleDDTfinished, ChanRec
  <2>. QED  BY <1>8, <2>1, <2>2 DEF TypeOK, HandleDDTfinished
<1>9. CASE TimeOut(t)
  BY <1>9, GotoType DEF TypeOK, TimeOut, ThreadPc
<1>. QED  BY <1>1, <1>2, <1>3, <1>4, <1>5, <1>6, <1>7, <1>8, <1>9

LEMMA AggregationType ==
  ASSUME TypeOK, NEW t \in Thread, RunAggregation(t) \/ EndAggregation(t)
  PROVE  TypeOK'
<1>0. /\ At(t) \in Server /\ Asker(t) \in Querier
      /\ thread \in [Thread -> ThreadRec] /\ thread[t] \in ThreadRec
      /\ agg \in [Thread -> AggRec] /\ agg[t] \in AggRec
      /\ survey \in [Server -> SurveyRec] /\ survey[At(t)] \in SurveyRec
      /\ store \in [Server -> StoreRec] /\ store[At(t)] \in StoreRec
      /\ chan \in [Server -> ChanRec] /\ chan[At(t)] \in ChanRec
      /\ net \in NetRec
  BY ThreadFacts
<1>. USE <1>0
<1>1. CASE StartAggregation(t)
  <2>1. thread' \in [Thread -> ThreadRec]
    BY <1>1, GotoType DEF StartAggregation, ThreadPc
  <2>2. net' \in NetRec
    BY <1>1 DEF StartAggregation, NetRec
  <2>3. store[At(t)].LocAggregatedProcessResponse \in SUBSET DP
    BY DEF StoreRec
  <2>4. agg' \in [Thread -> AggRec]
    <3>. DEFINE held == store[At(t)].LocAggregatedProcessResponse
                copy == survey[At(t)]
                new == [agg[t] EXCEPT !.pc = "put", !.copy = copy, !.held = held]
    <3>1. new \in AggRec
      <4>. HIDE DEF held, copy
      <4>1. copy \in SurveyRec /\ held \in SUBSET DP /\ agg[t] \in AggRec
        BY <2>3 DEF copy, held
      <4>. QED  BY <4>1 DEF AggRec
    <3>2. agg' = [agg EXCEPT ![t] = new]
      BY <1>1 DEF StartAggregation
    <3>. HIDE DEF new
    <3>. QED  BY <3>1, <3>2
  <2>5. store' \in [Server -> StoreRec]
    BY <1>1 DEF StartAggregation, StoreRec
  <2>. QED  BY <1>1, <2>1, <2>2, <2>4, <2>5 DEF TypeOK, StartAggregation
<1>2. CASE PutPulled(t)
  <2>1. agg[t].copy \in SurveyRec
    BY DEF AggRec
  <2>2. survey' \in [Server -> SurveyRec]
    BY <1>2, <2>1 DEF PutPulled
  <2>3. agg' \in [Thread -> AggRec]
    BY <1>2 DEF PutPulled, AggRec
  <2>. QED  BY <1>2, <2>2, <2>3 DEF TypeOK, PutPulled
<1>3. CASE EnterAggregation(t)
  <2>1. (IF IsRoot(t) THEN {Asker(t)} \X Others(At(t)) ELSE {}) \subseteq Thread
    BY DEF Thread, Others
  <2>2. net' \in NetRec
    BY <1>3, <2>1 DEF EnterAggregation, NetRec
  <2>3. agg' \in [Thread -> AggRec]
    BY <1>3 DEF EnterAggregation, AggRec
  <2>. QED  BY <1>3, <2>2, <2>3 DEF TypeOK, EnterAggregation
<1>4. ASSUME NEW token \in Thread, TakeDDTToken(t, token)
      PROVE  TypeOK'
  <2>1. chan' \in [Server -> ChanRec]
    BY <1>4 DEF TakeDDTToken, ChanRec
  <2>2. agg' \in [Thread -> AggRec]
    BY <1>4 DEF TakeDDTToken, AggRec
  <2>. QED  BY <1>4, <2>1, <2>2 DEF TypeOK, TakeDDTToken
<1>5. CASE EndAggregation(t)
  <2>1. thread' \in [Thread -> ThreadRec]
    BY <1>5, GotoPutType DEF EndAggregation, ThreadPc, PutPc
  <2>2. UNION {agg[u].held : u \in Round(Asker(t))} \in SUBSET DP
    <3>1. \A u \in Round(Asker(t)) : agg[u] \in AggRec
      BY DEF Round, Thread
    <3>2. \A u \in Round(Asker(t)) : agg[u].held \subseteq DP
      BY <3>1 DEF AggRec
    <3>. QED  BY <3>2
  <2>3. store' \in [Server -> StoreRec]
    BY <1>5, <2>2 DEF EndAggregation, StoreRec
  <2>. QED  BY <1>5, <2>1, <2>3 DEF TypeOK, EndAggregation
<1>. QED  BY <1>1, <1>2, <1>3, <1>4, <1>5 DEF RunAggregation

LEMMA SwitchingType ==
  ASSUME TypeOK, NEW t \in Thread,
         StartKeySwitching(t) \/ RereadSurvey(t) \/ EndKeySwitching(t) \/ DeliverResults(t)
  PROVE  TypeOK'
<1>0. /\ At(t) \in Server /\ Asker(t) \in Querier
      /\ thread \in [Thread -> ThreadRec] /\ thread[t] \in ThreadRec
      /\ agg \in [Thread -> AggRec] /\ agg[t] \in AggRec
      /\ survey \in [Server -> SurveyRec] /\ survey[At(t)] \in SurveyRec
      /\ store \in [Server -> StoreRec] /\ store[At(t)] \in StoreRec
      /\ chan \in [Server -> ChanRec] /\ chan[At(t)] \in ChanRec
      /\ net \in NetRec
  BY ThreadFacts
<1>. USE <1>0
<1>1. CASE StartKeySwitching(t)
  <2>1. [survey[At(t)] EXCEPT !.Lengths = "results"] \in SurveyRec
    BY DEF SurveyRec
  <2>2. /\ store[At(t)].GroupedDeterministicFilteredResponses \in SUBSET DP
        /\ survey[At(t)].ClientPubKey \in Key
    BY DEF StoreRec, SurveyRec
  <2>3. thread' \in [Thread -> ThreadRec]
    <3>. DEFINE held == store[At(t)].GroupedDeterministicFilteredResponses
                copy == [survey[At(t)] EXCEPT !.Lengths = "results"]
                key == survey[At(t)].ClientPubKey
                new == [thread[t] EXCEPT !.pc = "put_results", !.copy = copy,
                                         !.held = held, !.key = key]
    <3>1. "put_results" \in ThreadPc
      BY DEF ThreadPc, PutPc
    <3>2. new \in ThreadRec
      <4>. HIDE DEF held, copy, key
      <4>1. copy \in SurveyRec /\ held \in SUBSET DP /\ key \in Key /\ thread[t] \in ThreadRec
        BY <2>1, <2>2 DEF copy, held, key
      <4>. QED  BY <3>1, <4>1 DEF ThreadRec
    <3>3. thread' = [thread EXCEPT ![t] = new]
      BY <1>1 DEF StartKeySwitching
    <3>. HIDE DEF new
    <3>. QED  BY <3>2, <3>3
  <2>4. store' \in [Server -> StoreRec]
    BY <1>1 DEF StartKeySwitching, StoreRec
  <2>. QED  BY <1>1, <2>3, <2>4 DEF TypeOK, StartKeySwitching
<1>2. CASE RereadSurvey(t)
  <2>1. thread[t].held \in SUBSET DP
    BY DEF ThreadRec
  <2>2. thread' \in [Thread -> ThreadRec]
    BY <1>2, <2>1, GotoPutType DEF RereadSurvey, ThreadPc
  <2>. QED  BY <1>2, <2>2 DEF TypeOK, RereadSurvey
<1>3. CASE EndKeySwitching(t)
  <2>1. thread' \in [Thread -> ThreadRec]
    BY <1>3, GotoType DEF EndKeySwitching, ThreadPc, PutPc
  <2>2. [data |-> thread[t].held, key |-> thread[t].key] \in Result
    BY DEF ThreadRec, Result
  <2>3. store' \in [Server -> StoreRec]
    BY <1>3, <2>2 DEF EndKeySwitching, StoreRec
  <2>. QED  BY <1>3, <2>1, <2>3 DEF TypeOK, EndKeySwitching
<1>4. CASE DeliverResults(t)
  <2>1. thread' \in [Thread -> ThreadRec]
    BY <1>4, GotoPutType DEF DeliverResults, ThreadPc, PutPc
  <2>2. store[At(t)].DeliverableResults \in Result
    BY DEF StoreRec
  <2>3. [store[At(t)].DeliverableResults EXCEPT !.data = {}] \in Result
    BY <2>2 DEF Result
  <2>4. store' \in [Server -> StoreRec]
    BY <1>4, <2>3 DEF DeliverResults, StoreRec
  <2>5. [querier |-> Asker(t), data |-> store[At(t)].DeliverableResults.data,
         key |-> store[At(t)].DeliverableResults.key]
          \in [querier : Querier, data : SUBSET DP, key : Key]
    BY <2>2 DEF Result
  <2>6. answer' \subseteq [querier : Querier, data : SUBSET DP, key : Key]
    BY <1>4, <2>5 DEF DeliverResults, TypeOK
  <2>. QED  BY <1>4, <2>1, <2>4, <2>6 DEF TypeOK, DeliverResults
<1>. QED  BY <1>1, <1>2, <1>3, <1>4

(* Type correctness: no step of any handler leaves the types of the        *)
(* service's state.                                                        *)
THEOREM TypeCorrect == Spec => []TypeOK
<1>0. CreationKey \in Key
  BY ClientAssumption DEF Key
<1>1. Init => TypeOK
  BY <1>0, ServerAssumption DEF Init, TypeOK, NewSurvey, SurveyRec, Key, StoreRec, Result, ChanRec,
     UploadRec, ThreadRec, ThreadPc, PutPc, AggRec, NetRec, CreationPc
<1>2. TypeOK /\ [Next]_vars => TypeOK'
  <2>. SUFFICES ASSUME TypeOK, [Next]_vars  PROVE TypeOK'
    OBVIOUS
  <2>1. CASE Create
    BY <2>1, CreateType
  <2>2. ASSUME NEW d \in DP, Upload(d)  PROVE TypeOK'
    BY <2>2, UploadType
  <2>3. ASSUME NEW t \in Thread, RunService(t)  PROVE TypeOK'
    BY <2>3, QueryType, PhaseType, AggregationType, SwitchingType DEF RunService
  <2>4. ASSUME NEW t \in Thread, RunAggregation(t)  PROVE TypeOK'
    BY <2>4, AggregationType
  <2>5. CASE UNCHANGED vars
    BY <2>5 DEF vars, TypeOK
  <2>. QED  BY <2>1, <2>2, <2>3, <2>4, <2>5 DEF Next
<1>. QED  BY <1>1, <1>2, PTL DEF Spec

-----------------------------------------------------------------------------
(***************************************************************************)
(* The two barriers of the service: the acknowledgements a survey's        *)
(* creation waits for (SurveyChannel), and the DDTfinished messages an     *)
(* aggregation waits for (DDTChannel).                                     *)
(***************************************************************************)
(***************************************************************************)
(* The creation barrier.  NoUnknownSurvey is not inductive: that the       *)
(* creator's loop ends with every server in "known" follows from where     *)
(* the acknowledgements it counts come from.                               *)
(***************************************************************************)

(* A handler that has begun has put the survey, the creator's first.       *)
HasEntry ==
  /\ \A s \in Server : creation[s] # "none" => s \in known
  /\ net.create \cup known # {} => Creator \in known

(* Only the other servers receive the creation query and acknowledge it.   *)
OthersAcknowledge ==
  /\ creation[Creator] # "ack"
  /\ net.create \subseteq Others(Creator)

(* An acknowledgement, sent, queued or counted, is that of another server  *)
(* which has the survey.                                                   *)
AcksFromKnown == net.created \cup chan[Creator].survey \cup acks \subseteq known \ {Creator}

(* Before the survey's ID is returned nobody runs a results query.         *)
Quiet ==
  /\ \A t \in Thread : thread[t].pc = "idle" /\ agg[t].pc = "none"
  /\ net.query = {} /\ net.ddt = {} /\ net.announce = {}

CreationInv ==
  /\ HasEntry
  /\ OthersAcknowledge
  /\ AcksFromKnown
  /\ Announced => known = Server
  /\ ~ Announced => Quiet

(* The loop over SurveyChannel counts to the number of the other servers:  *)
(* when it ends each of them has acknowledged.                             *)
LEMMA AllAcksMeansAll ==
  ASSUME acks \subseteq Others(Creator), AllAcks
  PROVE  acks = Others(Creator)
<1>1. /\ IsFiniteSet(Others(Creator))
      /\ Cardinality(Others(Creator)) = Cardinality(Server) - 1
      /\ Cardinality(Server) \in Nat
  BY ServerAssumption, FS_RemoveElement, FS_CardinalityType DEF Others
<1>2. /\ IsFiniteSet(acks)
      /\ Cardinality(acks) <= Cardinality(Others(Creator))
      /\ Cardinality(Others(Creator)) = Cardinality(acks) => Others(Creator) = acks
  BY <1>1, FS_Subset
<1>3. Cardinality(acks) \in Nat
  BY <1>2, FS_CardinalityType
<1>4. Cardinality(acks) = Cardinality(Others(Creator))
  BY <1>1, <1>2, <1>3 DEF AllAcks
<1>. QED  BY <1>2, <1>4

(* What uploads and results queries leave alone.                           *)
CreationFrame ==
  /\ known' = known /\ creation' = creation /\ acks' = acks
  /\ net'.create = net.create /\ net'.created = net.created
  /\ chan'[Creator].survey = chan[Creator].survey

LEMMA UploadFrame ==
  ASSUME TypeOK, NEW d \in DP, Upload(d)
  PROVE  CreationFrame /\ thread' = thread /\ agg' = agg /\ net' = net
<1>. USE ServerAssumption DEF TypeOK, ChanRec, CreationFrame
<1>1. CASE StartUpload(d)      BY <1>1 DEF StartUpload
<1>2. CASE ReadResponses(d)    BY <1>2 DEF ReadResponses
<1>3. CASE InsertDpResponse(d) BY <1>3 DEF InsertDpResponse
<1>4. CASE PutUpload(d)        BY <1>4 DEF PutUpload
<1>5. CASE SendDpToken(d)      BY <1>5 DEF SendDpToken
<1>. QED  BY <1>1, <1>2, <1>3, <1>4, <1>5 DEF Upload

LEMMA QueryFrame ==
  ASSUME TypeOK, NEW t \in Thread, RunService(t) \/ RunAggregation(t)
  PROVE  CreationFrame
<1>. USE ServerAssumption DEF TypeOK, ChanRec, NetRec, CreationFrame
<1>1. CASE HandleSurveyResultsQuery(t)  BY <1>1 DEF HandleSurveyResultsQuery
<1>2. CASE PutSurvey(t)                 BY <1>2 DEF PutSurvey
<1>3. CASE ForwardQuery(t)              BY <1>3 DEF ForwardQuery
<1>4. ASSUME NEW d \in DP, TakeDpToken(t, d)  PROVE CreationFrame
  BY <1>4 DEF TakeDpToken
<1>5. CASE SkipShuffling(t)         BY <1>5 DEF SkipShuffling
<1>6. CASE StartShuffling(t)        BY <1>6 DEF StartShuffling
<1>7. CASE EndShuffling(t)          BY <1>7 DEF EndShuffling
<1>8. CASE SkipTagging(t)           BY <1>8 DEF SkipTagging
<1>9. CASE StartTagging(t)          BY <1>9 DEF StartTagging
<1>10. CASE EndTagging(t)           BY <1>10 DEF EndTagging
<1>11. CASE BroadcastDDTfinished(t) BY <1>11 DEF BroadcastDDTfinished
<1>12. ASSUME NEW s \in Server, HandleDDTfinished(t, s)  PROVE CreationFrame
  BY <1>12 DEF HandleDDTfinished
<1>13. CASE EndAggregation(t)       BY <1>13 DEF EndAggregation
<1>14. CASE StartKeySwitching(t)    BY <1>14 DEF StartKeySwitching
<1>15. CASE RereadSurvey(t)         BY <1>15 DEF RereadSurvey
<1>16. CASE EndKeySwitching(t)      BY <1>16 DEF EndKeySwitching
<1>17. CASE DeliverResults(t)       BY <1>17 DEF DeliverResults
<1>18. CASE TimeOut(t)              BY <1>18 DEF TimeOut
<1>19. CASE StartAggregation(t)     BY <1>19 DEF StartAggregation
<1>20. CASE PutPulled(t)            BY <1>20 DEF PutPulled
<1>21. CASE EnterAggregation(t)     BY <1>21 DEF EnterAggregation
<1>22. ASSUME NEW token \in Thread, TakeDDTToken(t, token)  PROVE CreationFrame
  BY <1>22 DEF TakeDDTToken
<1>23. CASE RunService(t)
  BY <1>1, <1>2, <1>3, <1>4, <1>5, <1>6, <1>7, <1>8, <1>9, <1>10, <1>11, <1>12,
     <1>13, <1>14, <1>15, <1>16, <1>17, <1>18, <1>23 DEF RunService
<1>24. CASE RunAggregation(t)
  BY <1>19, <1>20, <1>21, <1>22, <1>24 DEF RunAggregation
<1>. QED  BY <1>23, <1>24

(* While the service is quiet no thread can take a step.                   *)
LEMMA QuietMeansNoQuery ==
  ASSUME NEW t \in Thread, ~ Announced, Quiet
  PROVE  ~ RunService(t) /\ ~ RunAggregation(t)
<1>1. /\ thread[t].pc = "idle" /\ agg[t].pc = "none"
      /\ net.query = {} /\ net.ddt = {} /\ net.announce = {}
  BY DEF Quiet
<1>2. ~ RunAggregation(t)
  BY <1>1 DEF RunAggregation, StartAggregation, PutPulled, EnterAggregation, TakeDDTToken
<1>3. ~ HandleSurveyResultsQuery(t)
  BY <1>1 DEF HandleSurveyResultsQuery, MayAsk
<1>4. ~ PutSurvey(t) /\ ~ ForwardQuery(t)
  BY <1>1 DEF PutSurvey, PutPc, ForwardQuery
<1>5. \A d \in DP : ~ TakeDpToken(t, d)
  BY <1>1 DEF TakeDpToken
<1>6. ~ SkipShuffling(t) /\ ~ StartShuffling(t) /\ ~ EndShuffling(t)
  BY <1>1 DEF SkipShuffling, StartShuffling, EndShuffling
<1>7. ~ SkipTagging(t) /\ ~ StartTagging(t) /\ ~ EndTagging(t)
  BY <1>1 DEF SkipTagging, StartTagging, EndTagging
<1>8. ~ BroadcastDDTfinished(t) /\ \A s \in Server : ~ HandleDDTfinished(t, s)
  BY <1>1 DEF BroadcastDDTfinished, HandleDDTfinished
<1>9. ~ EndAggregation(t) /\ ~ StartKeySwitching(t) /\ ~ RereadSurvey(t)
  BY <1>1 DEF EndAggregation, StartKeySwitching, RereadSurvey
<1>10. ~ EndKeySwitching(t) /\ ~ DeliverResults(t) /\ ~ TimeOut(t)
  BY <1>1 DEF EndKeySwitching, DeliverResults, TimeOut
<1>. QED  BY <1>2, <1>3, <1>4, <1>5, <1>6, <1>7, <1>8, <1>9, <1>10 DEF RunService

LEMMA CreationInvInit == Init => CreationInv
BY ServerAssumption DEF Init, CreationInv, HasEntry, OthersAcknowledge, AcksFromKnown,
   Quiet, Announced

LEMMA CreatePreserves ==
  ASSUME TypeOK, CreationInv, Create
  PROVE  CreationInv'
<1>. USE ServerAssumption
     DEF TypeOK, ChanRec, NetRec, CreationInv, HasEntry, OthersAcknowledge, AcksFromKnown,
         Quiet, Announced, Others
<1>1. CASE CreateSurvey
  BY <1>1 DEF CreateSurvey
<1>2. CASE BroadcastCreation
  <2>1. PICK reached \in SendISMOthers(Creator) :
          /\ net' = [net EXCEPT !.create = @ \cup reached]
          /\ creation' = [creation EXCEPT ![Creator] =
                            IF reached = Others(Creator) THEN AfterBroadcast(Creator)
                            ELSE "failed"]
    BY <1>2 DEF BroadcastCreation
  <2>2. /\ reached \subseteq Others(Creator)
        /\ creation[Creator] = "broadcast"
        /\ UNCHANGED <<known, chan, acks, thread, agg>>
    BY <1>2 DEF BroadcastCreation, SendISMOthers
  <2>3. AfterBroadcast(Creator) \in {"loading", "waiting"}
    BY DEF AfterBroadcast
  <2>. QED  BY <2>1, <2>2, <2>3
<1>3. ASSUME NEW s \in Server, ReceiveCreation(s)
      PROVE  CreationInv'
  BY <1>3 DEF ReceiveCreation
<1>4. ASSUME NEW s \in Server, AckCreation(s)
      PROVE  CreationInv'
  <2>1. s # Creator /\ s \in known
    BY <1>4 DEF AckCreation
  <2>2. creation'[Creator] = creation[Creator]
    BY <1>4, <2>1 DEF AckCreation
  <2>3. \A r \in Server : creation'[r] # "none" => creation[r] # "none"
    BY <1>4 DEF AckCreation
  <2>4. /\ net'.created \subseteq net.created \cup {s}
        /\ net'.create = net.create /\ net'.query = net.query
        /\ net'.ddt = net.ddt /\ net'.announce = net.announce
    BY <1>4 DEF AckCreation
  <2>5. UNCHANGED <<known, chan, acks, thread, agg>>
    BY <1>4 DEF AckCreation
  <2>. QED  BY <2>1, <2>2, <2>3, <2>4, <2>5
<1>5. ASSUME NEW s \in Server, DataLoaded(s)
      PROVE  CreationInv'
  BY <1>5 DEF DataLoaded
<1>6. ASSUME NEW i \in Server, HandleQueryBroadcastFinished(i)
      PROVE  CreationInv'
  BY <1>6 DEF HandleQueryBroadcastFinished
<1>7. ASSUME NEW i \in Server, TakeAck(i)
      PROVE  CreationInv'
  BY <1>7 DEF TakeAck
<1>8. CASE ReturnSurveyID
  <2>1. acks = Others(Creator)
    BY <1>8, AllAcksMeansAll DEF ReturnSurveyID
  <2>2. known = Server
    BY <1>8, <2>1 DEF ReturnSurveyID
  <2>. QED  BY <1>8, <2>2 DEF ReturnSurveyID
<1>. QED  BY <1>1, <1>2, <1>3, <1>4, <1>5, <1>6, <1>7, <1>8 DEF Create

LEMMA CreationInvStep ==
  ASSUME TypeOK, CreationInv, [Next]_vars
  PROVE  CreationInv'
<1>1. CASE Create
  BY <1>1, CreatePreserves
<1>2. ASSUME NEW d \in DP, Upload(d)  PROVE CreationInv'
  BY <1>2, UploadFrame
     DEF CreationFrame, CreationInv, HasEntry, OthersAcknowledge, AcksFromKnown, Quiet, Announced
<1>3. ASSUME NEW t \in Thread, RunService(t) \/ RunAggregation(t)  PROVE CreationInv'
  <2>1. Announced
    BY <1>3, QuietMeansNoQuery DEF CreationInv
  <2>. QED
    BY <1>3, <2>1, QueryFrame
       DEF CreationFrame, CreationInv, HasEntry, OthersAcknowledge, AcksFromKnown, Announced
<1>4. CASE UNCHANGED vars
  BY <1>4
     DEF vars, CreationInv, HasEntry, OthersAcknowledge, AcksFromKnown, Quiet, Announced
<1>. QED  BY <1>1, <1>2, <1>3, <1>4 DEF Next

LEMMA CreationInvImplies ==
  ASSUME TypeOK, CreationInv
  PROVE  NoUnknownSurvey
<1>1. CASE Announced
  <2>1. known = Server
    BY <1>1 DEF CreationInv
  <2>2. \A t \in net.query \cup net.announce : At(t) \in Server
    BY ThreadType DEF TypeOK, NetRec
  <2>3. \A m \in net.ddt : m[2] \in Server
    BY DEF TypeOK, NetRec
  <2>. QED  BY <2>1, <2>2, <2>3, ServerAssumption DEF NoUnknownSurvey
<1>2. CASE ~ Announced
  <2>1. net.created # {} => Creator \in known
    BY DEF CreationInv, HasEntry, AcksFromKnown
  <2>. QED  BY <1>2, <2>1 DEF CreationInv, Quiet, NoUnknownSurvey
<1>. QED  BY <1>1, <1>2

(* A client that has the survey's ID finds the survey at every server, and *)
(* so does every message of the servers: no handler ever fails to find it, *)
(* whatever sends fail and whatever phases time out.                       *)
THEOREM CreationBarrier == Spec => []NoUnknownSurvey
<1>1. CreationInv /\ TypeOK /\ [Next]_vars => CreationInv'
  BY CreationInvStep
<1>2. CreationInv /\ TypeOK => NoUnknownSurvey
  BY CreationInvImplies
<1>. QED  BY <1>1, <1>2, CreationInvInit, TypeCorrect, PTL DEF Spec

-----------------------------------------------------------------------------
(***************************************************************************)
(* The tagging barrier, for one results query per survey.  (With two, the  *)
(* tokens of one query are counted by the other and the property fails.)   *)
(***************************************************************************)

(* What the barrier guarantees for any set X of threads that have done     *)
(* something before they broadcast DDTfinished: a DDTfinished message,     *)
(* sent, queued or counted, is that of another server's thread in X, a     *)
(* thread whose server aggregates is in X, and the root announces the      *)
(* aggregation, and a server goes on to aggregate, only when the whole     *)
(* round is in X.                                                          *)
BarrierInv(X) ==
  /\ \A m \in net.ddt : m[1] \in X /\ At(m[1]) # m[2]
  /\ \A s \in Server : \A u \in chan[s].ddt : u \in X /\ At(u) # s
  /\ \A t \in Thread : \A u \in agg[t].taken : u \in X /\ At(u) # At(t)
  /\ \A t \in net.announce : Round(Asker(t)) \subseteq X
  /\ \A t \in Thread : agg[t].pc # "none" => t \in X
  /\ \A t \in Thread : agg[t].pc = "in" => Round(Asker(t)) \subseteq X

(* The tokens one server counts are those of n - 1 different servers.      *)
LEMMA AllTaggedMeansAll ==
  ASSUME \A q, r \in Querier : q = r,
         NEW t \in Thread, agg[t].taken \subseteq Thread,
         \A u \in agg[t].taken : At(u) # At(t),
         AllTagged(t)
  PROVE  \A u \in Round(Asker(t)) : u = t \/ u \in agg[t].taken
<1>. DEFINE q == Asker(t)
            R == Others(At(t))
            S == {q} \X R
            f == [x \in R |-> <<q, x>>]
<1>1. /\ IsFiniteSet(R)
      /\ Cardinality(R) = Cardinality(Server) - 1
      /\ Cardinality(Server) \in Nat
  BY ThreadType, ServerAssumption, FS_RemoveElement, FS_CardinalityType DEF Others
<1>2. f \in Bijection(R, S)
  <2>1. f \in [R -> S]
    OBVIOUS
  <2>2. IsInjective(f)
    BY DEF IsInjective
  <2>3. ASSUME NEW u \in S  PROVE \E x \in R : f[x] = u
    <3>1. u[2] \in R /\ f[u[2]] = u
      OBVIOUS
    <3>. QED  BY <3>1
  <2>. HIDE DEF f, S, R
  <2>. QED  BY <2>1, <2>2, <2>3 DEF Bijection, Injection, Surjection
<1>3. IsFiniteSet(S) /\ Cardinality(S) = Cardinality(Server) - 1
  <2>. HIDE DEF R, S, f
  <2>1. ExistsBijection(R, S)
    BY <1>2 DEF ExistsBijection
  <2>. QED  BY <1>1, <2>1, FS_Bijection
<1>4. agg[t].taken \subseteq S
  <2>. SUFFICES ASSUME NEW u \in agg[t].taken  PROVE u \in S
    OBVIOUS
  <2>1. u \in Thread /\ At(u) \in R
    BY ThreadType DEF Others
  <2>2. u = <<Asker(u), At(u)>> /\ Asker(u) = q
    BY <2>1, ThreadType
  <2>. QED  BY <2>1, <2>2
<1>5. agg[t].taken = S
  <2>. HIDE DEF S
  <2>1. /\ IsFiniteSet(agg[t].taken)
        /\ Cardinality(agg[t].taken) <= Cardinality(S)
        /\ Cardinality(S) = Cardinality(agg[t].taken) => S = agg[t].taken
    BY <1>3, <1>4, FS_Subset
  <2>2. Cardinality(agg[t].taken) \in Nat
    BY <2>1, FS_CardinalityType
  <2>3. Cardinality(agg[t].taken) >= Cardinality(S)
    BY <1>3 DEF AllTagged
  <2>. QED  BY <1>1, <1>3, <2>1, <2>2, <2>3
<1>. SUFFICES ASSUME NEW u \in Round(q), u \notin agg[t].taken  PROVE u = t
  OBVIOUS
<1>6. u \in Thread /\ Asker(u) = q /\ At(u) \in Server
  BY ThreadType DEF Round, Thread, Asker, At
<1>7. At(u) \notin R
  BY <1>5, <1>6, ThreadType
<1>. QED  BY <1>6, <1>7, ThreadType DEF Others

(* A thread that has stored its tags never takes that back.                *)
LEMMA GotoTagged ==
  ASSUME TypeOK, NEW t \in Thread, NEW pc, Goto(t, pc),
         Tagged(t) => pc \in TaggedPc
  PROVE  \A u \in Thread : Tagged(u) => Tagged(u)'
BY DEF Goto, Tagged, TypeOK, ThreadRec

LEMMA GotoPutTagged ==
  ASSUME TypeOK, NEW t \in Thread, NEW pc, NEW copy, NEW held, GotoPut(t, pc, copy, held),
         Tagged(t) => pc \in TaggedPc
  PROVE  \A u \in Thread : Tagged(u) => Tagged(u)'
BY DEF GotoPut, Tagged, TypeOK, ThreadRec

LEMMA TaggedStable ==
  ASSUME TypeOK, NEW t \in Thread, RunService(t) \/ RunAggregation(t)
  PROVE  \A u \in Thread : Tagged(u) => Tagged(u)'
<1>. DEFINE Stable == \A u \in Thread : Tagged(u) => Tagged(u)'
<1>1. CASE HandleSurveyResultsQuery(t)
  BY <1>1, GotoPutTagged DEF HandleSurveyResultsQuery, Tagged, TaggedPc
<1>2. CASE PutSurvey(t)
  <2>1. Tagged(t) => AfterPut(t) \in TaggedPc
    BY <1>2 DEF PutSurvey, Tagged, TaggedPc, PutPc, AfterPut
  <2>. QED  BY <1>2, <2>1, GotoTagged DEF PutSurvey
<1>3. CASE ForwardQuery(t)
  BY <1>3, GotoTagged DEF ForwardQuery, Tagged, TaggedPc
<1>4. ASSUME NEW d \in DP, TakeDpToken(t, d)  PROVE Stable
  BY <1>4 DEF TakeDpToken, Tagged, TypeOK, ThreadRec
<1>5. CASE SkipShuffling(t) \/ SkipTagging(t) \/ EndKeySwitching(t) \/ TimeOut(t)
  BY <1>5, GotoTagged DEF SkipShuffling, SkipTagging, EndKeySwitching, TimeOut, Tagged, TaggedPc
<1>6. CASE StartShuffling(t) \/ EndShuffling(t) \/ StartTagging(t) \/ EndTagging(t)
  BY <1>6, GotoPutTagged
     DEF StartShuffling, EndShuffling, StartTagging, EndTagging, Tagged, TaggedPc
<1>7. CASE BroadcastDDTfinished(t)
  <2>1. PICK reached \in SendISMOthers(At(t)) :
          Goto(t, IF reached # Others(At(t)) THEN "failed"
                  ELSE IF IsRoot(t) THEN "aggregate" ELSE "done")
    BY <1>7 DEF BroadcastDDTfinished
  <2>. QED  BY <2>1, GotoTagged DEF TaggedPc
<1>8. ASSUME NEW s \in Server, HandleDDTfinished(t, s)  PROVE Stable
  BY <1>8 DEF HandleDDTfinished, Tagged
<1>9. CASE EndAggregation(t) \/ RereadSurvey(t) \/ DeliverResults(t)
  BY <1>9, GotoPutTagged DEF EndAggregation, RereadSurvey, DeliverResults, TaggedPc
<1>10. CASE StartKeySwitching(t)
  BY <1>10 DEF StartKeySwitching, Tagged, TaggedPc, TypeOK, ThreadRec
<1>11. CASE StartAggregation(t)
  <2>1. CASE thread' = thread
    BY <2>1 DEF Tagged
  <2>2. CASE Goto(t, "aggregating")
    BY <2>2, GotoTagged DEF TaggedPc
  <2>. QED  BY <1>11, <2>1, <2>2 DEF StartAggregation
<1>12. CASE PutPulled(t) \/ EnterAggregation(t)
  BY <1>12 DEF PutPulled, EnterAggregation, Tagged
<1>13. ASSUME NEW token \in Thread, TakeDDTToken(t, token)  PROVE Stable
  BY <1>13 DEF TakeDDTToken, Tagged
<1>14. CASE RunService(t)
  BY <1>1, <1>2, <1>3, <1>4, <1>5, <1>6, <1>7, <1>8, <1>9, <1>10, <1>14 DEF RunService
<1>15. CASE RunAggregation(t)
  BY <1>11, <1>12, <1>13, <1>15 DEF RunAggregation
<1>. QED  BY <1>14, <1>15

(* Steps that touch neither the tokens nor the aggregation instances.      *)
TagFrame ==
  /\ net'.ddt \subseteq net.ddt /\ net'.announce \subseteq net.announce
  /\ \A s \in Server : chan'[s].ddt \subseteq chan[s].ddt
  /\ agg' = agg

LEMMA RoundType ==
  ASSUME NEW t \in Thread
  PROVE  t \in Round(Asker(t)) /\ Round(Asker(t)) \subseteq Thread
BY ThreadType DEF Round, Thread

LEMMA TokenTypes ==
  ASSUME TypeOK
  PROVE  /\ \A m \in net.ddt : m[1] \in Thread /\ m[2] \in Server
         /\ net.announce \subseteq Thread
         /\ \A s \in Server : chan[s].ddt \subseteq Thread
         /\ \A t \in Thread : agg[t].taken \subseteq Thread
BY DEF TypeOK, NetRec, ChanRec, AggRec

LEMMA TagFrameStep ==
  ASSUME NEW X, BarrierInv(X), TagFrame
  PROVE  BarrierInv(X)'
BY DEF TagFrame, BarrierInv

LEMMA CreateTagFrame ==
  ASSUME TypeOK, Create
  PROVE  TagFrame
<1>. USE DEF TypeOK, ChanRec, NetRec, TagFrame
<1>1. CASE CreateSurvey       BY <1>1 DEF CreateSurvey
<1>2. CASE BroadcastCreation  BY <1>2 DEF BroadcastCreation
<1>3. ASSUME NEW s \in Server, ReceiveCreation(s) \/ AckCreation(s) \/ DataLoaded(s)
      PROVE  TagFrame
  <2>1. CASE ReceiveCreation(s)  BY <2>1 DEF ReceiveCreation
  <2>2. CASE AckCreation(s)      BY <2>2 DEF AckCreation
  <2>3. CASE DataLoaded(s)       BY <2>3 DEF DataLoaded
  <2>. QED  BY <1>3, <2>1, <2>2, <2>3
<1>4. ASSUME NEW i \in Server, HandleQueryBroadcastFinished(i) \/ TakeAck(i)
      PROVE  TagFrame
  <2>1. CASE HandleQueryBroadcastFinished(i)  BY <2>1 DEF HandleQueryBroadcastFinished
  <2>2. CASE TakeAck(i)                       BY <2>2 DEF TakeAck
  <2>. QED  BY <1>4, <2>1, <2>2
<1>5. CASE ReturnSurveyID     BY <1>5 DEF ReturnSurveyID
<1>. QED  BY <1>1, <1>2, <1>3, <1>4, <1>5 DEF Create

LEMMA CreateThreads ==
  ASSUME Create
  PROVE  thread' = thread
BY DEF Create, CreateSurvey, BroadcastCreation, ReceiveCreation, AckCreation, DataLoaded,
       HandleQueryBroadcastFinished, TakeAck, ReturnSurveyID

LEMMA UploadTagFrame ==
  ASSUME TypeOK, NEW d \in DP, Upload(d)
  PROVE  TagFrame
<1>1. CASE chan' = chan
  BY <1>1, UploadFrame DEF TagFrame
<1>2. CASE SendDpToken(d)
  BY <1>2, UploadFrame DEF SendDpToken, TypeOK, ChanRec, TagFrame
<1>. QED
  BY <1>1, <1>2 DEF Upload, StartUpload, ReadResponses, InsertDpResponse, PutUpload

LEMMA ServiceTagFrame ==
  ASSUME TypeOK, NEW t \in Thread, RunService(t),
         ~ BroadcastDDTfinished(t), \A s \in Server : ~ HandleDDTfinished(t, s)
  PROVE  TagFrame
<1>. USE DEF TypeOK, ChanRec, NetRec, TagFrame
<1>1. CASE HandleSurveyResultsQuery(t)  BY <1>1 DEF HandleSurveyResultsQuery
<1>2. CASE PutSurvey(t)                 BY <1>2 DEF PutSurvey
<1>3. CASE ForwardQuery(t)              BY <1>3 DEF ForwardQuery
<1>4. ASSUME NEW d \in DP, TakeDpToken(t, d)  PROVE TagFrame
  BY <1>4 DEF TakeDpToken
<1>5. CASE SkipShuffling(t) \/ StartShuffling(t) \/ EndShuffling(t)
  BY <1>5 DEF SkipShuffling, StartShuffling, EndShuffling
<1>6. CASE SkipTagging(t) \/ StartTagging(t) \/ EndTagging(t)
  BY <1>6 DEF SkipTagging, StartTagging, EndTagging
<1>7. CASE EndAggregation(t) \/ StartKeySwitching(t) \/ RereadSurvey(t)
  BY <1>7 DEF EndAggregation, StartKeySwitching, RereadSurvey
<1>8. CASE EndKeySwitching(t) \/ DeliverResults(t) \/ TimeOut(t)
  BY <1>8 DEF EndKeySwitching, DeliverResults, TimeOut
<1>. QED  BY <1>1, <1>2, <1>3, <1>4, <1>5, <1>6, <1>7, <1>8 DEF RunService

(* A server that counts one more token than it has taken from DDTChannel   *)
(* would break the barrier here.                                           *)
LEMMA EnterAggregationStep ==
  ASSUME \A q, r \in Querier : q = r,
         TypeOK, NEW X, BarrierInv(X), NEW t \in Thread, EnterAggregation(t)
  PROVE  BarrierInv(X)'
<1>1. Round(Asker(t)) \subseteq X
  <2>1. \A u \in Round(Asker(t)) : u = t \/ u \in agg[t].taken
    BY TokenTypes, AllTaggedMeansAll DEF EnterAggregation, BarrierInv
  <2>2. t \in X
    BY DEF BarrierInv, EnterAggregation
  <2>. QED  BY <2>1, <2>2 DEF BarrierInv
<1>2. /\ agg \in [Thread -> AggRec] /\ net \in NetRec /\ chan' = chan
      /\ agg' = [agg EXCEPT ![t].pc = "in"]
  BY DEF TypeOK, EnterAggregation
<1>3. /\ net'.ddt = net.ddt
      /\ \A v \in net'.announce : v \in net.announce \/ Asker(v) = Asker(t)
  BY <1>2 DEF EnterAggregation, NetRec, Asker
<1>4. \A u \in Thread : agg'[u].taken = agg[u].taken
  BY <1>2 DEF AggRec
<1>5. /\ agg'[t].pc = "in"
      /\ \A u \in Thread : u # t => agg'[u].pc = agg[u].pc
  BY <1>2 DEF AggRec
<1>. QED  BY <1>1, <1>2, <1>3, <1>4, <1>5, RoundType DEF BarrierInv

LEMMA StartAggregationStep ==
  ASSUME TypeOK, NEW X, BarrierInv(X), NEW t \in Thread, StartAggregation(t),
         thread[t].pc = "aggregate" => t \in X
  PROVE  BarrierInv(X)'
<1>1. t \in X
  BY RoundType DEF StartAggregation, BarrierInv
<1>2. /\ agg \in [Thread -> AggRec] /\ net \in NetRec /\ chan' = chan
      /\ \A u \in Thread : u # t => agg'[u] = agg[u]
      /\ agg'[t].pc = "put" /\ agg'[t].taken = agg[t].taken
  BY DEF TypeOK, StartAggregation, AggRec
<1>3. net'.ddt = net.ddt /\ net'.announce \subseteq net.announce
  BY <1>2 DEF StartAggregation, NetRec
<1>. QED  BY <1>1, <1>2, <1>3 DEF BarrierInv

LEMMA TokenStep ==
  ASSUME TypeOK, NEW X, BarrierInv(X), NEW t \in Thread,
         \/ BroadcastDDTfinished(t) /\ t \in X
         \/ \E s \in Server : HandleDDTfinished(t, s)
         \/ \E token \in Thread : TakeDDTToken(t, token)
         \/ PutPulled(t)
  PROVE  BarrierInv(X)'
<1>0. /\ agg \in [Thread -> AggRec] /\ net \in NetRec /\ chan \in [Server -> ChanRec]
      /\ At(t) \in Server
  BY ThreadType DEF TypeOK
<1>1. CASE BroadcastDDTfinished(t) /\ t \in X
  <2>1. chan' = chan /\ agg' = agg /\ net'.announce = net.announce
    BY <1>0, <1>1 DEF BroadcastDDTfinished, NetRec
  <2>2. \A m \in net'.ddt : m \in net.ddt \/ (m[1] = t /\ m[2] # At(t))
    BY <1>0, <1>1 DEF BroadcastDDTfinished, SendISMOthers, Others, NetRec
  <2>. QED  BY <1>1, <2>1, <2>2 DEF BarrierInv
<1>2. ASSUME NEW s \in Server, HandleDDTfinished(t, s)  PROVE BarrierInv(X)'
  <2>1. /\ <<t, s>> \in net.ddt /\ agg' = agg
        /\ net'.ddt \subseteq net.ddt /\ net'.announce = net.announce
    BY <1>0, <1>2 DEF HandleDDTfinished, NetRec
  <2>2. \A r \in Server : \A u \in chan'[r].ddt : u \in chan[r].ddt \/ (u = t /\ r = s)
    BY <1>0, <1>2 DEF HandleDDTfinished, ChanRec
  <2>3. t \in X /\ At(t) # s
    BY <2>1 DEF BarrierInv
  <2>. QED  BY <2>1, <2>2, <2>3 DEF BarrierInv
<1>3. ASSUME NEW token \in Thread, TakeDDTToken(t, token)  PROVE BarrierInv(X)'
  <2>1. token \in chan[At(t)].ddt /\ net' = net
    BY <1>3 DEF TakeDDTToken
  <2>2. \A r \in Server : chan'[r].ddt \subseteq chan[r].ddt
    BY <1>0, <1>3 DEF TakeDDTToken, ChanRec
  <2>3. \A v \in Thread :
          /\ agg'[v].pc = agg[v].pc
          /\ \A u \in agg'[v].taken : u \in agg[v].taken \/ (v = t /\ u = token)
    BY <1>0, <1>3 DEF TakeDDTToken, AggRec
  <2>4. token \in X /\ At(token) # At(t)
    BY <1>0, <2>1 DEF BarrierInv
  <2>. QED  BY <2>1, <2>2, <2>3, <2>4 DEF BarrierInv
<1>4. CASE PutPulled(t)
  <2>1. /\ net' = net /\ chan' = chan
        /\ \A v \in Thread : /\ agg'[v].taken = agg[v].taken
                             /\ agg'[v].pc = "in" => agg[v].pc = "in"
                             /\ agg'[v].pc # "none" => agg[v].pc # "none"
    BY <1>0, <1>4 DEF PutPulled, AggRec
  <2>. QED  BY <2>1 DEF BarrierInv
<1>. QED  BY <1>1, <1>2, <1>3, <1>4

LEMMA BarrierInvStep ==
  ASSUME \A q, r \in Querier : q = r, TypeOK, [Next]_vars,
         NEW X, BarrierInv(X),
         \A t \in Thread : thread[t].pc \in {"broadcast", "aggregate"} => t \in X
  PROVE  BarrierInv(X)'
<1>1. CASE Create
  BY <1>1, CreateTagFrame, TagFrameStep
<1>2. ASSUME NEW d \in DP, Upload(d)  PROVE BarrierInv(X)'
  BY <1>2, UploadTagFrame, TagFrameStep
<1>3. ASSUME NEW t \in Thread, RunService(t)  PROVE BarrierInv(X)'
  <2>1. CASE BroadcastDDTfinished(t)
    BY <2>1, TokenStep DEF BroadcastDDTfinished
  <2>2. CASE \E s \in Server : HandleDDTfinished(t, s)
    BY <2>2, TokenStep
  <2>. QED  BY <1>3, <2>1, <2>2, ServiceTagFrame, TagFrameStep
<1>4. ASSUME NEW t \in Thread, RunAggregation(t)  PROVE BarrierInv(X)'
  <2>1. CASE StartAggregation(t)
    BY <2>1, StartAggregationStep
  <2>2. CASE EnterAggregation(t)
    BY <2>2, EnterAggregationStep
  <2>. QED  BY <1>4, <2>1, <2>2, TokenStep DEF RunAggregation
<1>5. CASE UNCHANGED vars
  <2>1. TagFrame
    BY <1>5 DEF vars, TagFrame
  <2>. QED  BY <2>1, TagFrameStep
<1>. QED  BY <1>1, <1>2, <1>3, <1>4, <1>5 DEF Next

LEMMA BarrierInvMonotone ==
  ASSUME NEW X, NEW Y, X \subseteq Y, BarrierInv(X)
  PROVE  BarrierInv(Y)
BY DEF BarrierInv

LEMMA BarrierInvInit ==
  ASSUME NEW X, Init
  PROVE  BarrierInv(X)
BY ThreadType DEF Init, BarrierInv

TaggedThreads == {t \in Thread : Tagged(t)}
TagInv == BarrierInv(TaggedThreads)

LEMMA TagInvStep ==
  ASSUME \A q, r \in Querier : q = r, TypeOK, TagInv, [Next]_vars
  PROVE  TagInv'
<1>1. TaggedThreads \subseteq TaggedThreads'
  <2>1. CASE \E t \in Thread : RunService(t) \/ RunAggregation(t)
    BY <2>1, TaggedStable DEF TaggedThreads
  <2>2. CASE thread' = thread
    BY <2>2 DEF TaggedThreads, Tagged
  <2>. QED  BY <2>1, <2>2, UploadFrame, CreateThreads DEF Next, vars
<1>2. \A t \in Thread : thread[t].pc \in {"broadcast", "aggregate"} => t \in TaggedThreads
  BY DEF TaggedThreads, Tagged, TaggedPc
<1>3. PICK X : X = TaggedThreads
  OBVIOUS
<1>4. BarrierInv(X)
  BY <1>3 DEF TagInv
<1>5. BarrierInv(X)'
  BY <1>2, <1>3, <1>4, BarrierInvStep
<1>6. PICK Y : Y = TaggedThreads'
  OBVIOUS
<1>7. BarrierInv(Y)'
  BY <1>1, <1>3, <1>5, <1>6 DEF BarrierInv
<1>. QED  BY <1>6, <1>7 DEF TagInv, BarrierInv

(* With one results query per survey no server aggregates before every     *)
(* server has stored the tags of its responses, although NewProtocol pulls *)
(* its local aggregate before it waits, and DDTChannel carries no names.   *)
THEOREM TaggingBarrier ==
  ASSUME \A q, r \in Querier : q = r
  PROVE  Spec => []TaggedBeforeAggregation
<1>1. Init => TagInv
  BY BarrierInvInit DEF TagInv
<1>2. TagInv /\ TypeOK /\ [Next]_vars => TagInv'
  BY TagInvStep
<1>3. TagInv => TaggedBeforeAggregation
  BY DEF TagInv, BarrierInv, TaggedThreads, TaggedBeforeAggregation
<1>. QED  BY <1>1, <1>2, <1>3, TypeCorrect, PTL DEF Spec

-----------------------------------------------------------------------------
(***************************************************************************)
(* What becomes of the data: no response is missing when a server begins   *)
(* to process, each phase finds what its predecessor left, the querier     *)
(* receives the whole answer once, and under its own key.                  *)
(***************************************************************************)
(***************************************************************************)
(* Uploads.  The assumptions are what the code takes for granted: uploads  *)
(* to one server do not overlap (SerialUploads), and a query announces as  *)
(* many of them as there are data providers at the server.                 *)
(***************************************************************************)
ExactMapDPs == \A s \in Server : MapDPs[s] = Cardinality(Home(s))

Acked(d) == upload[d].pc = "acked"
Inserted(d) == upload[d].pc \in {"put", "token", "acked"}
Busy(d) == upload[d].pc \notin {"idle", "acked"}
AllAcked(s) == \A d \in Home(s) : Acked(d)

(* A thread that has not left the loop over DpChannel.                     *)
Waiting == {"idle", "put_key", "forward", "wait_dps"}
Began(t) == thread[t].pc \notin Waiting

(* A token stands for an acknowledged upload to its server, and is either  *)
(* in the channel or was taken by one thread.                              *)
TokensAcked ==
  /\ \A s \in Server : \A d \in chan[s].dp : d \in Home(s) /\ Acked(d)
  /\ \A t \in Thread : \A d \in thread[t].taken :
       d \in Home(At(t)) /\ Acked(d) /\ d \notin chan[At(t)].dp
  /\ \A t, u \in Thread : At(t) = At(u) /\ t # u => thread[t].taken \cap thread[u].taken = {}

BeganWithAll ==
  \A t \in Thread : Began(t) /\ thread[t].pc # "failed" => thread[t].taken = Home(At(t))

OneUploadAtATime ==
  \A d, e \in DP : HomeOf[d] = HomeOf[e] /\ Busy(d) /\ Busy(e) => d = e

(* The server's store has every response inserted so far; or a thread that *)
(* counted all the server's tokens has gone on and may have taken them.    *)
Kept(s) ==
  /\ store[s].DpResponses = {d \in Home(s) \ ClearDP : Inserted(d)}
  /\ store[s].DpResponsesAggr = {d \in Home(s) \cap ClearDP : Inserted(d)}

Taken(s) ==
  \E t \in Thread : At(t) = s /\ Began(t) /\ Home(s) # {} /\ thread[t].taken = Home(s)

(* What an upload has read is still what the store has when it writes.     *)
Slot(d) == IF d \in ClearDP THEN store[HomeOf[d]].DpResponsesAggr
                            ELSE store[HomeOf[d]].DpResponses

SeenIsCurrent == \A d \in DP : upload[d].pc = "write" => upload[d].seen = Slot(d)

UploadInv ==
  /\ TokensAcked
  /\ BeganWithAll
  /\ OneUploadAtATime
  /\ \A s \in Server : Kept(s) \/ Taken(s)
  /\ SeenIsCurrent

LEMMA UploadInvInit == Init => UploadInv
<1>. SUFFICES ASSUME Init  PROVE UploadInv
  OBVIOUS
<1>1. /\ \A d \in DP : upload[d].pc = "idle"
      /\ \A t \in Thread : thread[t].pc = "idle" /\ thread[t].taken = {}
      /\ \A s \in Server : chan[s].dp = {} /\ store[s].DpResponses = {}
                           /\ store[s].DpResponsesAggr = {}
  BY DEF Init
<1>2. TokensAcked /\ BeganWithAll /\ OneUploadAtATime /\ SeenIsCurrent
  BY <1>1, ThreadType
     DEF TokensAcked, BeganWithAll, OneUploadAtATime, SeenIsCurrent, Began, Waiting, Busy
<1>3. \A s \in Server : Kept(s)
  BY <1>1 DEF Kept, Inserted, Home
<1>. QED  BY <1>2, <1>3 DEF UploadInv

(* When the loop over DpChannel ends, every upload to the server is        *)
(* acknowledged and no other thread has been there.                        *)
LEMMA AllDPsMeansAll ==
  ASSUME ExactMapDPs, TypeOK, UploadInv, NEW t \in Thread,
         thread[t].pc = "wait_dps", AllDPs(t)
  PROVE  /\ thread[t].taken = Home(At(t))
         /\ AllAcked(At(t))
         /\ Kept(At(t))
         /\ Responses(At(t)) = Home(At(t))
<1>1. At(t) \in Server
  BY ThreadType
<1>2. thread[t].taken \subseteq Home(At(t)) /\ \A d \in thread[t].taken : Acked(d)
  BY DEF UploadInv, TokensAcked
<1>3. thread[t].taken = Home(At(t))
  <2>. DEFINE T == thread[t].taken
              H == Home(At(t))
  <2>1. IsFiniteSet(H) /\ Cardinality(T) >= Cardinality(H)
    BY <1>1, ClientAssumption, FS_Subset DEF ExactMapDPs, AllDPs, Home
  <2>. HIDE DEF T, H
  <2>2. /\ Cardinality(T) <= Cardinality(H)
        /\ Cardinality(H) = Cardinality(T) => T = H
        /\ Cardinality(T) \in Nat /\ Cardinality(H) \in Nat
    BY <1>2, <2>1, FS_Subset, FS_CardinalityType DEF T, H
  <2>3. T = H
    BY <2>1, <2>2
  <2>. QED  BY <2>3 DEF T, H
<1>4. AllAcked(At(t))
  BY <1>2, <1>3 DEF AllAcked
<1>5. ~ Taken(At(t))
  <2>. SUFFICES ASSUME NEW u \in Thread, At(u) = At(t), Began(u), Home(At(t)) # {},
                       thread[u].taken = Home(At(t))
                PROVE  FALSE
    BY DEF Taken
  <2>1. u # t
    BY DEF Began, Waiting
  <2>. QED  BY <1>3, <2>1 DEF UploadInv, TokensAcked
<1>6. Kept(At(t))
  BY <1>1, <1>5 DEF UploadInv
<1>7. Responses(At(t)) = Home(At(t))
  BY <1>4, <1>6 DEF Responses, Kept, AllAcked, Acked, Inserted
<1>. QED  BY <1>3, <1>4, <1>6, <1>7

(* An upload in progress finds the store as uploads have left it.          *)
LEMMA BusyMeansKept ==
  ASSUME TypeOK, UploadInv, NEW d \in DP, ~ Acked(d)
  PROVE  HomeOf[d] \in Server /\ Kept(HomeOf[d])
<1>1. HomeOf[d] \in Server /\ d \in Home(HomeOf[d])
  BY ClientAssumption DEF Home
<1>2. ~ Taken(HomeOf[d])
  BY <1>1 DEF Taken, UploadInv, TokensAcked
<1>. QED  BY <1>1, <1>2 DEF UploadInv

-----------------------------------------------------------------------------
(* Steps that touch neither uploads, nor tokens, nor the responses.        *)
ResponsesFrame ==
  /\ upload' = upload
  /\ \A s \in Server : /\ chan'[s].dp = chan[s].dp
                       /\ store'[s].DpResponses = store[s].DpResponses
                       /\ store'[s].DpResponsesAggr = store[s].DpResponsesAggr
  /\ \A t \in Thread : /\ thread'[t].taken = thread[t].taken
                       /\ Began(t) => Began(t)'
                       /\ Began(t)' /\ thread'[t].pc # "failed" => Began(t) /\ thread[t].pc # "failed"

LEMMA ResponsesFrameStep ==
  ASSUME TypeOK, UploadInv, ResponsesFrame
  PROVE  UploadInv'
<1>1. TokensAcked' /\ BeganWithAll' /\ OneUploadAtATime'
  BY ThreadType
     DEF UploadInv, TokensAcked, BeganWithAll, OneUploadAtATime, ResponsesFrame, Busy, Acked
<1>2. ASSUME NEW s \in Server  PROVE Kept(s)' \/ Taken(s)'
  <2>1. CASE Kept(s)
    BY <2>1 DEF ResponsesFrame, Kept, Inserted
  <2>2. CASE Taken(s)
    BY <2>2 DEF ResponsesFrame, Taken
  <2>. QED  BY <2>1, <2>2 DEF UploadInv
<1>3. SeenIsCurrent'
  BY ClientAssumption DEF UploadInv, SeenIsCurrent, Slot, ResponsesFrame
<1>. QED  BY <1>1, <1>2, <1>3 DEF UploadInv

LEMMA GotoFields ==
  ASSUME TypeOK, NEW t \in Thread, NEW pc, Goto(t, pc)
  PROVE  /\ thread'[t].pc = pc
         /\ thread'[t].copy = thread[t].copy
         /\ thread'[t].held = thread[t].held
         /\ thread'[t].key = thread[t].key
         /\ thread'[t].taken = thread[t].taken
         /\ \A u \in Thread : u # t => thread'[u] = thread[u]
BY DEF Goto, TypeOK, ThreadRec

LEMMA GotoPutFields ==
  ASSUME TypeOK, NEW t \in Thread, NEW pc, NEW copy, NEW held, GotoPut(t, pc, copy, held)
  PROVE  /\ thread'[t].pc = pc
         /\ thread'[t].copy = copy
         /\ thread'[t].held = held
         /\ thread'[t].key = thread[t].key
         /\ thread'[t].taken = thread[t].taken
         /\ \A u \in Thread : u # t => thread'[u] = thread[u]
BY DEF GotoPut, TypeOK, ThreadRec

LEMMA GotoResponses ==
  ASSUME TypeOK, NEW t \in Thread, NEW pc, NEW copy, NEW held,
         Goto(t, pc) \/ GotoPut(t, pc, copy, held),
         Began(t) => pc \notin Waiting,
         pc \notin Waiting /\ pc # "failed" => Began(t) /\ thread[t].pc # "failed"
  PROVE  \A u \in Thread : /\ thread'[u].taken = thread[u].taken
                           /\ Began(u) => Began(u)'
                           /\ Began(u)' /\ thread'[u].pc # "failed"
                                => Began(u) /\ thread[u].pc # "failed"
BY GotoFields, GotoPutFields DEF Began

LEMMA CreateResponses ==
  ASSUME TypeOK, Create
  PROVE  ResponsesFrame
<1>1. UNCHANGED <<upload, store, thread>>
  BY DEF Create, CreateSurvey, BroadcastCreation, ReceiveCreation, AckCreation, DataLoaded,
         HandleQueryBroadcastFinished, TakeAck, ReturnSurveyID
<1>2. \A s \in Server : chan'[s].dp = chan[s].dp
  <2>1. CASE chan' = chan
    BY <2>1
  <2>2. ASSUME NEW i \in Server, HandleQueryBroadcastFinished(i) \/ TakeAck(i)
        PROVE  \A s \in Server : chan'[s].dp = chan[s].dp
    BY <2>2 DEF HandleQueryBroadcastFinished, TakeAck, TypeOK, ChanRec
  <2>. QED
    BY <2>1, <2>2 DEF Create, CreateSurvey, BroadcastCreation, ReceiveCreation, AckCreation,
                      DataLoaded, ReturnSurveyID
<1>. QED  BY <1>1, <1>2 DEF ResponsesFrame, Began

(* Every step of a results query but the two that count tokens and take    *)
(* the responses.                                                          *)
LEMMA QueryResponses ==
  ASSUME TypeOK, NEW t \in Thread, RunService(t) \/ RunAggregation(t),
         \A d \in DP : ~ TakeDpToken(t, d), ~ StartShuffling(t), ~ SkipShuffling(t)
  PROVE  ResponsesFrame
<1>0. /\ At(t) \in Server
      /\ store \in [Server -> StoreRec] /\ chan \in [Server -> ChanRec]
  BY ThreadType DEF TypeOK
<1>. USE <1>0 DEF ResponsesFrame
<1>1. CASE HandleSurveyResultsQuery(t)
  BY <1>1, GotoResponses DEF HandleSurveyResultsQuery, Began, Waiting
<1>2. CASE PutSurvey(t)
  <2>1. /\ Began(t) => AfterPut(t) \notin Waiting
        /\ AfterPut(t) \notin Waiting /\ AfterPut(t) # "failed" => Began(t) /\ thread[t].pc # "failed"
    BY <1>2 DEF PutSurvey, Began, Waiting, PutPc, AfterPut
  <2>. QED  BY <1>2, <2>1, GotoResponses DEF PutSurvey
<1>3. CASE ForwardQuery(t)
  BY <1>3, GotoResponses DEF ForwardQuery, Began, Waiting
<1>4. CASE EndShuffling(t)
  BY <1>4, GotoResponses DEF EndShuffling, Began, Waiting, StoreRec
<1>5. CASE SkipTagging(t)
  BY <1>5, GotoResponses DEF SkipTagging, Began, Waiting
<1>6. CASE StartTagging(t)
  BY <1>6, GotoResponses DEF StartTagging, Began, Waiting, StoreRec
<1>7. CASE EndTagging(t)
  BY <1>7, GotoResponses DEF EndTagging, Began, Waiting, StoreRec
<1>8. CASE BroadcastDDTfinished(t)
  BY <1>8, GotoResponses DEF BroadcastDDTfinished, Began, Waiting
<1>9. ASSUME NEW s \in Server, HandleDDTfinished(t, s)  PROVE ResponsesFrame
  BY <1>9 DEF HandleDDTfinished, ChanRec, Began
<1>10. CASE EndAggregation(t)
  BY <1>10, GotoResponses DEF EndAggregation, Began, Waiting, StoreRec
<1>11. CASE StartKeySwitching(t)
  BY <1>11 DEF StartKeySwitching, Began, Waiting, StoreRec, TypeOK, ThreadRec
<1>12. CASE RereadSurvey(t)
  BY <1>12, GotoResponses DEF RereadSurvey, Began, Waiting
<1>13. CASE EndKeySwitching(t)
  BY <1>13, GotoResponses DEF EndKeySwitching, Began, Waiting, StoreRec
<1>14. CASE DeliverResults(t)
  BY <1>14, GotoResponses DEF DeliverResults, Began, Waiting, StoreRec
<1>15. CASE TimeOut(t)
  BY <1>15, GotoResponses DEF TimeOut, Began, Waiting
<1>16. CASE StartAggregation(t)
  <2>1. CASE thread' = thread
    BY <1>16, <2>1 DEF StartAggregation, Began, StoreRec
  <2>2. CASE thread[t].pc = "aggregate" /\ Goto(t, "aggregating")
    BY <1>16, <2>2, GotoResponses DEF StartAggregation, Began, Waiting, StoreRec
  <2>. QED  BY <1>16, <2>1, <2>2 DEF StartAggregation
<1>17. CASE PutPulled(t) \/ EnterAggregation(t)
  BY <1>17 DEF PutPulled, EnterAggregation, Began
<1>18. ASSUME NEW token \in Thread, TakeDDTToken(t, token)  PROVE ResponsesFrame
  BY <1>18 DEF TakeDDTToken, ChanRec, Began
<1>19. CASE RunService(t)
  BY <1>1, <1>2, <1>3, <1>4, <1>5, <1>6, <1>7, <1>8, <1>9, <1>10, <1>11, <1>12, <1>13,
     <1>14, <1>15, <1>19 DEF RunService
<1>20. CASE RunAggregation(t)
  BY <1>16, <1>17, <1>18, <1>20 DEF RunAggregation
<1>. QED  BY <1>19, <1>20

LEMMA TakeDpTokenStep ==
  ASSUME TypeOK, UploadInv, NEW t \in Thread, NEW d \in DP, TakeDpToken(t, d)
  PROVE  UploadInv'
<1>1. /\ At(t) \in Server /\ UNCHANGED <<upload, store>>
      /\ d \in chan[At(t)].dp /\ thread[t].pc = "wait_dps"
  BY ThreadType DEF TakeDpToken
<1>2. /\ chan'[At(t)].dp = chan[At(t)].dp \ {d}
      /\ \A s \in Server : s # At(t) => chan'[s].dp = chan[s].dp
  BY <1>1 DEF TakeDpToken, TypeOK, ChanRec
<1>3. \A u \in Thread : /\ thread'[u].pc = thread[u].pc
                        /\ thread'[u].taken = thread[u].taken \cup (IF u = t THEN {d} ELSE {})
  BY DEF TakeDpToken, TypeOK, ThreadRec
<1>4. d \in Home(At(t)) /\ Acked(d)
  BY <1>1 DEF UploadInv, TokensAcked
<1>5. \A u \in Thread : At(u) = At(t) => d \notin thread[u].taken
  BY <1>1, ThreadType DEF UploadInv, TokensAcked
<1>6. TokensAcked'
  <2>1. \A s \in Server : \A e \in chan'[s].dp : e \in Home(s) /\ Acked(e)'
    <3>1. \A s \in Server : chan'[s].dp \subseteq chan[s].dp
      BY <1>2
    <3>. QED  BY <1>1, <3>1 DEF UploadInv, TokensAcked, Acked
  <2>2. \A u \in Thread : \A e \in thread'[u].taken :
          e \in Home(At(u)) /\ Acked(e)' /\ e \notin chan'[At(u)].dp
    <3>. SUFFICES ASSUME NEW u \in Thread, NEW e \in thread'[u].taken
                  PROVE  e \in Home(At(u)) /\ Acked(e)' /\ e \notin chan'[At(u)].dp
      OBVIOUS
    <3>1. At(u) \in Server
      BY ThreadType
    <3>2. CASE e \in thread[u].taken
      BY <1>1, <1>2, <3>1, <3>2 DEF UploadInv, TokensAcked, Acked
    <3>3. CASE u = t /\ e = d
      BY <1>1, <1>2, <1>4, <3>3 DEF Acked
    <3>. QED  BY <1>3, <3>2, <3>3
  <2>3. \A u, v \in Thread : At(u) = At(v) /\ u # v => thread'[u].taken \cap thread'[v].taken = {}
    <3>. SUFFICES ASSUME NEW u \in Thread, NEW v \in Thread, At(u) = At(v), u # v,
                         NEW e \in thread'[u].taken, e \in thread'[v].taken
                  PROVE  FALSE
      OBVIOUS
    <3>1. thread[u].taken \cap thread[v].taken = {}
      BY DEF UploadInv, TokensAcked
    <3>. QED  BY <1>3, <1>5, <3>1
  <2>. QED  BY <2>1, <2>2, <2>3 DEF TokensAcked
<1>7. BeganWithAll'
  BY <1>1, <1>3 DEF UploadInv, BeganWithAll, Began, Waiting
<1>8. ASSUME NEW s \in Server  PROVE Kept(s)' \/ Taken(s)'
  <2>1. CASE Kept(s)
    BY <1>1, <2>1 DEF Kept, Inserted
  <2>2. CASE Taken(s)
    <3>1. PICK u \in Thread : At(u) = s /\ Began(u) /\ Home(s) # {} /\ thread[u].taken = Home(s)
      BY <2>2 DEF Taken
    <3>2. u # t
      BY <1>1, <3>1 DEF Began, Waiting
    <3>. QED  BY <1>3, <3>1, <3>2 DEF Taken, Began
  <2>. QED  BY <2>1, <2>2 DEF UploadInv
<1>9. OneUploadAtATime' /\ SeenIsCurrent'
  BY <1>1 DEF UploadInv, OneUploadAtATime, Busy, SeenIsCurrent, Slot
<1>. QED  BY <1>6, <1>7, <1>8, <1>9 DEF UploadInv

(* The thread that has counted all tokens is the one that may take the     *)
(* responses out of the store.                                             *)
LEMMA BeginStep ==
  ASSUME ExactMapDPs, TypeOK, UploadInv, NEW t \in Thread,
         SkipShuffling(t) \/ StartShuffling(t)
  PROVE  UploadInv'
<1>1. /\ At(t) \in Server /\ thread[t].pc = "wait_dps" /\ AllDPs(t) /\ upload' = upload
      /\ chan' = chan
  BY ThreadType DEF SkipShuffling, StartShuffling
<1>2. /\ thread[t].taken = Home(At(t))
      /\ AllAcked(At(t))
      /\ Kept(At(t))
  BY <1>1, AllDPsMeansAll
<1>3. /\ thread'[t].taken = thread[t].taken /\ thread'[t].pc \in {"tag", "put_lengths"}
      /\ \A u \in Thread : u # t => thread'[u] = thread[u]
  BY GotoFields, GotoPutFields DEF SkipShuffling, StartShuffling
<1>4. /\ \A s \in Server : s # At(t) => store'[s] = store[s]
      /\ Home(At(t)) = {} => store'[At(t)].DpResponses = {}
      /\ store'[At(t)].DpResponsesAggr = store[At(t)].DpResponsesAggr
  BY <1>1, <1>2 DEF SkipShuffling, StartShuffling, TypeOK, StoreRec, Kept
<1>5. TokensAcked' /\ BeganWithAll' /\ OneUploadAtATime'
  BY <1>1, <1>2, <1>3
     DEF UploadInv, TokensAcked, BeganWithAll, OneUploadAtATime, Busy, Acked, Began, Waiting
<1>6. ASSUME NEW s \in Server  PROVE Kept(s)' \/ Taken(s)'
  <2>1. CASE s = At(t) /\ Home(s) # {}
    <3>1. thread'[t].taken = Home(s) /\ Began(t)'
      BY <1>2, <1>3, <2>1 DEF Began, Waiting
    <3>. QED  BY <2>1, <3>1 DEF Taken
  <2>2. CASE s = At(t) /\ Home(s) = {}
    BY <1>1, <1>2, <1>4, <2>2 DEF Kept
  <2>3. CASE s # At(t) /\ Kept(s)
    BY <1>1, <1>4, <2>3 DEF Kept, Inserted
  <2>4. CASE s # At(t) /\ Taken(s)
    BY <1>3, <2>4 DEF Taken, Began
  <2>. QED  BY <2>1, <2>2, <2>3, <2>4 DEF UploadInv
<1>7. SeenIsCurrent'
  <2>. SUFFICES ASSUME NEW d \in DP, upload'[d].pc = "write"  PROVE (upload[d].seen = Slot(d))'
    BY DEF SeenIsCurrent
  <2>1. HomeOf[d] # At(t)
    BY <1>1, <1>2 DEF AllAcked, Acked, Home
  <2>2. HomeOf[d] \in Server
    BY ClientAssumption
  <2>. QED  BY <1>1, <1>4, <2>1, <2>2 DEF UploadInv, SeenIsCurrent, Slot
<1>. QED  BY <1>5, <1>6, <1>7 DEF UploadInv

LEMMA UploadSteps ==
  ASSUME SerialUploads, TypeOK, UploadInv, NEW d \in DP, Upload(d)
  PROVE  UploadInv'
<1>. DEFINE h == HomeOf[d]
<1>1. /\ h \in Server /\ d \in Home(h) /\ ~ Acked(d) /\ Kept(h)
      /\ upload \in [DP -> UploadRec] /\ store \in [Server -> StoreRec]
      /\ chan \in [Server -> ChanRec]
  <2>1. ~ Acked(d)
    BY DEF Acked, Upload, StartUpload, ReadResponses, InsertDpResponse, PutUpload, SendDpToken
  <2>. QED  BY <2>1, BusyMeansKept DEF Home, TypeOK
<1>2. /\ thread' = thread
      /\ \A e \in DP : e # d => upload'[e] = upload[e]
      /\ \A s \in Server : s # h => store'[s] = store[s] /\ chan'[s] = chan[s]
  BY <1>1, UploadFrame
     DEF Upload, StartUpload, ReadResponses, InsertDpResponse, PutUpload, SendDpToken
<1>. HIDE DEF h
<1>3. TokensAcked' /\ BeganWithAll'
  <2>1. chan'[h].dp \subseteq chan[h].dp \cup {d} /\ (d \in chan'[h].dp => upload'[d].pc = "acked")
    <3>1. CASE SendDpToken(d)
      BY <1>1, <3>1 DEF SendDpToken, ChanRec, UploadRec, h
    <3>2. CASE chan' = chan
      BY <1>1, <3>2 DEF UploadInv, TokensAcked
    <3>. QED
      BY <3>1, <3>2 DEF Upload, StartUpload, ReadResponses, InsertDpResponse, PutUpload
  <2>2. \A t \in Thread : d \notin thread[t].taken
    BY <1>1 DEF UploadInv, TokensAcked
  <2>3. \A s \in Server : \A e \in chan'[s].dp :
          (e \in chan[s].dp /\ e # d) \/ (s = h /\ e = d /\ Acked(d)')
    BY <1>1, <1>2, <2>1 DEF UploadInv, TokensAcked, Acked
  <2>4. \A e \in DP : Acked(e) => Acked(e)'
    BY <1>1, <1>2 DEF Acked
  <2>5. \A e : (\E s : e \in Home(s)) => e \in DP
    BY DEF Home
  <2>6. \A s \in Server : \A e \in chan'[s].dp : e \in Home(s) /\ Acked(e)'
    BY <1>1, <2>3, <2>4, <2>5 DEF UploadInv, TokensAcked
  <2>7. \A t \in Thread : \A e \in thread[t].taken :
          e \in Home(At(t)) /\ Acked(e)' /\ e \notin chan'[At(t)].dp
    BY <2>2, <2>3, <2>4, <2>5, ThreadType DEF UploadInv, TokensAcked
  <2>. QED  BY <1>2, <2>6, <2>7 DEF UploadInv, TokensAcked, BeganWithAll, Began
<1>4. OneUploadAtATime'
  <2>1. CASE Busy(d)
    BY <1>2, <2>1 DEF UploadInv, OneUploadAtATime, Busy
  <2>2. CASE StartUpload(d)
    <3>1. \A e \in Home(h) : ~ Busy(e)
      BY <2>2 DEF StartUpload, MayUpload, Busy, h
    <3>. QED  BY <1>2, <3>1 DEF UploadInv, OneUploadAtATime, Busy, Home, h
  <2>. QED
    BY <2>1, <2>2
       DEF Upload, ReadResponses, InsertDpResponse, PutUpload, SendDpToken, Busy
<1>5. /\ \A s \in Server : Kept(s)' \/ Taken(s)'
      /\ SeenIsCurrent'
  <2>1. ASSUME NEW s \in Server, s # h  PROVE Kept(s)' \/ Taken(s)'
    <3>1. CASE Kept(s)
      BY <1>2, <2>1, <3>1 DEF Kept, Inserted, Home, h
    <3>2. CASE Taken(s)
      BY <1>2, <3>2 DEF Taken, Began
    <3>. QED  BY <3>1, <3>2 DEF UploadInv
  <2>2. \A e \in DP : e # d /\ HomeOf[e] # h => Slot(e)' = Slot(e)
    BY <1>2, ClientAssumption DEF Slot
  <2>3. CASE InsertDpResponse(d)
    <3>1. /\ upload[d].pc = "write" /\ upload'[d].pc = "put"
          /\ upload[d].seen = Slot(d)
      BY <1>1, <2>3 DEF InsertDpResponse, UploadInv, SeenIsCurrent, UploadRec
    <3>2. /\ store'[h].DpResponses =
               IF d \in ClearDP THEN store[h].DpResponses ELSE store[h].DpResponses \cup {d}
          /\ store'[h].DpResponsesAggr =
               IF d \in ClearDP THEN store[h].DpResponsesAggr \cup {d} ELSE store[h].DpResponsesAggr
      BY <1>1, <2>3, <3>1 DEF InsertDpResponse, Slot, StoreRec, h
    <3>3. \A e \in Home(h) : Inserted(e)' <=> (Inserted(e) \/ e = d)
      BY <1>2, <3>1 DEF Inserted, Home
    <3>4. Kept(h)'
      BY <1>1, <3>2, <3>3 DEF Kept
    <3>5. SeenIsCurrent'
      <4>1. \A e \in DP : upload'[e].pc = "write" => e # d /\ HomeOf[e] # h
        BY <1>2, <3>1 DEF UploadInv, OneUploadAtATime, Busy, h
      <4>. QED  BY <1>2, <2>2, <4>1 DEF UploadInv, SeenIsCurrent
    <3>. QED  BY <2>1, <3>4, <3>5
  <2>4. CASE store' = store /\ ~ InsertDpResponse(d)
    <3>1. /\ Inserted(d)' <=> Inserted(d)
          /\ upload'[d].pc = "write" => upload'[d].seen = Slot(d)
      <4>. USE <1>1, <2>4 DEF Inserted, UploadRec
      <4>1. CASE StartUpload(d)    BY <4>1 DEF StartUpload
      <4>2. CASE ReadResponses(d)  BY <4>2 DEF ReadResponses, Slot
      <4>3. CASE PutUpload(d)      BY <4>3 DEF PutUpload
      <4>4. CASE SendDpToken(d)    BY <4>4 DEF SendDpToken
      <4>. QED  BY <4>1, <4>2, <4>3, <4>4 DEF Upload
    <3>2. Kept(h)'
      <4>1. \A e \in Home(h) : Inserted(e)' <=> Inserted(e)
        BY <1>2, <3>1 DEF Inserted, Home
      <4>. QED  BY <1>1, <2>4, <4>1 DEF Kept
    <3>3. SeenIsCurrent'
      BY <1>2, <2>4, <3>1 DEF UploadInv, SeenIsCurrent, Slot
    <3>. QED  BY <2>1, <3>2, <3>3
  <2>. QED
    BY <2>3, <2>4 DEF Upload, StartUpload, ReadResponses, PutUpload, SendDpToken
<1>. QED  BY <1>3, <1>4, <1>5 DEF UploadInv

LEMMA UploadInvStep ==
  ASSUME SerialUploads, ExactMapDPs, TypeOK, UploadInv, [Next]_vars
  PROVE  UploadInv'
<1>1. CASE Create
  BY <1>1, CreateResponses, ResponsesFrameStep
<1>2. ASSUME NEW d \in DP, Upload(d)  PROVE UploadInv'
  BY <1>2, UploadSteps
<1>3. ASSUME NEW t \in Thread, RunService(t) \/ RunAggregation(t)  PROVE UploadInv'
  BY <1>3, TakeDpTokenStep, BeginStep, QueryResponses, ResponsesFrameStep
<1>4. CASE UNCHANGED vars
  <2>1. ResponsesFrame
    BY <1>4 DEF vars, ResponsesFrame, Began
  <2>. QED  BY <2>1, ResponsesFrameStep
<1>. QED  BY <1>1, <1>2, <1>3, <1>4 DEF Next

(* When a server leaves the loop over DpChannel, its store holds the       *)
(* response of each of its data providers and nothing else, although       *)
(* insertions read and write back without a lock, and although the loop    *)
(* only counts tokens: this takes uploads that do not overlap and a query  *)
(* that announces their exact number, and holds for any number of queries. *)
THEOREM AllDataAtStart ==
  ASSUME SerialUploads, ExactMapDPs
  PROVE  Spec => []StartsWithAllData
<1>1. UploadInv /\ TypeOK /\ [Next]_vars => UploadInv'
  BY UploadInvStep
<1>2. UploadInv /\ TypeOK => StartsWithAllData
  BY AllDPsMeansAll DEF StartsWithAllData
<1>. QED  BY <1>1, <1>2, UploadInvInit, TypeCorrect, PTL DEF Spec

-----------------------------------------------------------------------------
(***************************************************************************)
(* The phases of one results query.                                        *)
(***************************************************************************)
OneQuery == \A q, r \in Querier : q = r

(* What a server adds to the aggregation, before and after the instance    *)
(* has pulled it from the store; and that it is what it ought to be.       *)
Contribution(t) ==
  IF agg[t].pc = "none" THEN store[At(t)].LocAggregatedProcessResponse ELSE agg[t].held

Contributed(t) ==
  AllAcked(At(t)) /\ Contribution(t) = FilterResponses(Home(At(t)))

Contributors == {t \in Thread : Contributed(t)}

BeforeTags == Waiting \cup
  {"put_lengths", "shuffling", "put_shuffled", "tag", "put_target", "tagging"}
StoredPc == (TaggedPc \ {"failed"}) \cup {"put_grouped"}

AggregatedPc == {"put_cothority", "switch", "put_results", "reread", "switching",
                 "put_deliverable", "deliver", "put_answer"}
RootPc == AggregatedPc \cup {"aggregate", "aggregating"}

(* What the phases up to tagging find: the responses of the server, once,  *)
(* and the lengths and the target that their protocol was started with.    *)
TaggingStage(t) ==
  LET s == At(t)
  IN  /\ thread[t].pc \in BeforeTags => store[s].LocAggregatedProcessResponse = {}
      /\ store[s].ShuffledProcessResponses =
           IF thread[t].pc \in {"put_shuffled", "tag"} THEN Home(s) ELSE {}
      /\ thread[t].pc \in {"put_lengths", "shuffling", "put_target", "tagging"}
           => thread[t].held = Home(s)
      /\ thread[t].pc = "put_lengths" => thread[t].copy.Lengths = "responses"
      /\ thread[t].pc = "shuffling" => survey[s].Lengths = "responses"
      /\ thread[t].pc = "put_target" => thread[t].copy.TargetOfSwitch = Home(s)
      /\ thread[t].pc = "tagging" => survey[s].TargetOfSwitch = Home(s)
      /\ thread[t].pc \in StoredPc => Contributed(t)

(* What the phases of the root after aggregation find: the whole result.   *)
RootStage(t) ==
  LET s == At(t)
  IN  /\ thread[t].pc \in RootPc => IsRoot(t)
      /\ thread[t].pc \in AggregatedPc => agg[t].pc = "in" /\ \A d \in DP : Acked(d)
      /\ store[s].GroupedDeterministicFilteredResponses =
           IF thread[t].pc \in {"put_cothority", "switch"} THEN Matching ELSE {}
      /\ thread[t].pc \in {"put_results", "reread", "switching"} => thread[t].held = Matching
      /\ thread[t].pc \in {"put_results", "switching"} => thread[t].copy.Lengths = "results"
      /\ thread[t].pc = "reread" => survey[s].Lengths = "results"
      /\ thread[t].pc \in {"put_deliverable", "deliver"}
           => store[s].DeliverableResults.data = Matching

OneAnswer ==
  answer # {} => \A t \in Thread : IsRoot(t) => thread[t].pc \in {"put_answer", "done"}

DataInv ==
  /\ \A t \in Thread : TaggingStage(t) /\ RootStage(t)
  /\ BarrierInv(Contributors)
  /\ OneAnswer

LEMMA DataInvInit == Init => DataInv
<1>. SUFFICES ASSUME Init  PROVE DataInv
  OBVIOUS
<1>1. /\ \A t \in Thread : thread[t].pc = "idle" /\ agg[t].pc = "none"
      /\ \A s \in Server : /\ store[s].LocAggregatedProcessResponse = {}
                           /\ store[s].ShuffledProcessResponses = {}
                           /\ store[s].GroupedDeterministicFilteredResponses = {}
      /\ answer = {}
  BY DEF Init
<1>2. \A t \in Thread : TaggingStage(t) /\ RootStage(t)
  BY <1>1, ThreadType
     DEF TaggingStage, RootStage, StoredPc, TaggedPc, RootPc, AggregatedPc
<1>. QED  BY <1>1, <1>2, BarrierInvInit DEF DataInv, OneAnswer

(* With one query there is one thread per server.                          *)
LEMMA OneThreadPerServer ==
  ASSUME OneQuery, NEW t \in Thread, NEW u \in Thread, At(u) = At(t)
  PROVE  u = t
BY ThreadType DEF OneQuery

(* A step of a thread leaves the others and their servers alone.           *)
Untouched(u) ==
  /\ thread'[u] = thread[u] /\ agg'[u] = agg[u]
  /\ store'[At(u)] = store[At(u)] /\ survey'[At(u)] = survey[At(u)]

LEMMA OnlyOneTouched ==
  ASSUME OneQuery, TypeOK, NEW t \in Thread, RunService(t) \/ RunAggregation(t)
  PROVE  /\ upload' = upload
         /\ \A u \in Thread : u # t => Untouched(u)
<1>. DEFINE Alone == upload' = upload /\ \A u \in Thread : u # t => Untouched(u)
<1>0. /\ At(t) \in Server
      /\ \A u \in Thread : At(u) \in Server /\ (u # t => At(u) # At(t))
      /\ store \in [Server -> StoreRec] /\ survey \in [Server -> SurveyRec]
      /\ thread \in [Thread -> ThreadRec] /\ agg \in [Thread -> AggRec]
  BY ThreadType, OneThreadPerServer DEF TypeOK
<1>. USE <1>0 DEF Untouched
<1>1. CASE HandleSurveyResultsQuery(t)
  BY <1>1 DEF HandleSurveyResultsQuery, GotoPut
<1>2. CASE PutSurvey(t)
  BY <1>2 DEF PutSurvey, Goto
<1>3. CASE ForwardQuery(t)
  BY <1>3 DEF ForwardQuery, Goto
<1>4. ASSUME NEW d \in DP, TakeDpToken(t, d)  PROVE Alone
  BY <1>4 DEF TakeDpToken
<1>5. CASE SkipShuffling(t) \/ SkipTagging(t) \/ TimeOut(t)
  BY <1>5 DEF SkipShuffling, SkipTagging, TimeOut, Goto
<1>6. CASE StartShuffling(t) \/ EndShuffling(t)
  BY <1>6 DEF StartShuffling, EndShuffling, GotoPut
<1>7. CASE StartTagging(t) \/ EndTagging(t)
  BY <1>7 DEF StartTagging, EndTagging, GotoPut
<1>8. CASE BroadcastDDTfinished(t)
  BY <1>8 DEF BroadcastDDTfinished, Goto
<1>9. ASSUME NEW s \in Server, HandleDDTfinished(t, s)  PROVE Alone
  BY <1>9 DEF HandleDDTfinished
<1>10. CASE EndAggregation(t) \/ StartKeySwitching(t) \/ RereadSurvey(t)
  BY <1>10 DEF EndAggregation, StartKeySwitching, RereadSurvey, GotoPut
<1>11. CASE EndKeySwitching(t) \/ DeliverResults(t)
  BY <1>11 DEF EndKeySwitching, DeliverResults, Goto, GotoPut
<1>12. CASE StartAggregation(t) \/ PutPulled(t) \/ EnterAggregation(t)
  BY <1>12 DEF StartAggregation, PutPulled, EnterAggregation, Goto
<1>13. ASSUME NEW token \in Thread, TakeDDTToken(t, token)  PROVE Alone
  BY <1>13 DEF TakeDDTToken
<1>14. CASE RunService(t)
  BY <1>1, <1>2, <1>3, <1>4, <1>5, <1>6, <1>7, <1>8, <1>9, <1>10, <1>11, <1>14
     DEF RunService
<1>15. CASE RunAggregation(t)
  BY <1>12, <1>13, <1>15 DEF RunAggregation
<1>. QED  BY <1>14, <1>15

LEMMA UntouchedStages ==
  ASSUME NEW u \in Thread, Untouched(u), upload' = upload
  PROVE  /\ TaggingStage(u) /\ RootStage(u) => TaggingStage(u)' /\ RootStage(u)'
         /\ Contributed(u) => Contributed(u)'
BY DEF Untouched, TaggingStage, RootStage, Contributed, Contribution, AllAcked, Acked

LEMMA StageFacts ==
  ASSUME TypeOK, UploadInv, DataInv, TaggedBeforeAggregation, NEW t \in Thread
  PROVE  /\ TaggingStage(t) /\ RootStage(t)
         /\ Began(t) /\ thread[t].pc # "failed" => AllAcked(At(t))
         /\ agg[t].pc # "none" => thread[t].pc \in TaggedPc
BY DEF UploadInv, BeganWithAll, TokensAcked, AllAcked, DataInv, TaggedBeforeAggregation, Tagged

(* The thread itself goes from one stage to the next.                      *)
Advances(t) == TaggingStage(t)' /\ RootStage(t)' /\ (Contributed(t) => Contributed(t)')

(* The fields of a server's store that the stages speak of.                *)
SameStore(s) ==
  /\ store'[s].LocAggregatedProcessResponse = store[s].LocAggregatedProcessResponse
  /\ store'[s].ShuffledProcessResponses = store[s].ShuffledProcessResponses
  /\ store'[s].GroupedDeterministicFilteredResponses
       = store[s].GroupedDeterministicFilteredResponses
  /\ store'[s].DeliverableResults = store[s].DeliverableResults

LEMMA WaitingSteps ==
  ASSUME ExactMapDPs, TypeOK, UploadInv, DataInv, TaggedBeforeAggregation, NEW t \in Thread,
         \/ HandleSurveyResultsQuery(t) \/ ForwardQuery(t)
         \/ \E d \in DP : TakeDpToken(t, d)
         \/ SkipShuffling(t) \/ StartShuffling(t)
  PROVE  Advances(t)
<1>1. thread[t].pc \in {"idle", "forward", "wait_dps"}
  BY DEF HandleSurveyResultsQuery, ForwardQuery, TakeDpToken, SkipShuffling, StartShuffling
<1>2. /\ agg' = agg /\ upload' = upload /\ survey' = survey
      /\ SameStore(At(t))
  BY ThreadType
     DEF HandleSurveyResultsQuery, ForwardQuery, TakeDpToken, SkipShuffling, StartShuffling,
         SameStore, TypeOK, StoreRec
<1>3. /\ store[At(t)].LocAggregatedProcessResponse = {}
      /\ store[At(t)].ShuffledProcessResponses = {}
      /\ store[At(t)].GroupedDeterministicFilteredResponses = {}
  BY <1>1, StageFacts DEF TaggingStage, RootStage, BeforeTags, Waiting
<1>4. Contributed(t) <=> Contributed(t)'
  BY <1>2 DEF Contributed, Contribution, AllAcked, Acked, SameStore
<1>5. CASE thread'[t].pc \in {"put_key", "wait_dps", "failed"}
  BY <1>2, <1>3, <1>4, <1>5
     DEF Advances, TaggingStage, RootStage, SameStore, StoredPc, TaggedPc, RootPc, AggregatedPc
<1>6. CASE StartShuffling(t)
  <2>1. /\ thread'[t].pc = "put_lengths"
        /\ thread'[t].held = Home(At(t))
        /\ thread'[t].copy.Lengths = "responses"
    BY <1>6, AllDPsMeansAll, GotoPutFields, ThreadFacts DEF StartShuffling, SurveyRec
  <2>. QED
    BY <1>2, <1>3, <1>4, <2>1
       DEF Advances, TaggingStage, RootStage, SameStore, StoredPc, TaggedPc, RootPc, AggregatedPc
<1>7. CASE SkipShuffling(t)
  <2>1. thread'[t].pc = "tag" /\ Home(At(t)) = {}
    BY <1>7, AllDPsMeansAll, GotoFields DEF SkipShuffling
  <2>. QED
    BY <1>2, <1>3, <1>4, <2>1
       DEF Advances, TaggingStage, RootStage, SameStore, StoredPc, TaggedPc, RootPc, AggregatedPc
<1>8. CASE HandleSurveyResultsQuery(t)
  BY <1>5, <1>8, GotoPutFields DEF HandleSurveyResultsQuery
<1>9. CASE ForwardQuery(t)
  BY <1>5, <1>9, GotoFields DEF ForwardQuery
<1>10. ASSUME NEW d \in DP, TakeDpToken(t, d)  PROVE Advances(t)
  BY <1>5, <1>10 DEF TakeDpToken, TypeOK, ThreadRec
<1>. QED  BY <1>6, <1>7, <1>8, <1>9, <1>10

LEMMA ShufflingSteps ==
  ASSUME TypeOK, UploadInv, DataInv, TaggedBeforeAggregation, NEW t \in Thread,
         EndShuffling(t) \/ SkipTagging(t) \/ StartTagging(t)
  PROVE  Advances(t)
<1>1. /\ agg' = agg /\ upload' = upload /\ survey' = survey
      /\ thread[t].pc \in {"shuffling", "tag"}
      /\ agg[t].pc = "none"
      /\ AllAcked(At(t))
  BY StageFacts DEF EndShuffling, SkipTagging, StartTagging, TaggedPc, Began, Waiting
<1>2. /\ store[At(t)].LocAggregatedProcessResponse = {}
      /\ store[At(t)].GroupedDeterministicFilteredResponses = {}
      /\ thread[t].pc = "shuffling" => /\ thread[t].held = Home(At(t))
                                       /\ store[At(t)].ShuffledProcessResponses = {}
      /\ thread[t].pc = "tag" => store[At(t)].ShuffledProcessResponses = Home(At(t))
  BY <1>1, StageFacts DEF TaggingStage, RootStage, BeforeTags
<1>3. /\ store'[At(t)].LocAggregatedProcessResponse = {}
      /\ store'[At(t)].GroupedDeterministicFilteredResponses = {}
  BY <1>2, ThreadFacts DEF EndShuffling, SkipTagging, StartTagging, StoreRec
<1>4. Contributed(t) <=> Contributed(t)'
  BY <1>1, <1>2, <1>3 DEF Contributed, Contribution, AllAcked, Acked
<1>5. CASE EndShuffling(t)
  <2>1. /\ thread'[t].pc = "put_shuffled"
        /\ store'[At(t)].ShuffledProcessResponses = Home(At(t))
    BY <1>2, <1>5, ThreadFacts, GotoPutFields DEF EndShuffling, StoreRec
  <2>. QED
    BY <1>3, <1>4, <2>1
       DEF Advances, TaggingStage, RootStage, StoredPc, TaggedPc, RootPc, AggregatedPc
<1>6. CASE SkipTagging(t)
  <2>1. /\ thread'[t].pc = "broadcast" /\ store' = store
        /\ thread[t].pc = "tag" /\ Home(At(t)) = {}
        /\ store[At(t)].ShuffledProcessResponses = {}
    BY <1>2, <1>6, GotoFields DEF SkipTagging
  <2>2. Contributed(t)
    BY <1>1, <1>2, <2>1 DEF Contributed, Contribution, FilterResponses
  <2>. QED
    BY <1>3, <1>4, <2>1, <2>2
       DEF Advances, TaggingStage, RootStage, BeforeTags, Waiting, RootPc, AggregatedPc
<1>7. CASE StartTagging(t)
  <2>1. /\ thread'[t].pc = "put_target"
        /\ thread'[t].held = Home(At(t))
        /\ thread'[t].copy.TargetOfSwitch = Home(At(t))
        /\ store'[At(t)].ShuffledProcessResponses = {}
    BY <1>2, <1>7, ThreadFacts, GotoPutFields DEF StartTagging, StoreRec, SurveyRec
  <2>. QED
    BY <1>3, <1>4, <2>1
       DEF Advances, TaggingStage, RootStage, StoredPc, TaggedPc, RootPc, AggregatedPc
<1>. QED  BY <1>5, <1>6, <1>7

LEMMA EndTaggingStep ==
  ASSUME TypeOK, UploadInv, DataInv, TaggedBeforeAggregation, NEW t \in Thread, EndTagging(t)
  PROVE  Advances(t)
<1>1. /\ agg' = agg /\ upload' = upload
      /\ thread[t].pc = "tagging" /\ agg[t].pc = "none" /\ AllAcked(At(t))
  BY StageFacts DEF EndTagging, TaggedPc, Began, Waiting
<1>2. /\ store[At(t)].LocAggregatedProcessResponse = {}
      /\ store[At(t)].ShuffledProcessResponses = {}
      /\ store[At(t)].GroupedDeterministicFilteredResponses = {}
      /\ survey[At(t)].TargetOfSwitch = Home(At(t))
  BY <1>1, StageFacts DEF TaggingStage, RootStage, BeforeTags
<1>3. /\ store'[At(t)].LocAggregatedProcessResponse = FilterResponses(Home(At(t)))
      /\ store'[At(t)].ShuffledProcessResponses = {}
      /\ store'[At(t)].GroupedDeterministicFilteredResponses = {}
      /\ thread'[t].pc = "put_grouped"
  BY <1>2, ThreadFacts, GotoPutFields DEF EndTagging, StoreRec
<1>4. Contributed(t)'
  BY <1>1, <1>3 DEF Contributed, Contribution, AllAcked, Acked
<1>. QED
  BY <1>3, <1>4
     DEF Advances, TaggingStage, RootStage, BeforeTags, Waiting, RootPc, AggregatedPc

LEMMA PutSurveyStep ==
  ASSUME TypeOK, UploadInv, DataInv, TaggedBeforeAggregation, NEW t \in Thread, PutSurvey(t)
  PROVE  Advances(t)
<1>1. /\ agg' = agg /\ upload' = upload /\ store' = store
      /\ survey'[At(t)] = thread[t].copy
      /\ thread'[t].pc = AfterPut(t) /\ thread'[t].held = thread[t].held
      /\ thread'[t].copy = thread[t].copy
      /\ thread[t].pc \in PutPc
  BY ThreadFacts, GotoFields DEF PutSurvey
<1>2. Contributed(t) <=> Contributed(t)'
  BY <1>1 DEF Contributed, Contribution, AllAcked, Acked
<1>3. TaggingStage(t) /\ RootStage(t)
  BY StageFacts
<1>4. CASE thread[t].pc \in {"put_key", "put_lengths", "put_shuffled", "put_target"}
  <2>1. /\ thread[t].pc = "put_key" => thread'[t].pc \in {"forward", "wait_dps"}
        /\ thread[t].pc = "put_lengths" => thread'[t].pc = "shuffling"
        /\ thread[t].pc = "put_shuffled" => thread'[t].pc = "tag"
        /\ thread[t].pc = "put_target" => thread'[t].pc = "tagging"
    BY <1>1, <1>4 DEF AfterPut
  <2>. QED
    BY <1>1, <1>2, <1>3, <1>4, <2>1
       DEF Advances, TaggingStage, RootStage, BeforeTags, Waiting, StoredPc, TaggedPc,
           RootPc, AggregatedPc, Acked
<1>5. CASE thread[t].pc \in {"put_grouped", "put_cothority", "put_results", "put_deliverable",
                            "put_answer"}
  <2>1. /\ thread[t].pc = "put_grouped" => thread'[t].pc = "broadcast"
        /\ thread[t].pc = "put_cothority" => thread'[t].pc = "switch"
        /\ thread[t].pc = "put_results" => thread'[t].pc = "reread"
        /\ thread[t].pc = "put_deliverable" => thread'[t].pc = "deliver"
        /\ thread[t].pc = "put_answer" => thread'[t].pc = "done"
    BY <1>1, <1>5 DEF AfterPut
  <2>. QED
    BY <1>1, <1>2, <1>3, <1>5, <2>1
       DEF Advances, TaggingStage, RootStage, BeforeTags, Waiting, StoredPc, TaggedPc,
           RootPc, AggregatedPc, Acked
<1>. QED  BY <1>1, <1>4, <1>5 DEF PutPc

LEMMA BroadcastSteps ==
  ASSUME TypeOK, UploadInv, DataInv, TaggedBeforeAggregation, NEW t \in Thread,
         \/ BroadcastDDTfinished(t) \/ TimeOut(t)
         \/ \E s \in Server : HandleDDTfinished(t, s)
  PROVE  Advances(t)
<1>1. agg' = agg /\ upload' = upload /\ store' = store /\ survey' = survey
  BY DEF BroadcastDDTfinished, TimeOut, HandleDDTfinished
<1>2. Contributed(t) <=> Contributed(t)'
  BY <1>1 DEF Contributed, Contribution, AllAcked, Acked
<1>3. TaggingStage(t) /\ RootStage(t)
  BY StageFacts
<1>4. CASE thread' = thread
  BY <1>1, <1>2, <1>3, <1>4 DEF Advances, TaggingStage, RootStage, Acked
<1>5. CASE BroadcastDDTfinished(t)
  <2>1. /\ thread[t].pc = "broadcast"
        /\ \/ thread'[t].pc \in {"failed", "done"}
           \/ thread'[t].pc = "aggregate" /\ IsRoot(t)
    BY <1>5, GotoFields DEF BroadcastDDTfinished
  <2>. QED
    BY <1>1, <1>2, <1>3, <2>1
       DEF Advances, TaggingStage, RootStage, BeforeTags, Waiting, StoredPc, TaggedPc,
           RootPc, AggregatedPc, Acked
<1>6. CASE TimeOut(t)
  <2>1. /\ thread[t].pc \in {"shuffling", "tagging", "switching", "aggregating"}
        /\ thread'[t].pc = "failed"
    BY <1>6, GotoFields DEF TimeOut
  <2>. QED
    BY <1>1, <1>2, <1>3, <2>1
       DEF Advances, TaggingStage, RootStage, BeforeTags, Waiting, StoredPc, TaggedPc,
           RootPc, AggregatedPc, Acked
<1>. QED  BY <1>4, <1>5, <1>6 DEF HandleDDTfinished

(* The instance pulls what the server contributes.                         *)
LEMMA AggregationSteps ==
  ASSUME TypeOK, UploadInv, DataInv, TaggedBeforeAggregation, NEW t \in Thread,
         RunAggregation(t)
  PROVE  Advances(t)
<1>1. TaggingStage(t) /\ RootStage(t) /\ (agg[t].pc # "none" => thread[t].pc \in TaggedPc)
  BY StageFacts
<1>2. CASE StartAggregation(t)
  <2>1. /\ upload' = upload /\ survey' = survey
        /\ agg[t].pc = "none" /\ agg'[t].pc = "put"
        /\ agg'[t].held = store[At(t)].LocAggregatedProcessResponse
        /\ store'[At(t)].LocAggregatedProcessResponse = {}
        /\ store'[At(t)].ShuffledProcessResponses = store[At(t)].ShuffledProcessResponses
        /\ store'[At(t)].GroupedDeterministicFilteredResponses
             = store[At(t)].GroupedDeterministicFilteredResponses
        /\ store'[At(t)].DeliverableResults = store[At(t)].DeliverableResults
    BY <1>2, ThreadFacts DEF StartAggregation, AggRec, StoreRec
  <2>2. Contributed(t) <=> Contributed(t)'
    BY <2>1 DEF Contributed, Contribution, AllAcked, Acked
  <2>3. thread[t].pc \notin AggregatedPc
    BY <1>1, <2>1 DEF RootStage
  <2>4. CASE thread' = thread
    BY <1>1, <2>1, <2>2, <2>3, <2>4 DEF Advances, TaggingStage, RootStage, Acked
  <2>5. CASE thread[t].pc = "aggregate" /\ thread'[t].pc = "aggregating"
    BY <1>1, <2>1, <2>2, <2>5
       DEF Advances, TaggingStage, RootStage, BeforeTags, Waiting, StoredPc, TaggedPc,
           RootPc, AggregatedPc
  <2>. QED  BY <1>2, <2>4, <2>5, GotoFields DEF StartAggregation
<1>3. CASE ~ StartAggregation(t)
  <2>1. /\ upload' = upload /\ thread' = thread /\ store' = store
        /\ agg[t].pc # "none" /\ agg'[t].pc # "none" /\ agg'[t].held = agg[t].held
        /\ agg[t].pc = "in" => agg'[t].pc = "in" /\ survey' = survey
    BY <1>3, ThreadFacts
       DEF RunAggregation, PutPulled, EnterAggregation, TakeDDTToken, AggRec
  <2>2. Contributed(t) <=> Contributed(t)'
    BY <2>1 DEF Contributed, Contribution, AllAcked, Acked
  <2>3. thread[t].pc \notin {"shuffling", "tagging"}
    BY <1>1, <2>1 DEF TaggedPc
  <2>4. thread[t].pc = "reread" => agg[t].pc = "in"
    BY <1>1 DEF RootStage, AggregatedPc
  <2>5. TaggingStage(t)'
    BY <1>1, <2>1, <2>2, <2>3 DEF TaggingStage
  <2>6. RootStage(t)'
    BY <1>1, <2>1, <2>4 DEF RootStage, Acked
  <2>. QED  BY <2>2, <2>5, <2>6 DEF Advances
<1>. QED  BY <1>2, <1>3

(* What the servers contribute is together what the query asks for.        *)
LEMMA WholeRound ==
  ASSUME DataInv, NEW t \in Thread, \A u \in Round(Asker(t)) : agg[u].pc = "in"
  PROVE  /\ \A d \in DP : Acked(d)
         /\ UNION {agg[u].held : u \in Round(Asker(t))} = Matching
<1>1. \A u \in Round(Asker(t)) :
        u \in Thread /\ AllAcked(At(u)) /\ agg[u].held = FilterResponses(Home(At(u)))
  <2>1. Round(Asker(t)) \subseteq Thread
    BY ThreadType DEF Round, Thread
  <2>2. Round(Asker(t)) \subseteq Contributors
    BY <2>1 DEF DataInv, BarrierInv
  <2>. QED  BY <2>1, <2>2 DEF Contributors, Contributed, Contribution
<1>2. \A d \in DP : \E u \in Round(Asker(t)) : d \in Home(At(u))
  <2>. SUFFICES ASSUME NEW d \in DP  PROVE \E u \in Round(Asker(t)) : d \in Home(At(u))
    OBVIOUS
  <2>1. <<Asker(t), HomeOf[d]>> \in Round(Asker(t)) /\ At(<<Asker(t), HomeOf[d]>>) = HomeOf[d]
    BY ClientAssumption DEF Round, At
  <2>2. d \in Home(HomeOf[d])
    BY DEF Home
  <2>. QED  BY <2>1, <2>2
<1>3. \A d \in DP : Acked(d)
  BY <1>1, <1>2 DEF AllAcked
<1>4. ASSUME NEW d  PROVE d \in UNION {agg[u].held : u \in Round(Asker(t))} <=> d \in Matching
  BY <1>1, <1>2, ClientAssumption DEF FilterResponses
<1>. QED  BY <1>3, <1>4

LEMMA SwitchingSteps ==
  ASSUME TypeOK, UploadInv, DataInv, TaggedBeforeAggregation, NEW t \in Thread,
         \/ EndAggregation(t) \/ StartKeySwitching(t) \/ RereadSurvey(t)
         \/ EndKeySwitching(t) \/ DeliverResults(t)
  PROVE  Advances(t)
<1>1. agg' = agg /\ upload' = upload /\ survey' = survey
  BY DEF EndAggregation, StartKeySwitching, RereadSurvey, EndKeySwitching, DeliverResults
<1>2. /\ store'[At(t)].LocAggregatedProcessResponse = store[At(t)].LocAggregatedProcessResponse
      /\ store'[At(t)].ShuffledProcessResponses = store[At(t)].ShuffledProcessResponses
  BY ThreadFacts
     DEF EndAggregation, StartKeySwitching, RereadSurvey, EndKeySwitching, DeliverResults,
         StoreRec
<1>3. Contributed(t) <=> Contributed(t)'
  BY <1>1, <1>2 DEF Contributed, Contribution, AllAcked, Acked
<1>4. TaggingStage(t) /\ RootStage(t)
  BY StageFacts
<1>5. /\ thread[t].pc \in {"aggregating", "switch", "reread", "switching", "deliver"}
      /\ thread'[t].pc \in AggregatedPc
  <2>. USE DEF AggregatedPc
  <2>1. CASE EndAggregation(t)     BY <2>1, GotoPutFields DEF EndAggregation
  <2>2. CASE StartKeySwitching(t)  BY <2>2, ThreadFacts DEF StartKeySwitching, ThreadRec
  <2>3. CASE RereadSurvey(t)       BY <2>3, GotoPutFields DEF RereadSurvey
  <2>4. CASE EndKeySwitching(t)    BY <2>4, GotoFields DEF EndKeySwitching
  <2>5. CASE DeliverResults(t)     BY <2>5, GotoPutFields DEF DeliverResults
  <2>. QED  BY <2>1, <2>2, <2>3, <2>4, <2>5
<1>6. TaggingStage(t)' /\ (thread'[t].pc \in RootPc => IsRoot(t))
  BY <1>2, <1>3, <1>4, <1>5
     DEF TaggingStage, RootStage, BeforeTags, Waiting, StoredPc, TaggedPc, AggregatedPc, RootPc
<1>7. agg[t].pc = "in" /\ \A d \in DP : Acked(d)
  <2>1. CASE thread[t].pc = "aggregating"
    BY <2>1, WholeRound, RoundType
       DEF EndAggregation, StartKeySwitching, RereadSurvey, EndKeySwitching, DeliverResults
  <2>. QED  BY <1>4, <1>5, <2>1 DEF RootStage, AggregatedPc
<1>8. (thread'[t].pc \in AggregatedPc => agg'[t].pc = "in" /\ \A d \in DP : Acked(d)')
  BY <1>1, <1>7 DEF Acked
<1>. SUFFICES RootStage(t)'
  BY <1>3, <1>6 DEF Advances
<1>9. CASE EndAggregation(t)
  <2>1. /\ thread[t].pc = "aggregating" /\ thread'[t].pc = "put_cothority"
        /\ store[At(t)].GroupedDeterministicFilteredResponses = {}
    BY <1>4, <1>9, GotoPutFields DEF EndAggregation, RootStage
  <2>2. store'[At(t)].GroupedDeterministicFilteredResponses = Matching
    <3>. DEFINE all == UNION {agg[u].held : u \in Round(Asker(t))}
    <3>1. all = Matching
      BY <1>9, WholeRound DEF EndAggregation
    <3>2. store' = [store EXCEPT ![At(t)].GroupedDeterministicFilteredResponses = @ \cup all]
      BY <1>9 DEF EndAggregation
    <3>. HIDE DEF all
    <3>. QED  BY <2>1, <3>1, <3>2, ThreadFacts DEF StoreRec
  <2>. QED  BY <1>6, <1>8, <2>1, <2>2 DEF RootStage
<1>10. CASE StartKeySwitching(t)
  <2>1. /\ thread[t].pc = "switch" /\ thread'[t].pc = "put_results"
        /\ thread'[t].held = store[At(t)].GroupedDeterministicFilteredResponses
        /\ thread'[t].copy.Lengths = "results"
        /\ store'[At(t)].GroupedDeterministicFilteredResponses = {}
    BY <1>10, ThreadFacts DEF StartKeySwitching, ThreadRec, StoreRec, SurveyRec
  <2>2. store[At(t)].GroupedDeterministicFilteredResponses = Matching
    BY <1>4, <2>1 DEF RootStage
  <2>. QED  BY <1>6, <1>8, <2>1, <2>2 DEF RootStage
<1>11. CASE RereadSurvey(t)
  <2>1. /\ thread[t].pc = "reread" /\ thread'[t].pc = "switching" /\ store' = store
        /\ thread'[t].held = thread[t].held /\ thread'[t].copy = survey[At(t)]
    BY <1>11, GotoPutFields DEF RereadSurvey
  <2>. QED  BY <1>4, <1>6, <1>8, <2>1 DEF RootStage
<1>12. CASE EndKeySwitching(t)
  <2>1. /\ thread[t].pc = "switching" /\ thread'[t].pc = "put_deliverable"
        /\ store'[At(t)].DeliverableResults.data = thread[t].held
        /\ store'[At(t)].GroupedDeterministicFilteredResponses
             = store[At(t)].GroupedDeterministicFilteredResponses
    BY <1>12, ThreadFacts, GotoFields DEF EndKeySwitching, StoreRec
  <2>. QED  BY <1>4, <1>6, <1>8, <2>1 DEF RootStage
<1>13. CASE DeliverResults(t)
  <2>1. /\ thread[t].pc = "deliver" /\ thread'[t].pc = "put_answer"
        /\ store'[At(t)].GroupedDeterministicFilteredResponses
             = store[At(t)].GroupedDeterministicFilteredResponses
    BY <1>13, ThreadFacts, GotoPutFields DEF DeliverResults, StoreRec
  <2>. QED  BY <1>4, <1>6, <1>8, <2>1 DEF RootStage
<1>. QED  BY <1>9, <1>10, <1>11, <1>12, <1>13

LEMMA ThreadAdvances ==
  ASSUME ExactMapDPs, TypeOK, UploadInv, DataInv, TaggedBeforeAggregation, NEW t \in Thread,
         RunService(t) \/ RunAggregation(t)
  PROVE  Advances(t)
BY WaitingSteps, ShufflingSteps, EndTaggingStep, PutSurveyStep, BroadcastSteps,
   AggregationSteps, SwitchingSteps DEF RunService

(* Once the querier has its answer, the root's thread only comes to its end. *)
LEMMA OneAnswerStep ==
  ASSUME OneQuery, TypeOK, DataInv, NEW t \in Thread, RunService(t) \/ RunAggregation(t)
  PROVE  OneAnswer'
<1>1. CASE DeliverResults(t)
  <2>1. thread[t].pc = "deliver" /\ thread'[t].pc = "put_answer"
    BY <1>1, GotoPutFields DEF DeliverResults
  <2>2. IsRoot(t)
    BY <2>1 DEF DataInv, RootStage, RootPc, AggregatedPc
  <2>3. \A u \in Thread : IsRoot(u) => u = t
    BY <2>2, ThreadType DEF OneQuery, IsRoot
  <2>. QED  BY <2>1, <2>3 DEF OneAnswer
<1>2. CASE ~ DeliverResults(t)
  <2>1. answer' = answer
    BY <1>2
       DEF RunService, RunAggregation, HandleSurveyResultsQuery, PutSurvey, ForwardQuery,
           TakeDpToken, SkipShuffling, StartShuffling, EndShuffling, SkipTagging, StartTagging,
           EndTagging, BroadcastDDTfinished, HandleDDTfinished, EndAggregation,
           StartKeySwitching, RereadSurvey, EndKeySwitching, TimeOut, StartAggregation,
           PutPulled, EnterAggregation, TakeDDTToken
  <2>2. ASSUME thread[t].pc \in {"put_answer", "done"}
        PROVE  thread'[t].pc \in {"put_answer", "done"}
    <3>1. CASE PutSurvey(t)
      BY <2>2, <3>1, GotoFields DEF PutSurvey, PutPc, AfterPut
    <3>2. CASE thread' = thread
      BY <2>2, <3>2
    <3>. QED
      BY <1>2, <2>2, <3>1, <3>2
         DEF RunService, RunAggregation, HandleSurveyResultsQuery, ForwardQuery,
             TakeDpToken, SkipShuffling, StartShuffling, EndShuffling, SkipTagging, StartTagging,
             EndTagging, BroadcastDDTfinished, HandleDDTfinished, EndAggregation,
             StartKeySwitching, RereadSurvey, EndKeySwitching, TimeOut, StartAggregation,
             PutPulled, EnterAggregation, TakeDDTToken
  <2>3. \A u \in Thread : u # t => thread'[u] = thread[u]
    BY OnlyOneTouched DEF Untouched
  <2>. QED  BY <2>1, <2>2, <2>3 DEF DataInv, OneAnswer
<1>. QED  BY <1>1, <1>2

(* An upload reaches the survey's entry and the store only while the       *)
(* server's thread still waits for it.                                     *)
LEMMA UploadStages ==
  ASSUME TypeOK, UploadInv, DataInv, TaggedBeforeAggregation, NEW d \in DP, Upload(d)
  PROVE  /\ \A t \in Thread : Advances(t)
         /\ OneAnswer'
<1>1. /\ thread' = thread /\ agg' = agg /\ answer' = answer
      /\ upload \in [DP -> UploadRec] /\ store \in [Server -> StoreRec]
      /\ survey \in [Server -> SurveyRec] /\ HomeOf[d] \in Server
  BY UploadFrame, ClientAssumption
     DEF TypeOK, Upload, StartUpload, ReadResponses, InsertDpResponse, PutUpload, SendDpToken
<1>2. ~ Acked(d) /\ \A e \in DP : Acked(e) => Acked(e)'
  BY <1>1
     DEF Acked, Upload, StartUpload, ReadResponses, InsertDpResponse, PutUpload, SendDpToken
<1>3. ASSUME NEW t \in Thread  PROVE Advances(t)
  <2>1. At(t) \in Server
    BY ThreadType
  <2>2. SameStore(At(t))
    <3>1. CASE store' = store
      BY <3>1 DEF SameStore
    <3>2. CASE InsertDpResponse(d)
      BY <1>1, <2>1, <3>2 DEF InsertDpResponse, SameStore, StoreRec
    <3>. QED  BY <3>1, <3>2 DEF Upload, StartUpload, ReadResponses, PutUpload, SendDpToken
  <2>3. Began(t) /\ thread[t].pc # "failed" => survey'[At(t)] = survey[At(t)]
    <3>1. CASE survey' = survey
      BY <3>1
    <3>2. CASE PutUpload(d)
      <4>1. Began(t) /\ thread[t].pc # "failed" => HomeOf[d] # At(t)
        BY <1>2, StageFacts DEF AllAcked, Home
      <4>. QED  BY <1>1, <2>1, <3>2, <4>1 DEF PutUpload
    <3>. QED  BY <3>1, <3>2 DEF Upload, StartUpload, ReadResponses, InsertDpResponse, SendDpToken
  <2>4. Contributed(t) => Contributed(t)'
    BY <1>1, <1>2, <2>2 DEF Contributed, Contribution, AllAcked, SameStore, Home
  <2>5. thread[t].pc \in {"shuffling", "tagging", "reread"} => survey'[At(t)] = survey[At(t)]
    BY <2>3 DEF Began, Waiting
  <2>6. TaggingStage(t)'
    BY <1>1, <2>2, <2>4, <2>5, StageFacts DEF TaggingStage, SameStore
  <2>7. RootStage(t)'
    BY <1>1, <1>2, <2>2, <2>5, StageFacts DEF RootStage, SameStore
  <2>. QED  BY <2>4, <2>6, <2>7 DEF Advances
<1>. QED  BY <1>1, <1>3 DEF DataInv, OneAnswer

LEMMA DataInvStep ==
  ASSUME OneQuery, ExactMapDPs, TypeOK, UploadInv, TaggedBeforeAggregation, DataInv,
         [Next]_vars
  PROVE  DataInv'
<1>1. /\ \A t \in Thread : Advances(t)
      /\ OneAnswer'
  <2>1. CASE UNCHANGED <<upload, thread, agg, store, survey, answer>>
    <3>1. ASSUME NEW t \in Thread  PROVE Advances(t)
      BY <2>1, UntouchedStages, StageFacts DEF Untouched, Advances
    <3>. QED  BY <2>1, <3>1 DEF DataInv, OneAnswer
  <2>2. CASE Create
    BY <2>1, <2>2
       DEF Create, CreateSurvey, BroadcastCreation, ReceiveCreation, AckCreation, DataLoaded,
           HandleQueryBroadcastFinished, TakeAck, ReturnSurveyID
  <2>3. ASSUME NEW d \in DP, Upload(d)
        PROVE  (\A t \in Thread : Advances(t)) /\ OneAnswer'
    BY <2>3, UploadStages
  <2>4. ASSUME NEW t \in Thread, RunService(t) \/ RunAggregation(t)
        PROVE  (\A u \in Thread : Advances(u)) /\ OneAnswer'
    <3>1. ASSUME NEW u \in Thread, u # t  PROVE Advances(u)
      BY <2>4, <3>1, OnlyOneTouched, UntouchedStages, StageFacts DEF Advances
    <3>. QED  BY <2>4, <3>1, ThreadAdvances, OneAnswerStep
  <2>5. CASE UNCHANGED vars
    BY <2>1, <2>5 DEF vars
  <2>. QED  BY <2>2, <2>3, <2>4, <2>5 DEF Next
<1>2. BarrierInv(Contributors)'
  <2>1. PICK X : X = Contributors
    OBVIOUS
  <2>2. PICK Y : Y = Contributors'
    OBVIOUS
  <2>3. X \subseteq Y
    BY <1>1, <2>1, <2>2 DEF Contributors, Advances
  <2>4. \A t \in Thread : thread[t].pc \in {"broadcast", "aggregate"} => t \in X
    BY <2>1 DEF DataInv, TaggingStage, StoredPc, TaggedPc, Contributors
  <2>5. BarrierInv(X)'
    BY <2>1, <2>4, BarrierInvStep DEF DataInv, OneQuery
  <2>6. BarrierInv(Y)'
    BY <2>3, <2>5 DEF BarrierInv
  <2>. QED  BY <2>2, <2>6 DEF BarrierInv
<1>. QED  BY <1>1, <1>2 DEF DataInv, Advances

(* The protocol's survey is the one its phase was started with: no         *)
(* concurrent write of an older copy comes between.                        *)
THEOREM OwnShape ==
  ASSUME OneQuery, SerialUploads, ExactMapDPs
  PROVE  Spec => []DecodesOwnShape
<1>1. UploadInv /\ TypeOK /\ [Next]_vars => UploadInv'
  BY UploadInvStep
<1>2. /\ DataInv /\ UploadInv /\ TypeOK /\ TaggedBeforeAggregation
      /\ [Next]_vars
      => DataInv'
  BY DataInvStep
<1>3. DataInv => DecodesOwnShape
  BY DEF DataInv, TaggingStage, RootStage, DecodesOwnShape
<1>4. Spec => []TaggedBeforeAggregation
  BY TaggingBarrier DEF OneQuery
<1>. QED  BY <1>1, <1>2, <1>3, <1>4, UploadInvInit, DataInvInit, TypeCorrect, PTL DEF Spec

-----------------------------------------------------------------------------
(* The servers keep their promise to clients: an upload's acknowledgement  *)
(* is a Give, the reply an Answer, and nothing else can be seen.           *)
Given == {d \in DP : Acked(d)}
Returned == {[querier |-> a.querier, data |-> a.data] : a \in answer}

LEMMA UploadGives ==
  ASSUME TypeOK, NEW d \in DP, Upload(d)
  PROVE  answer' = answer /\ (Given' = Given \/ Given' = Given \cup {d})
<1>1. /\ answer' = answer /\ upload \in [DP -> UploadRec]
      /\ \A e \in DP : e # d => upload'[e] = upload[e]
  BY DEF Upload, StartUpload, ReadResponses, InsertDpResponse, PutUpload, SendDpToken, TypeOK
<1>2. ~ Acked(d)
  BY DEF Acked, Upload, StartUpload, ReadResponses, InsertDpResponse, PutUpload, SendDpToken
<1>. QED  BY <1>1, <1>2 DEF Given, Acked

LEMMA DeliveryAnswers ==
  ASSUME TypeOK, DataInv, NEW t \in Thread, DeliverResults(t)
  PROVE  /\ Given = DP
         /\ Returned = {}
         /\ Returned' = Returned \cup {[querier |-> Asker(t), data |-> Matching]}
         /\ Given' = Given
<1>1. /\ thread[t].pc = "deliver" /\ upload' = upload
      /\ answer' = answer \cup
           {[querier |-> Asker(t), data |-> store[At(t)].DeliverableResults.data,
             key |-> store[At(t)].DeliverableResults.key]}
  BY DEF DeliverResults
<1>2. /\ IsRoot(t) /\ (\A d \in DP : Acked(d))
      /\ store[At(t)].DeliverableResults.data = Matching
  BY <1>1 DEF DataInv, RootStage, RootPc, AggregatedPc
<1>3. answer = {}
  BY <1>1, <1>2 DEF DataInv, OneAnswer
<1>. QED  BY <1>1, <1>2, <1>3 DEF Given, Returned, Acked

LEMMA OnlyDeliveryAnswers ==
  ASSUME TypeOK, NEW t \in Thread, RunService(t) \/ RunAggregation(t), ~ DeliverResults(t)
  PROVE  answer' = answer /\ upload' = upload
BY DEF RunService, RunAggregation, HandleSurveyResultsQuery, PutSurvey, ForwardQuery,
       TakeDpToken, SkipShuffling, StartShuffling, EndShuffling, SkipTagging, StartTagging,
       EndTagging, BroadcastDDTfinished, HandleDDTfinished, EndAggregation,
       StartKeySwitching, RereadSurvey, EndKeySwitching, TimeOut, StartAggregation,
       PutPulled, EnterAggregation, TakeDDTToken

LEMMA PromiseStep ==
  ASSUME TypeOK, DataInv, [Next]_vars
  PROVE  Promise!Next \/ UNCHANGED Promise!promise
<1>. USE DEF Promise!Next, Promise!promise, Promise!Give, Promise!Answer, Given, Returned, Acked
<1>1. CASE UNCHANGED <<upload, answer>>
  BY <1>1
<1>2. CASE Create
  BY <1>1, <1>2
     DEF Create, CreateSurvey, BroadcastCreation, ReceiveCreation, AckCreation, DataLoaded,
         HandleQueryBroadcastFinished, TakeAck, ReturnSurveyID
<1>3. ASSUME NEW d \in DP, Upload(d)
      PROVE  Promise!Next \/ UNCHANGED Promise!promise
  BY <1>3, UploadGives
<1>4. ASSUME NEW t \in Thread, RunService(t) \/ RunAggregation(t)
      PROVE  Promise!Next \/ UNCHANGED Promise!promise
  <2>1. CASE DeliverResults(t)
    <3>1. Promise!Answer(Asker(t))
      BY <2>1, DeliveryAnswers
    <3>. QED  BY <3>1, ThreadType
  <2>. QED  BY <1>1, <1>4, <2>1, OnlyDeliveryAnswers
<1>5. CASE UNCHANGED vars
  BY <1>1, <1>5 DEF vars
<1>. QED  BY <1>2, <1>3, <1>4, <1>5 DEF Next

(* With one query, uploads that do not overlap and their exact number      *)
(* announced, the servers do what SurveyPromise says, whatever sends fail  *)
(* and whatever phases time out: the querier is answered at most once,     *)
(* after every data provider has been acknowledged, with all the matching  *)
(* responses and nothing else.                                             *)
THEOREM PromiseKept ==
  ASSUME OneQuery, SerialUploads, ExactMapDPs
  PROVE  Spec => PromiseSpec
<1>1. UploadInv /\ TypeOK /\ [Next]_vars => UploadInv'
  BY UploadInvStep
<1>2. /\ DataInv /\ UploadInv /\ TypeOK /\ TaggedBeforeAggregation
      /\ [Next]_vars
      => DataInv'
  BY DataInvStep
<1>3. Spec => []TaggedBeforeAggregation
  BY TaggingBarrier DEF OneQuery
<1>4. Init => Promise!Init
  BY DEF Init, Promise!Init
<1>5. DataInv /\ TypeOK /\ [Next]_vars => [Promise!Next]_(Promise!promise)
  BY PromiseStep
<1>. QED
  BY <1>1, <1>2, <1>3, <1>4, <1>5, UploadInvInit, DataInvInit, TypeCorrect, PTL
     DEF Spec, PromiseSpec, Promise!Spec

-----------------------------------------------------------------------------
(***************************************************************************)
(* The querier's key.  Every handler writes back a whole copy of the       *)
(* survey; a copy taken before the query carries the creation query's key. *)
(* The root's entry keeps the querier's when that is the same key, or no   *)
(* upload to the root is left when the query begins: because the querier   *)
(* waits for all of them, or because the server that it asks is the one    *)
(* that loaded its own data before it announced the survey.                *)
(***************************************************************************)
SureKey ==
  \A q \in Querier : CreationKey = q \/ PatientQuerier \/ (AppFlag /\ EntryOf[q] = Creator)

LoadedFirst == AppFlag /\ creation[Creator] \in {"waiting", "done"} => AllAcked(Creator)

(* Only the root forwards the query, and only to the others.               *)
ForwardedToOthers ==
  /\ \A t \in net.query : ~ IsRoot(t)
  /\ \A t \in Thread : thread[t].pc = "forward" => IsRoot(t)

(* No copy of the root's survey that will be written back has a key other  *)
(* than the querier's.                                                     *)
SameKey(t) == CreationKey = Asker(t)

RootKey(t) ==
  LET s == At(t)
      q == Asker(t)
  IN  /\ SameKey(t) => \A d \in Home(s) : upload[d].pc \in {"read", "write", "put"}
                                            => upload[d].copy.ClientPubKey = q
      /\ ~ SameKey(t) /\ thread[t].pc # "idle" => AllAcked(s)
      /\ SameKey(t) \/ thread[t].pc \notin {"idle", "put_key"} => survey[s].ClientPubKey = q
      /\ thread[t].pc \in PutPc \cup {"switching"} => thread[t].copy.ClientPubKey = q
      /\ agg[t].pc = "put" => agg[t].copy.ClientPubKey = q
      /\ thread[t].pc \in {"put_results", "reread", "switching"} => thread[t].key = q
      /\ thread[t].pc \in {"put_deliverable", "deliver"} => store[s].DeliverableResults.key = q

KeyInv ==
  /\ LoadedFirst
  /\ ForwardedToOthers
  /\ \A t \in Thread : thread[t].pc \in RootPc => IsRoot(t)
  /\ \A t \in Thread : IsRoot(t) => RootKey(t)
  /\ \A a \in answer : a.key = a.querier

LEMMA KeyInvInit == Init => KeyInv
<1>. SUFFICES ASSUME Init  PROVE KeyInv
  OBVIOUS
<1>1. /\ \A t \in Thread : thread[t].pc = "idle" /\ agg[t].pc = "none"
      /\ \A d \in DP : upload[d].pc = "idle"
      /\ \A s \in Server : survey[s].ClientPubKey = CreationKey
      /\ creation[Creator] = "none" /\ net.query = {} /\ answer = {}
  BY ServerAssumption DEF Init, NewSurvey
<1>2. \A t \in Thread : RootKey(t) /\ thread[t].pc \notin RootPc
  BY <1>1, ThreadType DEF RootKey, SameKey, PutPc, RootPc, AggregatedPc, Home
<1>. QED  BY <1>1, <1>2 DEF KeyInv, LoadedFirst, ForwardedToOthers

LEMMA UntouchedKey ==
  ASSUME NEW u \in Thread, Untouched(u), upload' = upload, RootKey(u)
  PROVE  RootKey(u)'
BY DEF Untouched, RootKey, SameKey, AllAcked, Acked

(* Uploads.                                                                *)
LEMMA UploadKeys ==
  ASSUME TypeOK, KeyInv, NEW d \in DP, Upload(d)
  PROVE  KeyInv'
<1>1. /\ thread' = thread /\ agg' = agg /\ answer' = answer /\ net' = net /\ creation' = creation
      /\ \A s \in Server : store'[s].DeliverableResults = store[s].DeliverableResults
      /\ upload \in [DP -> UploadRec] /\ survey \in [Server -> SurveyRec]
      /\ HomeOf[d] \in Server
      /\ \A e \in DP : e # d => upload'[e] = upload[e]
  <2>1. \A s \in Server : store'[s].DeliverableResults = store[s].DeliverableResults
    <3>1. CASE store' = store
      BY <3>1
    <3>2. CASE InsertDpResponse(d)
      BY <3>2, ClientAssumption DEF InsertDpResponse, TypeOK, StoreRec
    <3>. QED  BY <3>1, <3>2 DEF Upload, StartUpload, ReadResponses, PutUpload, SendDpToken
  <2>. QED
    BY <2>1, UploadFrame, ClientAssumption
       DEF TypeOK, Upload, StartUpload, ReadResponses, InsertDpResponse, PutUpload, SendDpToken
<1>2. ~ Acked(d) /\ \A e \in DP : Acked(e) => Acked(e)'
  BY <1>1
     DEF Acked, Upload, StartUpload, ReadResponses, InsertDpResponse, PutUpload, SendDpToken
<1>3. LoadedFirst' /\ ForwardedToOthers'
  BY <1>1, <1>2 DEF KeyInv, LoadedFirst, ForwardedToOthers, AllAcked, Home
<1>4. ASSUME NEW t \in Thread, IsRoot(t)  PROVE RootKey(t)'
  <2>1. RootKey(t) /\ At(t) \in Server
    BY <1>4, ThreadType DEF KeyInv
  <2>2. CASE HomeOf[d] # At(t)
    <3>1. survey'[At(t)] = survey[At(t)]
      BY <1>1, <2>1, <2>2
         DEF Upload, StartUpload, ReadResponses, InsertDpResponse, PutUpload, SendDpToken
    <3>2. \A e \in Home(At(t)) : upload'[e] = upload[e]
      BY <1>1, <2>2 DEF Home
    <3>. QED  BY <1>1, <2>1, <3>1, <3>2 DEF RootKey, SameKey, AllAcked, Acked
  <2>3. CASE HomeOf[d] = At(t) /\ SameKey(t)
    <3>1. survey[At(t)].ClientPubKey = Asker(t)
      BY <2>1, <2>3 DEF RootKey
    <3>2. upload[d].pc \in {"read", "write", "put"} => upload[d].copy.ClientPubKey = Asker(t)
      BY <2>1, <2>3 DEF RootKey, Home
    <3>3. /\ upload'[d].pc \in {"read", "write", "put"} => upload'[d].copy.ClientPubKey = Asker(t)
          /\ survey'[At(t)].ClientPubKey = Asker(t)
      <4>. USE <1>1, <2>1, <2>3, <3>1, <3>2 DEF UploadRec
      <4>1. CASE StartUpload(d)       BY <4>1 DEF StartUpload
      <4>2. CASE ReadResponses(d)     BY <4>2 DEF ReadResponses
      <4>3. CASE InsertDpResponse(d)  BY <4>3 DEF InsertDpResponse
      <4>4. CASE PutUpload(d)         BY <4>4 DEF PutUpload
      <4>5. CASE SendDpToken(d)       BY <4>5 DEF SendDpToken
      <4>. QED  BY <4>1, <4>2, <4>3, <4>4, <4>5 DEF Upload
    <3>4. \A e \in Home(At(t)) : upload'[e].pc \in {"read", "write", "put"}
                                   => upload'[e].copy.ClientPubKey = Asker(t)
      BY <1>1, <2>1, <2>3, <3>3 DEF RootKey, Home
    <3>. QED  BY <1>1, <2>1, <2>3, <3>3, <3>4 DEF RootKey, SameKey
  <2>4. CASE HomeOf[d] = At(t) /\ ~ SameKey(t)
    <3>1. thread[t].pc = "idle"
      BY <1>2, <2>1, <2>4 DEF RootKey, AllAcked, Home
    <3>. QED  BY <1>1, <2>1, <2>4, <3>1 DEF RootKey, SameKey, PutPc
  <2>. QED  BY <2>2, <2>3, <2>4
<1>. QED  BY <1>1, <1>3, <1>4 DEF KeyInv

(* Creation: with AppFlag it goes on when the server's data are loaded.    *)
LEMMA CreateKeys ==
  ASSUME TypeOK, KeyInv, Create
  PROVE  KeyInv'
<1>1. /\ UNCHANGED <<upload, thread, agg, store, survey, answer>>
      /\ net'.query = net.query
  BY DEF Create, CreateSurvey, BroadcastCreation, ReceiveCreation, AckCreation, DataLoaded,
         HandleQueryBroadcastFinished, TakeAck, ReturnSurveyID, TypeOK, NetRec
<1>2. LoadedFirst'
  <2>. SUFFICES ASSUME AppFlag, creation'[Creator] \in {"waiting", "done"},
                       ~ (creation[Creator] \in {"waiting", "done"})
                PROVE  AllAcked(Creator)
    BY <1>1 DEF KeyInv, LoadedFirst, AllAcked, Acked
  <2>. USE ServerAssumption DEF TypeOK
  <2>1. CASE CreateSurvey       BY <2>1 DEF CreateSurvey
  <2>2. CASE BroadcastCreation  BY <2>2 DEF BroadcastCreation, AfterBroadcast
  <2>3. ASSUME NEW s \in Server, ReceiveCreation(s)  PROVE AllAcked(Creator)
    BY <2>3 DEF ReceiveCreation
  <2>4. ASSUME NEW s \in Server, AckCreation(s)      PROVE AllAcked(Creator)
    BY <2>4 DEF AckCreation, AfterBroadcast
  <2>5. ASSUME NEW s \in Server, DataLoaded(s)       PROVE AllAcked(Creator)
    BY <2>5 DEF DataLoaded, AllLoaded, AllAcked, Acked
  <2>6. ASSUME NEW i \in Server, HandleQueryBroadcastFinished(i) \/ TakeAck(i)
        PROVE  AllAcked(Creator)
    BY <2>6 DEF HandleQueryBroadcastFinished, TakeAck
  <2>7. CASE ReturnSurveyID     BY <2>7 DEF ReturnSurveyID
  <2>. QED  BY <2>1, <2>2, <2>3, <2>4, <2>5, <2>6, <2>7 DEF Create
<1>. QED
  BY <1>1, <1>2 DEF KeyInv, ForwardedToOthers, RootKey, SameKey, AllAcked, Acked

(* Who forwards the query and who aggregates.                              *)
LEMMA RootSteps ==
  ASSUME TypeOK, KeyInv, NEW t \in Thread, RunService(t) \/ RunAggregation(t)
  PROVE  /\ ForwardedToOthers'
         /\ \A u \in Thread : thread'[u].pc \in RootPc => IsRoot(u)
         /\ creation' = creation
<1>. DEFINE Roots == \A u \in Thread : thread'[u].pc \in RootPc \cup {"forward"} => IsRoot(u)
<1>1. ASSUME thread'[t].pc \in RootPc \cup {"forward"} => IsRoot(t),
             \A u \in Thread : u # t => thread'[u] = thread[u]
      PROVE  Roots
  BY <1>1 DEF KeyInv, ForwardedToOthers
<1>2. /\ net'.query \subseteq net.query \/ ForwardQuery(t)
      /\ creation' = creation
  BY DEF RunService, RunAggregation, HandleSurveyResultsQuery, PutSurvey,
       TakeDpToken, SkipShuffling, StartShuffling, EndShuffling, SkipTagging, StartTagging,
       EndTagging, BroadcastDDTfinished, HandleDDTfinished, EndAggregation, DeliverResults,
       StartKeySwitching, RereadSurvey, EndKeySwitching, TimeOut, StartAggregation,
       PutPulled, EnterAggregation, TakeDDTToken, TypeOK, NetRec, ForwardQuery
<1>3. Roots
  <2>. USE DEF RootPc, AggregatedPc
  <2>0. thread[t].pc \in RootPc \cup {"forward"} => IsRoot(t)
    BY DEF KeyInv, ForwardedToOthers
  <2>1. CASE HandleSurveyResultsQuery(t)
    BY <1>1, <2>1, GotoPutFields DEF HandleSurveyResultsQuery
  <2>2. CASE PutSurvey(t)
    <3>1. thread'[t].pc = AfterPut(t) /\ \A u \in Thread : u # t => thread'[u] = thread[u]
      BY <2>2, GotoFields DEF PutSurvey
    <3>2. AfterPut(t) \in RootPc \cup {"forward"} => IsRoot(t)
      BY <2>0, <2>2 DEF PutSurvey, PutPc, AfterPut
    <3>. QED  BY <1>1, <3>1, <3>2
  <2>3. CASE ForwardQuery(t)
    BY <1>1, <2>3, GotoFields DEF ForwardQuery
  <2>4. ASSUME NEW d \in DP, TakeDpToken(t, d)  PROVE Roots
    BY <2>0, <2>4 DEF TakeDpToken, TypeOK, ThreadRec, KeyInv, ForwardedToOthers
  <2>5. CASE SkipShuffling(t) \/ SkipTagging(t) \/ TimeOut(t)
    BY <1>1, <2>5, GotoFields DEF SkipShuffling, SkipTagging, TimeOut
  <2>6. CASE StartShuffling(t) \/ EndShuffling(t) \/ StartTagging(t) \/ EndTagging(t)
    BY <1>1, <2>6, GotoPutFields DEF StartShuffling, EndShuffling, StartTagging, EndTagging
  <2>7. CASE BroadcastDDTfinished(t)
    BY <1>1, <2>7, GotoFields DEF BroadcastDDTfinished
  <2>8. CASE EndAggregation(t) \/ RereadSurvey(t) \/ DeliverResults(t)
    BY <1>1, <2>0, <2>8, GotoPutFields DEF EndAggregation, RereadSurvey, DeliverResults
  <2>9. CASE StartKeySwitching(t)
    BY <1>1, <2>0, <2>9 DEF StartKeySwitching, TypeOK, ThreadRec
  <2>10. CASE EndKeySwitching(t)
    BY <1>1, <2>0, <2>10, GotoFields DEF EndKeySwitching
  <2>11. CASE thread' = thread
    BY <1>1, <2>0, <2>11
  <2>12. CASE StartAggregation(t)
    BY <1>1, <2>0, <2>11, <2>12, GotoFields DEF StartAggregation
  <2>. QED
    BY <2>1, <2>2, <2>3, <2>4, <2>5, <2>6, <2>7, <2>8, <2>9, <2>10, <2>11, <2>12
       DEF RunService, RunAggregation, HandleDDTfinished, PutPulled, EnterAggregation,
           TakeDDTToken
<1>4. \A u \in net'.query : ~ IsRoot(u)
  <2>1. CASE ForwardQuery(t)
    <3>1. IsRoot(t) /\ At(t) \in Server
      BY <2>1, ThreadType DEF ForwardQuery, KeyInv, ForwardedToOthers
    <3>2. \A u \in net'.query : u \in net.query \/ u \in {Asker(t)} \X Others(At(t))
      BY <2>1 DEF ForwardQuery, SendISMOthers, TypeOK, NetRec
    <3>3. \A u \in {Asker(t)} \X Others(At(t)) : ~ IsRoot(u)
      BY <3>1 DEF IsRoot, Others, Asker, At
    <3>. QED  BY <3>2, <3>3 DEF KeyInv, ForwardedToOthers
  <2>2. CASE net'.query \subseteq net.query
    BY <2>2 DEF KeyInv, ForwardedToOthers
  <2>. QED  BY <1>2, <2>1, <2>2
<1>. QED  BY <1>2, <1>3, <1>4 DEF ForwardedToOthers

(* When the query begins at the root no upload to it is left.              *)
LEMMA BeginsAfterUploads ==
  ASSUME SureKey, KeyInv, NEW t \in Thread, IsRoot(t), HandleSurveyResultsQuery(t)
  PROVE  ~ SameKey(t) => AllAcked(At(t))
<1>1. MayAsk(Asker(t)) /\ Asker(t) \in Querier
  BY ThreadType DEF HandleSurveyResultsQuery, KeyInv, ForwardedToOthers
<1>2. CASE PatientQuerier
  BY <1>1, <1>2 DEF MayAsk, AllAcked, Acked, Home
<1>3. CASE AppFlag /\ At(t) = Creator
  BY <1>1, <1>3 DEF MayAsk, Announced, KeyInv, LoadedFirst
<1>. QED  BY <1>1, <1>2, <1>3 DEF SureKey, SameKey, IsRoot

LEMMA RootKeyStep ==
  ASSUME SureKey, TypeOK, KeyInv, TaggedBeforeAggregation, TaggedBeforeAggregation',
         NEW t \in Thread, IsRoot(t), RunService(t) \/ RunAggregation(t),
         upload' = upload
  PROVE  RootKey(t)'
<1>1. RootKey(t)
  BY DEF KeyInv
<1>2. /\ At(t) \in Server
      /\ thread \in [Thread -> ThreadRec] /\ thread[t] \in ThreadRec
      /\ agg \in [Thread -> AggRec] /\ agg[t] \in AggRec
      /\ store \in [Server -> StoreRec] /\ store[At(t)] \in StoreRec
      /\ survey \in [Server -> SurveyRec] /\ survey[At(t)] \in SurveyRec
  BY ThreadFacts
<1>. DEFINE s == At(t)
            q == Asker(t)
<1>3. ~ SameKey(t) /\ thread'[t].pc # "idle" => AllAcked(s)'
  <2>1. thread[t].pc = "idle" /\ thread'[t].pc # "idle" => HandleSurveyResultsQuery(t)
    BY DEF RunService, RunAggregation, PutSurvey, PutPc, ForwardQuery,
           TakeDpToken, SkipShuffling, StartShuffling, EndShuffling, SkipTagging, StartTagging,
           EndTagging, BroadcastDDTfinished, HandleDDTfinished, EndAggregation, DeliverResults,
           StartKeySwitching, RereadSurvey, EndKeySwitching, TimeOut, StartAggregation,
           PutPulled, EnterAggregation, TakeDDTToken
  <2>. QED  BY <1>1, <2>1, BeginsAfterUploads DEF RootKey, AllAcked, Acked
(* A step that neither writes the survey's entry nor keeps a copy of it.   *)
<1>4. ASSUME survey' = survey, agg'[t].pc = "put" => agg[t].pc = "put" /\ agg'[t].copy = agg[t].copy,
             thread'[t].pc \notin PutPc \cup {"idle", "reread", "switching", "deliver"},
             thread[t].pc \notin {"idle", "put_key"}
      PROVE  RootKey(t)'
  BY <1>1, <1>3, <1>4 DEF RootKey, SameKey, AllAcked, Acked, PutPc
(* A step that keeps a copy of the entry as it is.                         *)
<1>5. ASSUME survey' = survey, agg' = agg, thread'[t].copy.ClientPubKey = survey[s].ClientPubKey,
             thread[t].pc \notin {"idle", "put_key"},
             thread'[t].pc \in PutPc \ {"put_key", "put_results", "put_deliverable"}
      PROVE  RootKey(t)'
  BY <1>1, <1>3, <1>5 DEF RootKey, SameKey, AllAcked, Acked, PutPc
<1>6. CASE HandleSurveyResultsQuery(t)
  <2>1. /\ thread'[t].pc = "put_key" /\ thread'[t].copy.ClientPubKey = q
        /\ survey' = survey /\ agg' = agg
    BY <1>2, <1>6, GotoPutFields DEF HandleSurveyResultsQuery, CopyWithKey, SurveyRec
  <2>. QED  BY <1>1, <1>3, <2>1 DEF RootKey, SameKey, PutPc
<1>7. CASE PutSurvey(t)
  <2>1. /\ thread[t].pc \in PutPc /\ survey'[s] = thread[t].copy
        /\ thread'[t].copy = thread[t].copy /\ thread'[t].key = thread[t].key
        /\ agg' = agg /\ store' = store /\ thread'[t].pc = AfterPut(t)
    BY <1>2, <1>7, GotoFields DEF PutSurvey
  <2>2. /\ AfterPut(t) \notin PutPc \cup {"idle", "switching"}
        /\ AfterPut(t) = "reread" => thread[t].pc = "put_results"
        /\ AfterPut(t) = "deliver" => thread[t].pc = "put_deliverable"
    BY <2>1 DEF AfterPut, PutPc
  <2>3. survey'[s].ClientPubKey = q
    BY <1>1, <2>1 DEF RootKey
  <2>4. /\ thread'[t].pc \in {"put_results", "reread", "switching"} => thread'[t].key = q
        /\ thread'[t].pc \in {"put_deliverable", "deliver"}
             => store'[s].DeliverableResults.key = q
    BY <1>1, <2>1, <2>2 DEF RootKey, PutPc
  <2>. QED  BY <1>1, <1>3, <2>1, <2>2, <2>3, <2>4 DEF RootKey, SameKey
<1>8. CASE ForwardQuery(t)
  BY <1>4, <1>8, GotoFields DEF ForwardQuery, PutPc
<1>9. ASSUME NEW d \in DP, TakeDpToken(t, d)  PROVE RootKey(t)'
  BY <1>2, <1>4, <1>9 DEF TakeDpToken, PutPc, ThreadRec
<1>10. CASE SkipShuffling(t) \/ SkipTagging(t) \/ TimeOut(t) \/ BroadcastDDTfinished(t)
  BY <1>4, <1>10, GotoFields DEF SkipShuffling, SkipTagging, TimeOut, BroadcastDDTfinished, PutPc
<1>11. CASE StartShuffling(t)
  BY <1>2, <1>5, <1>11, GotoPutFields DEF StartShuffling, PutPc, SurveyRec
<1>12. CASE EndShuffling(t) \/ EndTagging(t) \/ EndAggregation(t) \/ DeliverResults(t)
  BY <1>5, <1>12, GotoPutFields DEF EndShuffling, EndTagging, EndAggregation, DeliverResults, PutPc
<1>13. CASE StartTagging(t)
  BY <1>2, <1>5, <1>13, GotoPutFields DEF StartTagging, PutPc, SurveyRec
<1>14. ASSUME NEW r \in Server, HandleDDTfinished(t, r)  PROVE RootKey(t)'
  BY <1>1, <1>3, <1>14 DEF HandleDDTfinished, RootKey, SameKey
<1>15. CASE StartKeySwitching(t)
  <2>1. /\ thread[t].pc = "switch" /\ thread'[t].pc = "put_results"
        /\ thread'[t].copy.ClientPubKey = survey[s].ClientPubKey
        /\ thread'[t].key = survey[s].ClientPubKey
        /\ survey' = survey /\ agg' = agg
    BY <1>2, <1>15 DEF StartKeySwitching, ThreadRec, SurveyRec
  <2>. QED  BY <1>1, <1>3, <2>1 DEF RootKey, SameKey
<1>16. CASE RereadSurvey(t)
  <2>1. /\ thread[t].pc = "reread" /\ thread'[t].pc = "switching"
        /\ thread'[t].copy = survey[s] /\ thread'[t].key = thread[t].key
        /\ survey' = survey /\ agg' = agg
    BY <1>16, GotoPutFields DEF RereadSurvey
  <2>. QED  BY <1>1, <1>3, <2>1 DEF RootKey, SameKey
<1>17. CASE EndKeySwitching(t)
  <2>1. /\ thread[t].pc = "switching" /\ thread'[t].pc = "put_deliverable"
        /\ thread'[t].copy = thread[t].copy
        /\ store'[s].DeliverableResults.key = thread[t].key
        /\ survey' = survey /\ agg' = agg
    BY <1>2, <1>17, GotoFields DEF EndKeySwitching, StoreRec
  <2>. QED  BY <1>1, <1>3, <2>1 DEF RootKey, SameKey
<1>18. CASE StartAggregation(t)
  <2>1. /\ thread' = thread \/ (thread[t].pc = "aggregate" /\ thread'[t].pc = "aggregating")
        /\ agg'[t].pc = "put" /\ agg'[t].copy = survey[s] /\ survey' = survey
        /\ store'[s].DeliverableResults = store[s].DeliverableResults
    BY <1>2, <1>18, GotoFields DEF StartAggregation, AggRec, StoreRec
  <2>2. thread'[t].pc \in TaggedPc
    BY <2>1 DEF TaggedBeforeAggregation, Tagged
  <2>3. thread[t].pc \notin {"idle", "put_key"}
    BY <2>1, <2>2 DEF TaggedPc
  <2>. QED  BY <1>1, <1>3, <2>1, <2>3 DEF RootKey, SameKey, PutPc
<1>19. CASE PutPulled(t)
  <2>1. /\ agg[t].pc = "put" /\ agg'[t].pc = "wait" /\ survey'[s] = agg[t].copy
        /\ thread' = thread /\ store' = store
    BY <1>2, <1>19 DEF PutPulled, AggRec
  <2>. QED  BY <1>1, <1>3, <2>1 DEF RootKey, SameKey
<1>20. ASSUME EnterAggregation(t) \/ \E token \in Thread : TakeDDTToken(t, token)
       PROVE  RootKey(t)'
  <2>1. agg'[t].pc # "put" /\ thread' = thread /\ store' = store /\ survey' = survey
    BY <1>2, <1>20 DEF EnterAggregation, TakeDDTToken, AggRec
  <2>. QED  BY <1>1, <1>3, <2>1 DEF RootKey, SameKey
<1>21. CASE RunService(t)
  BY <1>6, <1>7, <1>8, <1>9, <1>10, <1>11, <1>12, <1>13, <1>14, <1>15, <1>16, <1>17, <1>21
     DEF RunService
<1>22. CASE RunAggregation(t)
  BY <1>18, <1>19, <1>20, <1>22 DEF RunAggregation
<1>. QED  BY <1>21, <1>22

LEMMA KeyInvStep ==
  ASSUME OneQuery, SureKey, TypeOK, KeyInv, TaggedBeforeAggregation, TaggedBeforeAggregation',
         [Next]_vars
  PROVE  KeyInv'
<1>1. ASSUME NEW t \in Thread, RunService(t) \/ RunAggregation(t)  PROVE KeyInv'
  <2>1. /\ upload' = upload /\ creation' = creation
        /\ ForwardedToOthers'
        /\ \A u \in Thread : thread'[u].pc \in RootPc => IsRoot(u)
    BY <1>1, OnlyOneTouched, RootSteps
  <2>2. LoadedFirst'
    BY <2>1 DEF KeyInv, LoadedFirst, AllAcked, Acked
  <2>3. ASSUME NEW u \in Thread, IsRoot(u)  PROVE RootKey(u)'
    <3>1. CASE u = t
      BY <1>1, <2>1, <2>3, <3>1, RootKeyStep
    <3>2. CASE u # t
      BY <1>1, <2>1, <2>3, <3>2, OnlyOneTouched, UntouchedKey DEF KeyInv
    <3>. QED  BY <3>1, <3>2
  <2>4. \A a \in answer' : a.key = a.querier
    <3>1. CASE DeliverResults(t)
      <4>1. thread[t].pc = "deliver" /\ IsRoot(t)
        BY <3>1 DEF DeliverResults, KeyInv, RootPc, AggregatedPc
      <4>2. store[At(t)].DeliverableResults.key = Asker(t)
        BY <4>1 DEF KeyInv, RootKey
      <4>. QED  BY <3>1, <4>2 DEF DeliverResults, KeyInv
    <3>2. CASE ~ DeliverResults(t)
      BY <1>1, <3>2, OnlyDeliveryAnswers DEF KeyInv
    <3>. QED  BY <3>1, <3>2
  <2>. QED  BY <2>1, <2>2, <2>3, <2>4 DEF KeyInv
<1>2. CASE UNCHANGED vars
  BY <1>2
     DEF vars, KeyInv, LoadedFirst, ForwardedToOthers, RootKey, SameKey, AllAcked, Acked
<1>. QED  BY <1>1, <1>2, CreateKeys, UploadKeys DEF Next

(* The results are switched to the key of the querier who asked, and it is *)
(* this querier who receives them, although an upload or an aggregation    *)
(* writes back a whole copy of the survey: with one query, and a key that  *)
(* no late copy can replace.                                               *)
THEOREM AnswerUnderQuerierKey ==
  ASSUME OneQuery, SureKey
  PROVE  Spec => []SwitchedToQuerier
<1>1. /\ KeyInv /\ TypeOK /\ TaggedBeforeAggregation /\ TaggedBeforeAggregation'
      /\ [Next]_vars
      => KeyInv'
  BY KeyInvStep
<1>2. KeyInv => SwitchedToQuerier
  BY DEF KeyInv, RootPc, AggregatedPc, RootKey, SwitchedToQuerier
<1>3. Spec => []TaggedBeforeAggregation
  BY TaggingBarrier DEF OneQuery
<1>. QED  BY <1>1, <1>2, <1>3, KeyInvInit, TypeCorrect, PTL DEF Spec
=============================================================================
