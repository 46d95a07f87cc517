---------------------------- MODULE SurveyService ----------------------------
(***************************************************************************)
(* The UnLynx service of services/service.go: the servers of a cothority   *)
(* create a survey, collect the responses of data providers, and on a      *)
(* results query run shuffling, deterministic tagging, collective          *)
(* aggregation and key switching.                                          *)
(*                                                                         *)
(* One survey is modelled: all the state of the service is keyed by the    *)
(* survey's ID.  The state of a survey at one server has two parts that    *)
(* behave differently under concurrency:                                   *)
(*   - survey[s], the struct kept in the ConcurrentMap.  getSurvey returns *)
(*     a copy and putSurvey overwrites the whole entry, so that every      *)
(*     handler is a read, some work, and a write of a copy that may be     *)
(*     stale by then;                                                      *)
(*   - store[s] and chan[s], which every copy shares through the Store     *)
(*     pointer and the three Go channels.                                  *)
(* A protocol appears here as the step that starts it and the step that    *)
(* takes its result, which is the right one: the modules of the protocols  *)
(* show under which conditions it is.                                      *)
(*                                                                         *)
(* The channels carry the integer 1.  The model keeps, in each token, who  *)
(* sent it: no guard reads that, the loops only count tokens.              *)
(***************************************************************************)
EXTENDS Naturals, FiniteSets

CONSTANTS
  Server,          \* the servers of the roster
  DP,              \* the data providers, one response each
  Querier,         \* the results queries, one per querier
  Creator,         \* the server that receives the creation query
  HomeOf,          \* the server each data provider uploads to
  EntryOf,         \* the server each querier asks
  MapDPs,          \* number of uploads announced per server (Query.MapDPs)
  ClearDP,         \* data providers with clear where and group-by attributes
  Matching,        \* data providers whose response satisfies the predicate
  NoKey,           \* a nil ClientPubKey
  CreationKey,     \* the ClientPubKey of the creation query
  ChanCap,         \* the capacity of the three channels (100 in the code)
  AppFlag,         \* servers load their own data instead of data providers
  SerialUploads,   \* no two uploads overlap at one server
  PatientQuerier,  \* a querier asks only after every upload is acknowledged
  Faults           \* sends may fail and phases may time out

ASSUME ServerAssumption ==
  /\ IsFiniteSet(Server)
  /\ Creator \in Server
ASSUME ClientAssumption ==
  /\ IsFiniteSet(DP)
  /\ HomeOf \in [DP -> Server]
  /\ EntryOf \in [Querier -> Server]
  /\ MapDPs \in [Server -> Nat]
  /\ ClearDP \subseteq DP
  /\ Matching \subseteq DP
  /\ NoKey \notin Querier
  /\ CreationKey \in Querier \cup {NoKey}
ASSUME ModeAssumption ==
  /\ ChanCap \in Nat \ {0}
  /\ {AppFlag, SerialUploads, PatientQuerier, Faults} \subseteq BOOLEAN

VARIABLES
  known,     \* servers whose Survey map has an entry for the survey
  survey,    \* the by-value part of that entry, per server
  store,     \* the Store behind the entry, per server
  chan,      \* SurveyChannel, DpChannel and DDTChannel, per server
  creation,  \* progress of HandleSurveyCreationQuery, per server
  acks,      \* tokens the creator has taken from its SurveyChannel
  upload,    \* progress of each HandleSurveyResponseQuery
  thread,    \* progress of each HandleSurveyResultsQuery, per querier and server
  agg,       \* instance of the aggregation protocol, per querier and server
  net,       \* service messages sent and not yet handled
  answer     \* results returned to queriers

vars == <<known, survey, store, chan, creation, acks, upload, thread, agg, net, answer>>

Others(s) == Server \ {s}
Home(s) == {d \in DP : HomeOf[d] = s}

(* A thread runs a querier's request at one server.  The threads of one    *)
(* request form a round.                                                   *)
Thread == Querier \X Server
Asker(t) == t[1]
At(t) == t[2]
Round(q) == {q} \X Server
IsRoot(t) == At(t) = EntryOf[Asker(t)]

-----------------------------------------------------------------------------
Key == Querier \cup {NoKey}

(* Lengths remembers the shape of the matrix a protocol works on: that of  *)
(* the responses given to shuffling or of the results given to key         *)
(* switching; TargetOfSwitch the responses given to tagging.               *)
SurveyRec == [ClientPubKey : Key,
              Lengths : {"none", "responses", "results"},
              TargetOfSwitch : SUBSET DP]

Result == [data : SUBSET DP, key : Key]

StoreRec == [DpResponses : SUBSET DP,
             DpResponsesAggr : SUBSET DP,
             ShuffledProcessResponses : SUBSET DP,
             LocAggregatedProcessResponse : SUBSET DP,
             GroupedDeterministicFilteredResponses : SUBSET DP,
             DeliverableResults : Result]

ChanRec == [survey : SUBSET Server,
            dp : SUBSET DP,
            ddt : SUBSET Thread]

UploadRec == [pc : {"idle", "read", "write", "put", "token", "acked"},
              copy : SurveyRec,
              seen : SUBSET DP]

PutPc == {"put_key", "put_lengths", "put_shuffled", "put_target", "put_grouped",
          "put_cothority", "put_results", "put_deliverable", "put_answer"}

ThreadPc == PutPc \cup
  {"idle", "forward", "wait_dps", "shuffling", "tag", "tagging", "broadcast",
   "aggregate", "aggregating", "switch", "reread", "switching", "deliver",
   "done", "failed"}

ThreadRec == [pc : ThreadPc, copy : SurveyRec, held : SUBSET DP, key : Key,
              taken : SUBSET DP]

AggRec == [pc : {"none", "put", "wait", "in"}, copy : SurveyRec, held : SUBSET DP,
           taken : SUBSET Thread]

NetRec == [create : SUBSET Server,
           created : SUBSET Server,
           query : SUBSET Thread,
           ddt : SUBSET (Thread \X Server),
           announce : SUBSET Thread]

CreationPc == {"none", "broadcast", "ack", "loading", "waiting", "done", "failed"}

TypeOK ==
  /\ known \subseteq Server
  /\ survey \in [Server -> SurveyRec]
  /\ store \in [Server -> StoreRec]
  /\ chan \in [Server -> ChanRec]
  /\ creation \in [Server -> CreationPc]
  /\ acks \subseteq Server
  /\ upload \in [DP -> UploadRec]
  /\ thread \in [Thread -> ThreadRec]
  /\ agg \in [Thread -> AggRec]
  /\ net \in NetRec
  /\ answer \subseteq [querier : Querier, data : SUBSET DP, key : Key]

NewSurvey == [ClientPubKey |-> CreationKey, Lengths |-> "none", TargetOfSwitch |-> {}]

Init ==
  /\ known = {}
  /\ survey = [s \in Server |-> NewSurvey]
  /\ store = [s \in Server |->
                [DpResponses |-> {}, DpResponsesAggr |-> {},
                 ShuffledProcessResponses |-> {}, LocAggregatedProcessResponse |-> {},
                 GroupedDeterministicFilteredResponses |-> {},
                 DeliverableResults |-> [data |-> {}, key |-> NoKey]]]
  /\ chan = [s \in Server |-> [survey |-> {}, dp |-> {}, ddt |-> {}]]
  /\ creation = [s \in Server |-> "none"]
  /\ acks = {}
  /\ upload = [d \in DP |-> [pc |-> "idle", copy |-> NewSurvey, seen |-> {}]]
  /\ thread = [t \in Thread |->
                 [pc |-> "idle", copy |-> NewSurvey, held |-> {}, key |-> NoKey,
                  taken |-> {}]]
  /\ agg = [t \in Thread |->
              [pc |-> "none", copy |-> NewSurvey, held |-> {}, taken |-> {}]]
  /\ net = [create |-> {}, created |-> {}, query |-> {}, ddt |-> {}, announce |-> {}]
  /\ answer = {}

(* SendISMOthers tries every server and reports the sends that failed: the *)
(* servers it may reach.                                                   *)
SendISMOthers(s) == IF Faults THEN SUBSET Others(s) ELSE {Others(s)}

-----------------------------------------------------------------------------
(***************************************************************************)
(* Survey creation.  A handler that finds no entry for the survey returns  *)
(* an error; the guards s \in known stand for that test and NoUnknownSurvey *)
(* states that it never fails.                                             *)
(***************************************************************************)
CreateSurvey ==
  /\ creation[Creator] = "none"
  /\ creation' = [creation EXCEPT ![Creator] = "broadcast"]
  /\ known' = known \cup {Creator}
  /\ UNCHANGED <<survey, store, chan, acks, upload, thread, agg, net, answer>>

(* What follows the broadcast or the acknowledgement in the handler.       *)
AfterBroadcast(s) ==
  IF AppFlag THEN "loading" ELSE IF s = Creator THEN "waiting" ELSE "done"

BroadcastCreation ==
  /\ creation[Creator] = "broadcast"
  /\ \E reached \in SendISMOthers(Creator) :
       /\ net' = [net EXCEPT !.create = @ \cup reached]
       /\ creation' = [creation EXCEPT ![Creator] =
                         IF reached = Others(Creator) THEN AfterBroadcast(Creator)
                         ELSE "failed"]
  /\ UNCHANGED <<known, survey, store, chan, acks, upload, thread, agg, answer>>

ReceiveCreation(s) ==
  /\ s \in net.create
  /\ net' = [net EXCEPT !.create = @ \ {s}]
  /\ known' = known \cup {s}
  /\ creation' = [creation EXCEPT ![s] = "ack"]
  /\ UNCHANGED <<survey, store, chan, acks, upload, thread, agg, answer>>

AckCreation(s) ==
  /\ creation[s] = "ack"
  /\ \/ /\ net' = [net EXCEPT !.created = @ \cup {s}]
        /\ creation' = [creation EXCEPT ![s] = AfterBroadcast(s)]
     \/ /\ Faults
        /\ creation' = [creation EXCEPT ![s] = "failed"]
        /\ UNCHANGED net
  /\ UNCHANGED <<known, survey, store, chan, acks, upload, thread, agg, answer>>

HandleQueryBroadcastFinished(i) ==
  /\ i \in net.created
  /\ Creator \in known
  /\ Cardinality(chan[Creator].survey) < ChanCap
  /\ net' = [net EXCEPT !.created = @ \ {i}]
  /\ chan' = [chan EXCEPT ![Creator].survey = @ \cup {i}]
  /\ UNCHANGED <<known, survey, store, creation, acks, upload, thread, agg, answer>>

(* With AppFlag the handler itself pushes the server's data before going on. *)
(* Mutant: the data is loaded in the background.                           *)
LoadStarted(s) == \A d \in Home(s) : upload[d].pc # "idle"

AllLoaded(s) == \A d \in Home(s) : upload[d].pc = "acked"

DataLoaded(s) ==
  /\ creation[s] = "loading"
  /\ AllLoaded(s)
  /\ creation' = [creation EXCEPT ![s] = IF s = Creator THEN "waiting" ELSE "done"]
  /\ UNCHANGED <<known, survey, store, chan, acks, upload, thread, agg, net, answer>>

(* Mutants of the loop's condition: one token too few, one too many.       *)
AllAcksEarly == Cardinality(acks) + 1 >= Cardinality(Server) - 1
AllAcksLate == Cardinality(acks) >= Cardinality(Server)

AllAcks == Cardinality(acks) >= Cardinality(Server) - 1

TakeAck(i) ==
  /\ creation[Creator] = "waiting"
  /\ ~ AllAcks
  /\ i \in chan[Creator].survey
  /\ chan' = [chan EXCEPT ![Creator].survey = @ \ {i}]
  /\ acks' = acks \cup {i}
  /\ UNCHANGED <<known, survey, store, creation, upload, thread, agg, net, answer>>

ReturnSurveyID ==
  /\ creation[Creator] = "waiting"
  /\ AllAcks
  /\ creation' = [creation EXCEPT ![Creator] = "done"]
  /\ UNCHANGED <<known, survey, store, chan, acks, upload, thread, agg, net, answer>>

(* The survey's ID has been returned: clients may use it.                  *)
Announced == creation[Creator] = "done"

-----------------------------------------------------------------------------
(***************************************************************************)
(* Uploads: HandleSurveyResponseQuery and PushData.  The insertion into    *)
(* the shared store reads a slice or a map and writes it back, without a   *)
(* lock: two uploads at one server can read the same old value.  (Go may   *)
(* also stop the process when it notices concurrent writes to a map; that  *)
(* outcome is left out.)                                                   *)
(***************************************************************************)
MayUpload(d) ==
  /\ IF AppFlag THEN creation[HomeOf[d]] = "loading" ELSE Announced
  /\ SerialUploads =>
       \A e \in Home(HomeOf[d]) : upload[e].pc \in {"idle", "acked"}

StartUpload(d) ==
  /\ upload[d].pc = "idle"
  /\ MayUpload(d)
  /\ HomeOf[d] \in known
  /\ upload' = [upload EXCEPT ![d] = [@ EXCEPT !.pc = "read", !.copy = survey[HomeOf[d]]]]
  /\ UNCHANGED <<known, survey, store, chan, creation, acks, thread, agg, net, answer>>

ReadResponses(d) ==
  /\ upload[d].pc = "read"
  /\ upload' = [upload EXCEPT ![d] =
       [@ EXCEPT !.pc = "write",
                 !.seen = IF d \in ClearDP THEN store[HomeOf[d]].DpResponsesAggr
                                           ELSE store[HomeOf[d]].DpResponses]]
  /\ UNCHANGED <<known, survey, store, chan, creation, acks, thread, agg, net, answer>>

InsertDpResponse(d) ==
  /\ upload[d].pc = "write"
  /\ store' = IF d \in ClearDP
              THEN [store EXCEPT ![HomeOf[d]].DpResponsesAggr = upload[d].seen \cup {d}]
              ELSE [store EXCEPT ![HomeOf[d]].DpResponses = upload[d].seen \cup {d}]
  /\ upload' = [upload EXCEPT ![d].pc = "put"]
  /\ UNCHANGED <<known, survey, chan, creation, acks, thread, agg, net, answer>>

PutUpload(d) ==
  /\ upload[d].pc = "put"
  /\ survey' = [survey EXCEPT ![HomeOf[d]] = upload[d].copy]
  /\ upload' = [upload EXCEPT ![d].pc = "token"]
  /\ UNCHANGED <<known, store, chan, creation, acks, thread, agg, net, answer>>

SendDpToken(d) ==
  /\ upload[d].pc = "token"
  /\ Cardinality(chan[HomeOf[d]].dp) < ChanCap
  /\ chan' = [chan EXCEPT ![HomeOf[d]].dp = @ \cup {d}]
  /\ upload' = [upload EXCEPT ![d].pc = "acked"]
  /\ UNCHANGED <<known, survey, store, creation, acks, thread, agg, net, answer>>

-----------------------------------------------------------------------------
(***************************************************************************)
(* The results query: HandleSurveyResultsQuery and StartService.           *)
(***************************************************************************)
Goto(t, pc) == thread' = [thread EXCEPT ![t].pc = pc]

(* Keep a copy that the next step writes back, and the data a protocol has *)
(* been given.                                                             *)
GotoPut(t, pc, copy, held) ==
  thread' = [thread EXCEPT ![t] = [@ EXCEPT !.pc = pc, !.copy = copy, !.held = held]]

MayAsk(q) ==
  /\ Announced
  /\ PatientQuerier => \A d \in DP : upload[d].pc = "acked"

(* Mutant: the handler stores the public key of its own server.            *)
CopyWithServerKey(t) == [survey[At(t)] EXCEPT !.ClientPubKey = At(t)]

CopyWithKey(t) == [survey[At(t)] EXCEPT !.ClientPubKey = Asker(t)]

HandleSurveyResultsQuery(t) ==
  /\ thread[t].pc = "idle"
  /\ \/ IsRoot(t) /\ MayAsk(Asker(t))
     \/ t \in net.query
  /\ At(t) \in known
  /\ net' = [net EXCEPT !.query = @ \ {t}]
  /\ GotoPut(t, "put_key", CopyWithKey(t), {})
  /\ UNCHANGED <<known, survey, store, chan, creation, acks, upload, agg, answer>>

(* The step after each putSurvey of a thread.                              *)
AfterPut(t) ==
  LET pc == thread[t].pc
  IN  CASE pc = "put_key" -> IF IsRoot(t) THEN "forward" ELSE "wait_dps"
        [] pc = "put_lengths" -> "shuffling"
        [] pc = "put_shuffled" -> "tag"
        [] pc = "put_target" -> "tagging"
        [] pc = "put_grouped" -> "broadcast"
        [] pc = "put_cothority" -> "switch"
        [] pc = "put_results" -> "reread"
        [] pc = "put_deliverable" -> "deliver"
        [] pc = "put_answer" -> "done"

PutSurvey(t) ==
  /\ thread[t].pc \in PutPc
  /\ survey' = [survey EXCEPT ![At(t)] = thread[t].copy]
  /\ Goto(t, AfterPut(t))
  /\ UNCHANGED <<known, store, chan, creation, acks, upload, agg, net, answer>>

ForwardQuery(t) ==
  /\ thread[t].pc = "forward"
  /\ \E reached \in SendISMOthers(At(t)) :
       /\ net' = [net EXCEPT !.query = @ \cup ({Asker(t)} \X reached)]
       /\ Goto(t, IF reached = Others(At(t)) THEN "wait_dps" ELSE "failed")
  /\ UNCHANGED <<known, survey, store, chan, creation, acks, upload, agg, answer>>

(* Mutant: the loop ends one data provider early.                          *)
AllDPsEarly(t) == Cardinality(thread[t].taken) + 1 >= MapDPs[At(t)]

AllDPs(t) == Cardinality(thread[t].taken) >= MapDPs[At(t)]

TakeDpToken(t, d) ==
  /\ thread[t].pc = "wait_dps"
  /\ ~ AllDPs(t)
  /\ d \in chan[At(t)].dp
  /\ chan' = [chan EXCEPT ![At(t)].dp = @ \ {d}]
  /\ thread' = [thread EXCEPT ![t].taken = @ \cup {d}]
  /\ UNCHANGED <<known, survey, store, creation, acks, upload, agg, net, answer>>

Responses(s) == store[s].DpResponses \cup store[s].DpResponsesAggr

SkipShuffling(t) ==
  /\ thread[t].pc = "wait_dps"
  /\ AllDPs(t)
  /\ Responses(At(t)) = {}
  /\ Goto(t, "tag")
  /\ UNCHANGED <<known, survey, store, chan, creation, acks, upload, agg, net, answer>>

(* NewProtocol of shuffling at its root: PullDpResponses empties only the  *)
(* slice, not the map of aggregated clear responses.                       *)
StartShuffling(t) ==
  LET s == At(t)
  IN  /\ thread[t].pc = "wait_dps"
      /\ AllDPs(t)
      /\ Responses(s) # {}
      /\ GotoPut(t, "put_lengths", [survey[s] EXCEPT !.Lengths = "responses"], Responses(s))
      /\ store' = [store EXCEPT ![s].DpResponses = {}]
      /\ UNCHANGED <<known, survey, chan, creation, acks, upload, agg, net, answer>>

(* The ring visits every server: each one's NewProtocol finds the survey.  *)
EndShuffling(t) ==
  LET s == At(t)
  IN  /\ thread[t].pc = "shuffling"
      /\ Server \subseteq known
      /\ GotoPut(t, "put_shuffled", survey[s], {})
      /\ store' = [store EXCEPT ![s].ShuffledProcessResponses = @ \cup thread[t].held]
      /\ UNCHANGED <<known, survey, chan, creation, acks, upload, agg, net, answer>>

SkipTagging(t) ==
  /\ thread[t].pc = "tag"
  /\ store[At(t)].ShuffledProcessResponses = {}
  /\ Goto(t, "broadcast")
  /\ UNCHANGED <<known, survey, store, chan, creation, acks, upload, agg, net, answer>>

StartTagging(t) ==
  LET s == At(t)
      shuffled == store[s].ShuffledProcessResponses
  IN  /\ thread[t].pc = "tag"
      /\ shuffled # {}
      /\ GotoPut(t, "put_target", [survey[s] EXCEPT !.TargetOfSwitch = shuffled], shuffled)
      /\ store' = [store EXCEPT ![s].ShuffledProcessResponses = {}]
      /\ UNCHANGED <<known, survey, chan, creation, acks, upload, agg, net, answer>>

(* The responses that satisfy the predicate.                               *)
FilterResponses(responses) == responses \cap Matching

(* The tags are joined with the attributes kept in survey.TargetOfSwitch;  *)
(* the responses the predicate rejects are dropped.                        *)
EndTagging(t) ==
  LET s == At(t)
  IN  /\ thread[t].pc = "tagging"
      /\ Server \subseteq known
      /\ GotoPut(t, "put_grouped", survey[s], {})
      /\ store' = [store EXCEPT ![s].LocAggregatedProcessResponse =
                     @ \cup FilterResponses(survey[s].TargetOfSwitch)]
      /\ UNCHANGED <<known, survey, chan, creation, acks, upload, agg, net, answer>>

BroadcastDDTfinished(t) ==
  /\ thread[t].pc = "broadcast"
  /\ \E reached \in SendISMOthers(At(t)) :
       /\ net' = [net EXCEPT !.ddt = @ \cup ({t} \X reached)]
       /\ Goto(t, IF reached # Others(At(t)) THEN "failed"
                  ELSE IF IsRoot(t) THEN "aggregate" ELSE "done")
  /\ UNCHANGED <<known, survey, store, chan, creation, acks, upload, agg, answer>>

HandleDDTfinished(t, s) ==
  /\ <<t, s>> \in net.ddt
  /\ s \in known
  /\ Cardinality(chan[s].ddt) < ChanCap
  /\ net' = [net EXCEPT !.ddt = @ \ {<<t, s>>}]
  /\ chan' = [chan EXCEPT ![s].ddt = @ \cup {t}]
  /\ UNCHANGED <<known, survey, store, creation, acks, upload, thread, agg, answer>>

-----------------------------------------------------------------------------
(***************************************************************************)
(* Collective aggregation: NewProtocol runs at the root inside the phase,  *)
(* elsewhere when the announcement arrives.  It pulls the local aggregate  *)
(* first and only then waits for the DDTfinished of the other servers.     *)
(***************************************************************************)
StartAggregation(t) ==
  LET s == At(t)
  IN  /\ agg[t].pc = "none"
      /\ s \in known
      /\ \/ /\ thread[t].pc = "aggregate"
            /\ Goto(t, "aggregating")
            /\ UNCHANGED net
         \/ /\ t \in net.announce
            /\ net' = [net EXCEPT !.announce = @ \ {t}]
            /\ UNCHANGED thread
      /\ agg' = [agg EXCEPT ![t] =
                   [@ EXCEPT !.pc = "put", !.copy = survey[s],
                             !.held = store[s].LocAggregatedProcessResponse]]
      /\ store' = [store EXCEPT ![s].LocAggregatedProcessResponse = {}]
      /\ UNCHANGED <<known, survey, chan, creation, acks, upload, answer>>

PutPulled(t) ==
  /\ agg[t].pc = "put"
  /\ survey' = [survey EXCEPT ![At(t)] = agg[t].copy]
  /\ agg' = [agg EXCEPT ![t].pc = "wait"]
  /\ UNCHANGED <<known, store, chan, creation, acks, upload, thread, net, answer>>

(* Mutants: the loop over DDTChannel counts one server too few or too many. *)
AllTaggedEarly(t) == Cardinality(agg[t].taken) + 1 >= Cardinality(Server) - 1
AllTaggedLate(t) == Cardinality(agg[t].taken) >= Cardinality(Server)

AllTagged(t) == Cardinality(agg[t].taken) >= Cardinality(Server) - 1

TakeDDTToken(t, token) ==
  /\ agg[t].pc = "wait"
  /\ ~ AllTagged(t)
  /\ token \in chan[At(t)].ddt
  /\ chan' = [chan EXCEPT ![At(t)].ddt = @ \ {token}]
  /\ agg' = [agg EXCEPT ![t].taken = @ \cup {token}]
  /\ UNCHANGED <<known, survey, store, creation, acks, upload, thread, net, answer>>

(* The root announces the data reference; the others send their aggregate. *)
EnterAggregation(t) ==
  /\ agg[t].pc = "wait"
  /\ AllTagged(t)
  /\ agg' = [agg EXCEPT ![t].pc = "in"]
  /\ net' = [net EXCEPT !.announce =
               @ \cup (IF IsRoot(t) THEN {Asker(t)} \X Others(At(t)) ELSE {})]
  /\ UNCHANGED <<known, survey, store, chan, creation, acks, upload, thread, answer>>

EndAggregation(t) ==
  /\ thread[t].pc = "aggregating"
  /\ \A u \in Round(Asker(t)) : agg[u].pc = "in"
  /\ GotoPut(t, "put_cothority", survey[At(t)], {})
  /\ store' = [store EXCEPT ![At(t)].GroupedDeterministicFilteredResponses =
                 @ \cup UNION {agg[u].held : u \in Round(Asker(t))}]
  /\ UNCHANGED <<known, survey, chan, creation, acks, upload, agg, net, answer>>

-----------------------------------------------------------------------------
(* Key switching and the reply.                                            *)
StartKeySwitching(t) ==
  LET s == At(t)
  IN  /\ thread[t].pc = "switch"
      /\ thread' = [thread EXCEPT ![t] =
           [@ EXCEPT !.pc = "put_results",
                     !.copy = [survey[s] EXCEPT !.Lengths = "results"],
                     !.held = store[s].GroupedDeterministicFilteredResponses,
                     !.key = survey[s].ClientPubKey]]
      /\ store' = [store EXCEPT ![s].GroupedDeterministicFilteredResponses = {}]
      /\ UNCHANGED <<known, survey, chan, creation, acks, upload, agg, net, answer>>

(* KeySwitchingPhase copies the survey before it waits for the protocol.   *)
RereadSurvey(t) ==
  /\ thread[t].pc = "reread"
  /\ GotoPut(t, "switching", survey[At(t)], thread[t].held)
  /\ UNCHANGED <<known, survey, store, chan, creation, acks, upload, agg, net, answer>>

(* With a nil key the root's Start panics when it encodes the key, and the *)
(* protocol does not end.                                                  *)
EndKeySwitching(t) ==
  /\ thread[t].pc = "switching"
  /\ thread[t].key # NoKey
  /\ Server \subseteq known
  /\ Goto(t, "put_deliverable")
  /\ store' = [store EXCEPT ![At(t)].DeliverableResults =
                 [data |-> thread[t].held, key |-> thread[t].key]]
  /\ UNCHANGED <<known, survey, chan, creation, acks, upload, agg, net, answer>>

DeliverResults(t) ==
  LET s == At(t)
      result == store[s].DeliverableResults
  IN  /\ thread[t].pc = "deliver"
      /\ GotoPut(t, "put_answer", survey[s], {})
      /\ store' = [store EXCEPT ![s].DeliverableResults = [@ EXCEPT !.data = {}]]
      /\ answer' = answer \cup
           {[querier |-> Asker(t), data |-> result.data, key |-> result.key]}
      /\ UNCHANGED <<known, survey, chan, creation, acks, upload, agg, net>>

(* A phase that got no result within TIMEOUT returns an error.  The timer  *)
(* starts after NewProtocol: nothing bounds the wait for DDTfinished.      *)
TimeOut(t) ==
  /\ Faults
  /\ \/ thread[t].pc \in {"shuffling", "tagging", "switching"}
     \/ thread[t].pc = "aggregating" /\ agg[t].pc = "in"
  /\ Goto(t, "failed")
  /\ UNCHANGED <<known, survey, store, chan, creation, acks, upload, agg, net, answer>>

-----------------------------------------------------------------------------
Create ==
  \/ CreateSurvey
  \/ BroadcastCreation
  \/ \E s \in Server : ReceiveCreation(s) \/ AckCreation(s) \/ DataLoaded(s)
  \/ \E i \in Server : HandleQueryBroadcastFinished(i) \/ TakeAck(i)
  \/ ReturnSurveyID

Upload(d) ==
  StartUpload(d) \/ ReadResponses(d) \/ InsertDpResponse(d) \/ PutUpload(d) \/ SendDpToken(d)

RunService(t) ==
  \/ HandleSurveyResultsQuery(t) \/ PutSurvey(t) \/ ForwardQuery(t)
  \/ \E d \in DP : TakeDpToken(t, d)
  \/ SkipShuffling(t) \/ StartShuffling(t) \/ EndShuffling(t)
  \/ SkipTagging(t) \/ StartTagging(t) \/ EndTagging(t)
  \/ BroadcastDDTfinished(t)
  \/ \E s \in Server : HandleDDTfinished(t, s)
  \/ EndAggregation(t)
  \/ StartKeySwitching(t) \/ RereadSurvey(t) \/ EndKeySwitching(t) \/ DeliverResults(t)
  \/ TimeOut(t)

RunAggregation(t) ==
  \/ StartAggregation(t) \/ PutPulled(t) \/ EnterAggregation(t)
  \/ \E token \in Thread : TakeDDTToken(t, token)

Next ==
  \/ Create
  \/ \E d \in DP : Upload(d)
  \/ \E t \in Thread : RunService(t) \/ RunAggregation(t)

Spec == Init /\ [][Next]_vars

(* Goroutines that can run do run, messages are delivered, and the clients *)
(* of a test do send their requests.                                       *)
Fairness ==
  /\ WF_vars(Create)
  /\ \A d \in DP : WF_vars(Upload(d))
  /\ \A t \in Thread : WF_vars(RunService(t)) /\ WF_vars(RunAggregation(t))

FairSpec == Spec /\ Fairness

-----------------------------------------------------------------------------
(***************************************************************************)
(* Properties.                                                             *)
(***************************************************************************)

(* The creation barrier: once a client has the survey's ID every server    *)
(* has the survey, and no message reaches a server that does not, so that  *)
(* getSurvey never returns "empty map entry".                              *)
NoUnknownSurvey ==
  /\ Announced => known = Server
  /\ net.created # {} => Creator \in known
  /\ \A t \in net.query \cup net.announce : At(t) \in known
  /\ \A m \in net.ddt : m[2] \in known

(* "To wait for all data to be read before starting unlynx service         *)
(* protocol": when the loop over DpChannel ends, the store of the server   *)
(* holds the response of each of its data providers.                       *)
StartsWithAllData ==
  \A t \in Thread :
    thread[t].pc = "wait_dps" /\ AllDPs(t) => Responses(At(t)) = Home(At(t))

(* The copy of the survey that a phase reads back when its protocol ends   *)
(* still has the shape and the target that this protocol was started with: *)
(* no concurrent putSurvey of an older copy has erased them.               *)
DecodesOwnShape ==
  \A t \in Thread :
    /\ thread[t].pc = "shuffling" => survey[At(t)].Lengths = "responses"
    /\ thread[t].pc = "tagging" => survey[At(t)].TargetOfSwitch = thread[t].held
    /\ thread[t].pc = "switching" => thread[t].copy.Lengths = "results"

(* The thread has stored its tagged responses (or has given up).           *)
TaggedPc == {"broadcast", "aggregate", "aggregating", "put_cothority", "switch",
             "put_results", "reread", "switching", "put_deliverable", "deliver",
             "put_answer", "done", "failed"}

Tagged(t) == thread[t].pc \in TaggedPc

(* "waits for all other nodes to finish the tagging phase": a server's     *)
(* local aggregate is pulled only after its tagging has been stored, even  *)
(* though NewProtocol pulls before it waits, and a server goes on to       *)
(* aggregate only when all the others have stored theirs.                  *)
TaggedBeforeAggregation ==
  \A t \in Thread :
    /\ agg[t].pc # "none" => Tagged(t)
    /\ agg[t].pc = "in" => \A u \in Round(Asker(t)) : Tagged(u)

(* "decrypt the response using its private key": what a query's key        *)
(* switching is given, and what its querier receives, is under the public  *)
(* key of that querier, although every handler writes back a whole copy of *)
(* the survey, key included.                                               *)
SwitchedToQuerier ==
  /\ \A t \in Thread :
       thread[t].pc \in {"put_results", "reread", "switching"} => thread[t].key = Asker(t)
  /\ \A a \in answer : a.key = a.querier

(* Every data provider's upload is acknowledged, although the handler      *)
(* blocks on a full DpChannel.                                             *)
EveryUploadAcked == \A d \in DP : <>(upload[d].pc = "acked")

(* Every results query is answered: none of the three waits without a      *)
(* timeout (SurveyChannel, DpChannel, DDTChannel) lasts forever.           *)
EveryQueryAnswered == \A q \in Querier : <>(\E a \in answer : a.querier = q)

(* The servers together keep the promise of SurveyPromise.                 *)
Promise == INSTANCE SurveyPromise WITH
  given <- {d \in DP : upload[d].pc = "acked"},
  result <- {[querier |-> a.querier, data |-> a.data] : a \in answer}

PromiseSpec == Promise!Spec
=============================================================================
