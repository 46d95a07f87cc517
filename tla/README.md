# UnLynx in TLA+

This directory holds TLA+ models of UnLynx (Go, `src/`), the configurations that
check them with TLC, and theorems about them that TLAPS checks. UnLynx answers
aggregate queries over encrypted data: data providers encrypt their responses under
the collective key of a roster of servers; a querier asks for a sum grouped by some
attributes; the servers shuffle the responses, tag the attributes deterministically
so that equal plaintexts can be matched, aggregate group by group, and switch the
result to the querier's key. No server sees a plaintext.

`PROJECT.json` maps every definition that stands for code to the lines it stands
for, and lists runs, mutants, hazards and theorems. Line numbers below are of the
files under `src/`.

## 1. Inventory

### The system

| Component | Source | State it keeps | Operations | Module |
|---|---|---|---|---|
| Service | `services/service.go`, `lib/store/store.go`, `lib/tools/tools.go` | the ConcurrentMap of surveys; in each survey the query, the querier's key, `Lengths`, `TargetOfSwitch`, a pointer to the `Store`, three channels | five message handlers, `NewProtocol`, four phases, `PushData` | `SurveyService` |
| Collective aggregation | `protocols/collective_aggregation_protocol.go` | `GroupedData` of a node, channels of lengths and data | `Start`, `Dispatch`: announcement down a tree, sums up | `CollectiveAggregation` |
| Shuffling | `protocols/shuffling_protocol.go`, `lib/shuffle`, `protocols/tools_protocol.go` | precomputed values, in memory and in a `.gob` file | precomputation, `Start`, `Dispatch` around a ring | `Shuffling`, `ShufflingCircuit`, `CipherMatrix`, `Circuit` |
| Deterministic tagging | `protocols/deterministic_tagging_protocol.go`, `lib/deterministic_tag` | the survey secret of each server | `Start`, `Dispatch`: two rounds around a ring | `DeterministicTagging`, `Circuit` |
| Shuffling + tagging | `protocols/shuffling+ddt_protocol.go` | as above, and a key that travels with the data | `Start`, `Dispatch`: one round | `ShufflingPlusDDT`, `ShufflingCircuit`, `CipherMatrix`, `Circuit` |
| Key switching | `protocols/key_switching_protocol.go`, `lib/key_switch` | `NodeContribution` of a node | `Start` and `Dispatch` of the root as two goroutines, a tree | `KeySwitching` |
| Decryption | `lib/crypto.go` | the table `PointToInt` and the position of the search, shared by the process | `DecryptInt`, `DecryptIntWithNeg`, `CreateDecryptionTable` | `DecryptionTable` |
| Local protocols | `protocols/utils` | one result channel per protocol, a variable of the package | `Start`, `Dispatch` of four protocols | `LocalProtocols` |
| Clear pre-aggregation | `AddInClear` in `lib/store/store.go` | none | a function | `LocalProtocols` |
| Store and data path | `lib/store/store.go`, `lib/structs.go`, `protocols/tools_protocol.go`, `services/api.go` | responses of the data providers, rows after the shuffle, sums by group, answer | insert, pull and push of each stage, conversions between protocols, filter | `ResponseStore` |
| Zero-knowledge proofs | `lib/*/*_proofs.go` | lists that goroutines fill | create, encode, decode, verify, one and lists | `ProofPredicates`, `ProofLists` |
| Ciphertexts | `lib/crypto.go`, `lib/structs.go` | none | addition, encodings | in the modules that use them |
| Client API, app | `services/api.go`, `cmd/unlynx` | none | create, upload, ask | `SurveyService` (order of calls), `SurveyPromise`, `ResponseStore` (encryption of responses) |
| Results obfuscation (DRO) | `protocols/dro_protocol.go`, `lib/differential_privacy` | none | unreachable: `DIFFPRI` is a false constant | not modelled |
| Data files, simulations, command line, deployment | `data`, `simul`, `cmd`, `deployment` | none | input and output, measurement, start-up | not modelled |

### How the parts interact

A client creates a survey at one server (`HandleSurveyCreationQuery`), which creates it
in its own map, broadcasts the query (`SendISMOthers`) and takes one token per other
server from `SurveyChannel` before it returns the survey's ID: the *creation barrier*.
Data providers upload responses, each to one server (`HandleSurveyResponseQuery`,
`PushData`), which puts a token into `DpChannel`. A querier sends
`SurveyResultsQuery` to one server, the *root*, which forwards it to the others. Each
server then runs `StartService`: it waits for as many tokens as `MapDPs` says,
shuffles and tags its own responses (it is the root of these two protocols), and
broadcasts `DDTfinished`. The root of the query then starts the aggregation. Every
server's `NewProtocol` of the aggregation pulls its local aggregate and takes one token
per other server from `DDTChannel`: the *tagging barrier*. The root switches the result
to the querier's key and replies.

The onet library runs one goroutine per received message; it creates an instance of a
protocol at a server when the first message for it arrives, in a goroutine of its own
for `Dispatch`; it delivers messages of one sender in order, and hands those of all
children of a node over together.

### What is hard

* **Copy-on-read state.** `getSurvey` returns a copy of the struct and `putSurvey`
  overwrites the whole entry. Every handler is a read, some work and a write of a copy
  that may be stale. `Store` and the channels are shared through pointers; `Store` has
  no lock on its slices and most of its maps.
* **Two barriers** that count tokens without looking at where they come from, with no
  timeout.
* **Partial broadcast**, timeouts that leave a protocol running, goroutines blocked on
  unbuffered channels.
* **Message order**: lengths and data travel on two channels; two rounds of a protocol
  share one channel.
* **Arithmetic of layers**: each server adds or removes its share or secret exactly
  once, in any order.
* **State shared by a process**: the decryption table, the channels of the local
  protocols, the file of precomputed values.
* **Position as meaning**: rows, tags and results travel as plain vectors and are cut
  again by lengths and positions that were taken before a permutation.
* **Goroutines that fill a list** in chunks, with a wait group and an error they share.

### What makes each component correct

* *Service*: no message meets a server that has not created the survey; a service starts
  with all announced data; a phase decodes its result with the shape and target it was
  started with; nobody aggregates before everybody has tagged; an answer is the aggregate
  of all matching responses, once, under the key of the querier who asked; nobody waits
  for ever unless something failed.
* *Aggregation*: what the root reports is the sum over all nodes, or it reports nothing.
* *Shuffling*: plaintexts are kept, every server has shuffled, rows stay whole.
* *Tagging*: tags are equal exactly when plaintexts are, also across servers.
* *Key switching*: the new key decrypts what the collective key decrypted.
* *Decryption*: the result does not depend on what was decrypted before.
* *Local protocols*: a caller gets the result of its own instance.
* *Data path*: the querier is told every group once, with the sums over exactly the
  matching responses, whatever mix of clear, encrypted and missing attributes they had.
* *Proofs*: a list holds the proof of each of its elements, its verification says yes
  exactly when all elements are what they should be, and every call returns.

The hazards, each at its line, are listed in `PROJECT.json`.

## 2. The modules

All protocols work on points of a curve. A point is represented by its discrete
logarithm, an integer: adding points adds, multiplying by a scalar multiplies, and a
ciphertext is a pair `[K |-> r, C |-> m + r x]`. The order of the group is left out, so
that two different integers are never equal modulo it.

**SurveyService.** One survey, since all the state of the service is keyed by its ID.
`survey[s]` is the by-value part of the map's entry at server `s`, `store[s]` the
`Store`, `chan[s]` the three channels. A response is its data provider, and a set of
responses stands for their sum. Handlers and `StartService` are threads with a program
counter. Each `getSurvey` / work / `putSurvey` triple is split where another handler can
come in between: `upload[d]` goes through *read* (the copy of the survey and the old
slice), *write* (of the slice), *put* and *token*; `thread[t]` goes to a `put_...` state
that carries the copy to be written, and `PutSurvey` writes it. A protocol is the action
that starts it, with everything `NewProtocol` does at the root, and the action that takes
its result; the protocols' own modules show when that result is right. The aggregation's
`NewProtocol` has state of its own, `agg`, since it also runs at servers that have not
asked for it and holds the tagging barrier. Tokens carry who sent them so that
properties can speak of it; no guard reads it. `MapDPs`, `ChanCap` (100 in the code),
`AppFlag`, the homes of the data providers and the entry of the querier are constants.

**SurveyPromise.** The abstract specification: data providers hand over responses, and
each querier is answered at most once, with all matching responses, after all have been
handed over. `SurveyService` implements it under a refinement mapping that keeps only
acknowledged uploads and answers (`PromiseSpec`).

**CollectiveAggregation.** A tree given by `Parent` and, for the proofs, its subtrees
(`Below`). `Inputs` holds what the nodes may be
given; `Init` chooses. The two messages of a child are delivered in order, those of
several children in any interleaving, and the loop pairs the i-th length with the i-th
data. `FromBytes` cuts the data by the length it is told, whichever child's it is.

**Circuit, CipherMatrix, ShufflingCircuit.** The next node in a ring; matrices of
ciphertexts, their encoding with the lengths of the rows, permutation and
rerandomization; the constants of both shuffling protocols, the servers, their order and
whether there are faults.

**Shuffling.** `Inputs` holds the surveys that may be run (responses, `lineSize`,
`appFlag`, the file an earlier survey left); `Precompute` is the creation of the survey
at one server. Permutations and blinding factors are chosen nondeterministically.

**DeterministicTagging.** One instance per root, over different rings, at the same time.

**ShufflingPlusDDT.** The combined protocol: `StartRound` is the root's `Start`,
`TakeLength` and `ShuffleAndTag` are the two halves of `Dispatch`, and the key travels
with the matrix in `previousNode`. The definitions are named apart from those of
`Shuffling` (`RoundInit`, `RoundSpec`, `at`, ...) so that `ShufflingProofs` can extend both.
**KeySwitching.** `start` is the root's `Start`, `pc[Root]` its `Dispatch`.
**LocalProtocols.** `HandOver(i, j)` is the rendezvous of instance `i`'s send with
instance `j`'s receive on the package's channel; `result` is what a `Start` has computed,
`taken` what a `Dispatch` has received. `LocalInit`, `LocalNext` and `LocalSpec` are named
so that `SharedStateProofs` can extend this module together with `DecryptionTable`.
**DecryptionTable.** A call holds a mutex from the first access to the table to the last:
it is one step. `Searched` is the interval of integers the loop goes through.

**ResponseStore.** What `SurveyService` leaves abstract, the data: responses as the six
maps of `DpClearResponse`, and all conversions up to the answer. A ciphertext is its
plaintext; shuffling permutes, tagging is the operator `Tag`, aggregation adds, key
switching keeps plaintexts, as the modules of these protocols show. A phase is one
action, and so is one turn of the loop of `PushData`, so that uploads of several
responses interleave between servers. Each `range` over a map is a choice among all
orders. `Inputs` holds the surveys that may be run; a predicate is a set of conjunctions
of equalities, which names the parameters `v0`, `v1`, ... as `FilterResponses` numbers
them. `received`, `answered` and `published` are history variables. `TaggedAndFiltered` is the part of the tagging phase that the code does
row by row, from the tags to the filter. The reference (`GroupBySum`) works on clear
responses and shares no operator with the model.

**ProofPredicates.** The six kinds of proofs: a proof is the list of secrets and bases it
was made with, and verifies if each representation holds with the points of the verifier.
So `HashProve` makes a proof of anything, as kyber does, and only verification tells.
`PickScalar` is a fixed mixing function in place of the hash.
The equality of the sum with `R` in a tag addition proof is, in the code, a
`reflect.DeepEqual` of in-memory coordinates (`deterministic_tag_proofs.go:251`); the
model compares the points themselves. The two agree because these proofs are never
encoded in the repository and are only verified on sums made in the same process by the
same addition; an `R` that had been encoded and decoded would in general be the same point in
other coordinates, and the code would refuse it.

**ProofLists.** A list goes through the stages create, encode, decode and verify (`call`
holds the list and what all elements share). In each, the caller starts a goroutine per
chunk of `VPARALLELIZE` elements, or one per element after `StartParallelize`, and waits
for the counter; `at[i]` is the element the goroutine that began at `i` has come to.
`Faulty` says where an element may give an error. `DoneAfterError`, `Argument`, `Bound`
and `Fail` hold the ways in which the six kinds differ.

Each `MC...` module gives the constants of one of these their values for TLC. Operators
whose comment begins with *Mutant* are changed forms of the definition that follows them;
replacing it by the mutant must break a property (see `PROJECT.json`).

## 3. The runs

| Run | What it checks | Bounds |
|---|---|---|
| `survey_uploads` | Uploads and the results query run at the same time, the query at a server that did not create the survey. `StartsWithAllData`, `DecodesOwnShape` (no stale copy harms a phase), `EveryUploadAcked`, `EveryQueryAnswered`, `PromiseSpec` | 3 servers with 1, 2 and 0 data providers, one with clear data, one that does not match; channels of capacity 1 |
| `survey_app` | The app: every server loads its data in the creation handler, while broadcasts reach some servers only and phases time out. `NoUnknownSurvey`, `TaggedBeforeAggregation`, `SwitchedToQuerier`, `PromiseSpec` | 3 servers, 2 with data, every subset of servers as the reach of each broadcast |
| `aggregation` | `ResultIsWholeSum` against a reference sum, `NothingLeftBehind`, `RootGetsResult` | 5 nodes in a binary tree; groups, simple vectors of different lengths, or a missing reference; any set of timeouts |
| `shuffling` | `PlaintextsPreserved`, `ShuffledByAll`, `PrecomputationFits`, `ResponsesReturn` | 3 servers, 1 or 2 responses of 2 ciphertexts, all permutations, blinding by 1 or 3, lost messages and timeouts, files of the same roster |
| `shuffle_tag` | `KeyOfRemainingLayers`, `TagsMatchPlaintexts`, `TagsDelivered` | 3 servers, 2 rows of 2, all permutations, blinding by 1 or 3, lost messages and timeouts |
| `tagging` | `RoundsInOrder`, `TagsComparable` across roots, `TagsDelivered` | 3 servers, each a root with its own ring, 2, 3 and 0 ciphertexts, lost messages and timeouts |
| `switching` | `SwitchKeepsPlaintext`, `SubtreeSharesRemoved`, `ContributionSetBeforeUse`, `RootGetsResult` | 4 servers in a tree with a node of each kind, 2 ciphertexts, 2 values of each random scalar, lost messages, partial broadcasts and timeouts |
| `decryption` | `TableCorrect`, `NonNegativesDecrypt`, `NoGap` | all sequences of calls with values in -6..6 and a bound of 6 (100000 in the code) |
| `local` | `OwnResult`, `AddRmKeepsPlaintext`, `CallerAnswered` | six instances of the four protocols, two of which may time out; those of one protocol one after the other |
| `response_store` | `AnswerIsGroupBySum` against the reference, `AggregationProofsHold`, `LengthsUniform` | 3 servers, one without data; 108 one-query surveys over 3 queries and all mixes of clear, encrypted and incomplete responses; 3 surveys with two queries over encrypted or mixed responses; responses sent three times; all orders of maps and rows |
| `proof_lists` | `ListComplete`, `VerdictIsAll` against a reference that speaks of decryption only, `CallReturns` | lists of up to 3 right and wrong elements of each kind (of addition and shuffle: those that differ), chunks of 2, a share of 1 or 1/3, errors in any element |
| `survey_stale_key` | violated: `SwitchedToQuerier` | an upload at the root during the results query |

Type invariants are runs' business only where the types could be lost (`survey_uploads`,
`decryption`, and proved in section 4): in the first, a step that stored any key but a
querier's, or none, in a survey would leave `Key`. `TypeOK` of the other protocol modules documents
their variables; it holds in their runs and can be added to their configurations.

**Why the bounds are enough.** Three servers are the fewest that tell *one other* from
*all others* in a barrier and give a ring a node that is neither first nor last; four and
five nodes give a tree leaves at two depths, an inner node and a root with two children.
A token per server and capacity 1 make a sender block. Two rows of two elements tell a
permutation of rows from one of elements. Data are powers of two or values whose sums
differ, so that a result shows what is in it and how often. What a small bound cannot
show for all rosters, section 4 proves for the service and most of its protocols.

**What the passing runs assume.** Their configurations say so: uploads at one server do
not overlap (`SerialUploads`), a survey has one results query, either the survey was
created with the querier's key or the root has loaded its data before the ID is returned,
clear responses are not followed by a second query, siblings in an aggregation have
vectors of one length, proofs of a list of additions are of one addition, creation of
key switching and of tagging proofs gives no error, proofs of joining servers are
verified in full, predicates name parameters that exist (`PredicateFits`), files of precomputed values are of
the same roster and wide enough, and instances of a local protocol do not overlap. The
violation runs and the configurations of section 6 drop these assumptions one by one.

**Fairness.** Weak fairness of what each goroutine does next, of the delivery of
messages, and of the clients' requests: goroutines that can run are scheduled by Go, onet
delivers over TCP what was sent, and a test's clients do send. There is no fairness on
anything that fails: a send failure, a timeout or a launch that is refused need not
happen. Runs with faults state liveness as *the result, unless somebody failed*, since
most waits in the code have a timeout that nobody retries, and the others have none at
all: with a failed server the service waits for ever, which is in the list of hazards.
Deadlock checking is off for modules whose behaviours end.

**Faults.** A send that fails leaves its sender's handler with an error; a broadcast
reaches any subset; a phase or a `Dispatch` may stop waiting wherever the code has a
`time.After`. A stopped process is a thread that has failed. Messages are not duplicated
or reordered between two nodes (TCP).

## 4. What is proved

TLAPS checks these for every value of the constants, under the assumptions named in the
modules.

| Theorem | Statement |
|---|---|
| `SurveyServiceProofs!TypeCorrect` | `Spec => []TypeOK` |
| `SurveyServiceProofs!CreationBarrier` | `Spec => []NoUnknownSurvey` |
| `SurveyServiceProofs!TaggingBarrier` | with at most one querier, `Spec => []TaggedBeforeAggregation` |
| `SurveyServiceProofs!AllDataAtStart` | if uploads at a server do not overlap and every server announces the data providers it has, `Spec => []StartsWithAllData` |
| `SurveyServiceProofs!OwnShape` | the same, with at most one querier, `Spec => []DecodesOwnShape` |
| `SurveyServiceProofs!PromiseKept` | the same, `Spec => PromiseSpec`: the service implements `SurveyPromise` |
| `SurveyServiceProofs!AnswerUnderQuerierKey` | with at most one querier, whose key is that of the creation, or who waits for the uploads, or whose server has loaded its data at the creation, `Spec => []SwitchedToQuerier` |
| `KeySwitchingProofs!SwitchCorrect`, `SubtreesCorrect` | `Spec => []SwitchKeepsPlaintext`, `Spec => []SubtreeSharesRemoved` |
| `KeySwitchingProofs!ContributionSet` | if the root has a child, `Spec => []ContributionSetBeforeUse` |
| `CollectiveAggregationProofs!AllDataTaken` | `Spec => []NothingLeftBehind` |
| `CollectiveAggregationProofs!SumCorrect` | `Spec => [](OneWidth => ResultIsWholeSum)`: if the vectors below the root have one length and no leaf is without groups |
| `DeterministicTaggingProofs!RoundsCorrect`, `TagsCorrect` | `Spec => []RoundsInOrder`, `Spec => []TagsComparable` |
| `ShufflingProofs!EveryServerShuffles` | `Spec => []ShuffledByAll` |
| `ShufflingProofs!NothingPanics` | if all responses of a survey have the same attributes, and files of earlier surveys hold values for rows at least as long, `Spec => []PrecomputationFits` |
| `ShufflingProofs!ShufflingKeepsPlaintexts` | if all responses of a survey have the same attributes, and files of earlier surveys hold multiples of the collective key, `Spec => []PlaintextsPreserved` |
| `ShufflingProofs!KeyTravelsWithLayers` | `RoundSpec => []KeyOfRemainingLayers` |
| `ShufflingProofs!RoundTagsMatch` | if the rows of the root's matrix have one length, `RoundSpec => []TagsMatchPlaintexts` |
| `ShufflingProofs!RoundTypesCorrect` | the same, `RoundSpec => []RoundTypeOK` |
| `ShufflingProofs!DecodeEncode` | the bytes of a matrix, cut with the lengths of its rows, are the matrix |
| `SharedStateProofs!TableTyped` | `Spec => []TypeOK` |
| `SharedStateProofs!TableIsCorrect` | `Spec => []TableCorrect` |
| `SharedStateProofs!DecryptionCorrect` | `Spec => []NonNegativesDecrypt` |
| `SharedStateProofs!TableHasNoGap` | `Spec => []NoGap` |
| `SharedStateProofs!LocalTypesCorrect` | `LocalSpec => []LocalTypeOK` |
| `SharedStateProofs!CallerGetsOwnResult` | if instances of one protocol run one at a time and none of a protocol with several may time out, `LocalSpec => []OwnResult` |
| `SharedStateProofs!AddRmKeepsPlaintexts` | the same, `LocalSpec => []AddRmKeepsPlaintext` |
| `ResponseStoreProofs!RowsUniform` | `Spec => []LengthsUniform` |
| `ResponseStoreProofs!RowsStayWhole` | rows of one shape, permuted and cut with the lengths of other rows, are the rows in the order of the permutation |
| `ResponseStoreProofs!ProofsOfAggregationHold` | `Spec => []AggregationProofsHold` |
| `ResponseStoreProofs!AnswersAreRight` | `FreshData => (Spec => []AnswerIsGroupBySum)`: a survey has one query, or none of its responses is without encrypted group-by and where attributes |
| `ProofListsProofs!ListsComplete` | `NoDeparture => (Spec => []ListComplete)` |
| `ProofListsProofs!VerdictsComplete` | `NoDeparture => (Spec => []VerdictOfEach)`: the verification gives each element of the share the verdict of its own proof |
| `ProofListsProofs!VerdictsCorrect` | if the lists hold integers, points and ciphertexts and none is of shuffles, `NoDeparture => (Spec => []VerdictIsAll)` |
| `ProofListsProofs!WaitsEnd` | `WaitsForAll => (Spec => []NobodyWaitsInVain)`: in every state of a call that has not ended, the guard of one of its steps holds, and no goroutine panics |
| `ProofListsProofs!RightListsPass` | `NoDeparture => (Spec => []RightListsAccepted)`: lists of any kind, shuffles too, whose items of the share are `Honest` get a yes |
| `ProofListsProofs!ShuffleVerified` | the proof of a matrix that was shuffled as the protocol does is made without an error and verifies |
| `ProofListsProofs!KeySwitchVerified`, `TagVerified`, `AdditionVerified`, `AggregationVerified` | a proof that was made for an element verifies exactly if the element is `Honest` |
| `ProofListsProofs!AddRmVerified` | it verifies if the element is `Honest`; and only then if the left half was kept |

*Creation barrier.* `NoUnknownSurvey` is not inductive: that the creator's loop ends with
every server in `known` follows from where the counted tokens come from. `CreationInv`
adds that a handler that has begun has put its entry, that acknowledgements are sent,
queued and counted only on behalf of *other* servers that have the survey, and that no
query runs before the ID is returned. The counting step (`AllAcksMeansAll`) is that a
subset of the other servers with as many elements as there are is all of them.

*Tagging barrier.* `BarrierInv(X)` says where each `DDTfinished` token is: sent, queued
or counted, it is never the receiver's own, belongs to a thread of `X`, and is in one of
the three places only. It holds for the threads that have stored their tags (`Tagged`,
in `TaggingBarrier`) and for those of which the aggregation can still pull the data
(`Contributors`, in `PromiseKept`). With one querier, a full count is a count of all the
others, and both sets only grow. With two queriers the argument breaks exactly there, and
so does the property.

*Uploads.* That a server starts with all its data needs more than counting tokens.
`UploadInv` adds that a token stands for an acknowledged upload of the server's own data
provider and is taken once, that two uploads to one server are not under way at once, so
that the slice an upload writes back is the one it read (`SeenIsCurrent`), and that the
store has every response that was inserted unless a thread with all tokens took them.

*Phases and answer.* `DataInv` follows a query from phase to phase: what the store has
between two of them, which `Lengths` and `TargetOfSwitch` the thread's copy has, and which
threads have given their part to the aggregation. The one place where two servers meet is
the tagging barrier, hence `BarrierInv(Contributors)`. From it, `PromiseKept` maps every
step to a step of `SurveyPromise` or a stutter: an upload is counted when it is
acknowledged, an answer contains all that match. `KeyInv` says which key the root's copy
of the survey has at each step, and that a forwarded query overwrites only the entry of
another server.

*Aggregation.* That what has arrived at a node comes from different children, each of
which is done and has nothing under way (`DataInv`), is an injection from the received
data to the children; when there are as many as children, it reaches all of them
(`AllDelivered`), hence `NothingLeftBehind`. The data is paired with lengths that may be
those of another child, and all that is known of these is `LengthInv`: each is the length
some child has sent. So the sum is right if all children send vectors of one length, which
`OneWidth` says of what the nodes were given: vectors of w entries, no leaf without
groups, and between the leaves and the root also shorter vectors of a group all leaves
have, as when the service aggregates simple vectors. The inputs of the run `aggregation`
satisfy it; a leaf without groups is the counterexample of section 6. `SumInv` is then the
induction: what a node has sent is the aggregate of its subtree, in vectors of w entries.
`TotalIsSum` shows that the fold over a set of nodes in `SumOver` is a sum, in whatever
order it goes, and `SumOverUnion` that adding two aggregates, with their groups and their
padding, aggregates the union.

*Key switching.* A node counts messages; that the messages it has are one from each child
is an injection from the received vectors to children whose wires are empty (`DataInv`):
as many as there are children, it reaches all of them. The sum over the received vectors
is a recursive function along their positions; `BoundedInduct` shows that its i-th value
has removed the shares of the subtrees of the first i senders, which have no node in
common. `KeySumUnion` extends the recurrence of `KeySum` to unions.

*Tagging.* The messages of an instance are numbered in the order they are sent; `Hops`
says that with h of them sent, the one under way is number h, what it contains, and which
step each server is in, by comparing h with the number of the server's first message.
Hence a server's second message is a round later than its first, and the message that
returns has every secret added and multiplied and every share removed once. Tags are then
a bijection of the plaintext: the product of all secrets is not zero. Sums and products
over sets of servers are values shown to exist by induction over finite sets.

*Shuffling.* `HopInv` numbers the matrices in the order they are sent: with h of them
sent, the servers that are due to receive one of the first h have it, at most the next
one has its lengths without the data, and then whoever should have sent it has failed
(`SenderFailed`). As the root is due to receive the last, it waits for data only when all
others are done or have failed. What is on its way encodes a matrix made from the root's
(`MatrixInv`), and has its plaintexts in the order of some permutation if every server's
values are multiples of the collective key (`PairsInv`): `RerandomizeKeeps` for a
ciphertext, `ShuffleGood` for a matrix, `RebuiltKeeps` for the way back to responses. That
the receiver sees the matrix that was sent is `DecodeEncode`, by induction over the rows
with `BeforeSums` and `FlattenPrefixes`. The assumptions on the files are exactly what
fails in the two shuffling configurations of section 6; that responses have the same
attributes is what `LengthsUniform` says of the data path.

*Shuffling and tagging in one round.* `RoundHops` numbers the matrices in the same way.
`RoundMatrices` says what matrix number d has: the message carries the key
`KeyFrom(d)`, the sum of the shares of the servers that are still to work on it, and what
decryption under that key leaves of an element is `p * x + a`, where x is the plaintext of
the element it was made from and the product p # 0 and the number a are the same for the
whole matrix (`Kept`). A server multiplies p by its secret and takes its share from the
key (`OneElement`, `StepKeeps`), and a matrix that all have worked on is under no key. The
shares are added by a recursive function along the roster; `SumWithout` takes one server
out of the sum. That the key is right does not depend on what the matrix is; the tags need
rows of one length, as `DpResponse`s of a survey have them.

*Decryption.* `IInv` says that the search's two variables agree, that what it has passed
is in the table, and that the table is empty only at position 0. `SearchedInterval` turns
the loop into an interval of integers that ends at the point looked for.

*Local protocols.* One channel serves all instances of a protocol. `InStep` says that a
`Start` that has not sent yet has its own `Dispatch` waiting, or gave up on, and that no
two `Dispatch`es of a protocol are under way: the two that meet are then of the same
instance. A `Dispatch` that times out breaks it if another instance follows, and so does
an overlap; both are in section 6, and `OneAtATime` leaves out no more.

*Data path.* `LengthsUniform` needs of every store that all its rows are in `Row(query)`,
also those in the map of clear responses that are added up, and that the responses that
come in have integers under the names they have (`UploadedResponse`). The shuffle is where
it could break: `ShuffledRow` rests on `CutRow`, which says that a row cut with the
lengths of another row of the same shape is a row. `RowsStayWhole` says more, that it is
the same row.

*Answer.* The proof of `AnswersAreRight` compares collections of rows by what a sum by
group sees of them (`Alike`): the same keys, and for every set of keys and every attribute
the same total. `AInv` says of every server that its store, whatever the order and the mix
of its three kinds of responses, amounts to the rows of all responses received
(`StoredOK`, `Holds`); that the rows it shuffles amount to those it took at the start of
the query; that the map it publishes is `LocMap` of them, the matching rows added by
group; and that what the phases after the aggregation have is the map of all servers'
matching rows (`Target`). Each conversion of the data path has a lemma that it keeps this
(`PulledAlike`, `DummyAlike`, `ShuffledAlike`, `TaggedMap`); the dummy row that the code
adds to a single response has all sums 0 and a group that its neighbour has. `SumOver`,
the model's map of sums, is a fold over a set and is shown to be a sum whatever the order
(`SumOver` over a union is the sum of the maps, which is what the aggregation adds up).
`AnswerIsReference` then compares the answer with `GroupBySum`. `FreshData` is needed:
clear responses stay in their map after the first query (section 6). `AggregationProofsHold`
needs less (`PInv`): a map that is published was pushed into an empty one, so that each
of its entries is the sum of the values its proof was made of.

*Lists of proofs.* `Inv` says of every element whether it is stored: those before the
position of its goroutine are, and are made from the element with their number; goroutines
own disjoint chunks; what is neither stored nor owned is still to come; and the counter is
at least the number of goroutines that run or are still to be counted, so that it reaches
0 only when nobody is at work. `NoDeparture` leaves out what goes wrong (section 6): an
error in the creation of a tag proof, and different additions in one chunk. The same
invariant holds while a list is verified, of the share instead of the list, so that each
element gets the verdict of its own proof (`VerdictOfEach`); with what the predicates say
of each element, and what the encodings keep (`KeySwitchTravels`, `AggregationTravels`),
the verdict on the list follows. A share is at most the whole list (`ShareAssumption`).
What is safety in `CallReturns` has a proof with an invariant of its own (`WaitInv`): the
counter is exactly the number of goroutines that run or are still to be counted, so that
`Wait` returns when they are gone; positions stay in the range of the results.
`WaitsForAll` leaves out the two ways in which calls do not return (section 6): an error
in the creation of a key switch proof, and a share below 1 of a list of proofs of joining
or leaving servers. That every call ends follows with fairness, which TLC checks.

*Predicates.* Each theorem takes the conjunction apart into its representations and
compares them with what decryption says for two keys: equality of two lines at two points.
The proof of a joining server does not speak of the left half of the ciphertext, hence the
assumption in `AddRmVerified`. That the loop of `Acum` keeps plaintexts is an induction
over the ciphertexts (`AcumDecrypts`). A shuffle proof compresses each row to one
ciphertext, its inner products with scalars that the first row determines. Inner products
are linear (`InnerProductLinear`, by induction over the columns), so that compression
commutes with rerandomization and a right shuffle verifies (`ShuffleVerified`). The
converse is no theorem: only a random oracle makes the scalars independent of the rows,
and for given scalars the proof also verifies for other rows whose compressions agree.
That wrong shuffles of the lists of section 3 are turned down is checked by TLC.

Every invariant that a passing run checks is stated by a theorem above, under the
assumptions it names. Not in reach of the prover, and checked by TLC only: liveness
(`EveryUploadAcked`, `EveryQueryAnswered`, `ResponsesReturn`, `RootGetsResult`,
`TagsDelivered`, `CallerAnswered`, `CallReturns`) and `ENABLED`. Induction is
done over sets that are given as values (`FiniteInduct`, `BoundedInduct`), from the
well-foundedness of the subset ordering, since the library's induction theorems take an
operator. A recursive function needs a proof that it exists before its recurrence can be
used (`SumsExist`, `TotalIsSum`); hence loops over sequences of which something is proved
are written as recursive functions and not as folds. `KeySum` is a constant with its recurrence as an
assumption.

## 5. What is not modelled

* That nobody can make a proof that verifies without the secrets, and that it does not
  give them away: the hardness of discrete logarithms, in the kyber library. The proofs
  that a service makes and throws away (`shuffling_protocol.go`, `store.go:91`) are not
  sent to anybody.
* Results obfuscation: the flag is a false constant, and nothing reaches the code.
* Parsing of queries, byte encodings of points and responses, printing: functions
  without state.
* More than one survey, and a process that stops and takes its other goroutines along: a
  nil key (`service.go:567`), an error in `FilterResponses` (`:893`), `err.Error()` of a
  nil error in the goroutines of `StartProtocol` (`:609`). A second complete query is in
  `ResponseStore`, with the phases as single steps, and not in `SurveyService`.
* An upload of which one response cannot be decoded: `PushData` returns with the earlier
  ones in the store and no token sent (`service.go:219`).
* A roster of one server: the root of key switching is a leaf then, and its `Dispatch` may
  read `NodeContribution` before `Start` has set it (`key_switching_protocol.go:256`).
* `data/handle_data.go` and the simulations: sequential programs that write or read test
  data and measure time.
* A Go program that detects concurrent writes to a map stops; the model lets both
  writes happen.

## 6. Where the code departs from what it says

One departure is a run of its own (`survey_stale_key`; see the findings in
`PROJECT.json`). The following configurations reproduce others with `tlc -config X.cfg M.tla`; each ends with a
counterexample to its property.

| Configuration | Module | What happens |
|---|---|---|
| `MCSurveyRace.cfg` | `MCSurveyService` | two uploads at one server append to one slice without a lock: a response is lost and both are acknowledged (`store.go:84`) |
| `MCAggregationEmptyChild.cfg` | `MCCollectiveAggregation` | lengths and data are paired by order of arrival: with the lengths of a child without groups, the groups of its sibling are lost (`collective_aggregation_protocol.go:223`) |
| `MCResponseStoreSecondQuery.cfg` | `MCResponseStore` | `PullDpResponses` does not empty the map of clear responses, and a second query counts them again (`store.go:116`) |
| `MCProofListsSwitchFault.cfg` | `MCProofLists` | `Done` is deferred at the end of the goroutine: after an error the caller waits for ever (`key_switch_proofs.go:114`) |
| `MCProofListsTags.cfg` | `MCProofLists` | the shared `err` is tested in place of `tmpErr`: an empty proof is stored (`deterministic_tag_proofs.go:105`); all proofs of additions in a chunk are made from its first element (`deterministic_tag_proofs.go:212`; run with `-continue` to see both) |
| `MCProofListsShare.cfg` | `MCProofLists` | with a share below 1 the verification writes beyond its results (`add_rm_proofs.go:136`) |
| `MCSurveyTwoQueries.cfg` | `MCSurveyService` | `DDTChannel` mixes the messages of two queries for one survey; a server aggregates while another tags (`service.go:506`) |
| `MCShufflingOtherRoster.cfg` | `MCShuffling` | the `.gob` file is used whatever collective key it was made for, and plaintexts change (`shuffle.go:164`) |
| `MCShufflingNarrowFile.cfg` | `MCShuffling` | a file with shorter rows than the matrix makes the slice expression panic (`shuffle.go:36`) |
| `MCDecryptionComments.cfg` | `MCDecryptionTable` | a negative integer is found only if it is in the table or at least as large in size as the position of the search, otherwise 0 is returned (`crypto.go:346`); `CreateDecryptionTable(limit)` does nothing when `limit` is in the table already (`crypto.go:327`; run with `-continue` to see both) |
| `MCLocalOverlap.cfg` | `MCLocalProtocols` | overlapping instances of one local protocol exchange results (`local_aggregation_protocol.go:26`) |
| `MCLocalLate.cfg` | `MCLocalProtocols` | an instance that follows a timed-out one gets its result (`local_aggregation_protocol.go:90`) |
| `MCLocalWhere.cfg` | `MCLocalProtocols` | `AddInClear` reads the last where attribute only (`store.go:192`) |

A few more follow from the models and have no configuration of their own. `TaggingDet`
(`deterministic_tagging_protocol.go:313`) and the combined protocol
(`shuffling+ddt_protocol.go:241`) hand the key and the secret to
`DeterministicTagCrListProofCreation` in the other order than its parameters have
(`deterministic_tag.go:63` does not): such a proof does not verify, which is one of the
wrong lists of `proof_lists`; nobody notices, since nobody verifies it. And `aggr.Add` in
`PullCothorityAggregatedFilteredResponses` (`store.go:277`) adds the noise to the copy of
the loop, which would matter if `DIFFPRI` were true. The package comment of key switching
promises a sequential circuit, and the servers work in parallel in a tree
(`key_switching_protocol.go:5`, `:180`); a failed decryption returns 0 and not
`MaxHomomorphicInt` (`crypto.go:19`, `:378`).

## 7. Plan

Done, in this order, the service first because everything else runs inside it:
`SurveyService` and `SurveyPromise`; the four protocols of its phases; the combined
protocol; decryption; the local protocols; the type and barrier proofs; the proofs of
decryption; the zero-knowledge proofs and the theorems about their lists and predicates;
the data path of a survey and the theorem about the shape of its rows; the proofs about
uploads, phases and the answer, key switching, tagging, shuffling and aggregation, and
about the verdict on a list of proofs; the proofs about the local protocols, the combined
protocol, the answer of a survey, right shuffles and calls that get on. Next:

1. *Prove* more: that the protocols with two channels of their own are never stuck
   without faults, as `WaitsEnd` says of lists of proofs.
2. *Compose*: abstract specifications of shuffling, tagging, aggregation and key
   switching, each shown to be implemented by its protocol, and used by `SurveyService`
   in place of its start and result steps.
3. *Extend the service*: processes that stop, uploads that fail half-way, a second
   complete query in all its interleavings, the obfuscation phase as a variant.
