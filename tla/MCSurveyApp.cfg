\* AppFlag: every server loads its own data while it handles the creation query.
\* Sends fail in part and phases time out.
SPECIFICATION Spec
CONSTANTS
  s1 = s1  s2 = s2  s3 = s3
  d1 = d1  d2 = d2  d3 = d3
  Server = {s1, s2, s3}
  DP = {d1, d3}
  Querier = {q1}
  Creator = s1
  HomeOf <- EvenHome
  EntryOf <- Entry
  MapDPs <- ExactMapDPs
  ClearDP = {d3}
  Matching = {d1, d3}
  NoKey = NoKey
  CreationKey = NoKey
  ChanCap = 2
  AppFlag = TRUE
  SerialUploads = TRUE
  PatientQuerier = FALSE
  Faults = TRUE
INVARIANTS NoUnknownSurvey TaggedBeforeAggregation SwitchedToQuerier
PROPERTIES PromiseSpec
CHECK_DEADLOCK FALSE
