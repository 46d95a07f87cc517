\* Two results queries for one survey, the data provider still uploading.
SPECIFICATION Spec
CONSTANTS
  s1 = s1  s2 = s2  s3 = s3
  d1 = d1  d2 = d2  d3 = d3
  Server = {s1, s2, s3}
  DP = {d1}
  Querier = {q1, q2}
  Creator = s1
  HomeOf <- LastHome
  EntryOf <- Entry
  MapDPs <- ExactMapDPs
  ClearDP = {}
  Matching = {d1}
  NoKey = NoKey
  CreationKey = NoKey
  ChanCap = 2
  AppFlag = FALSE
  SerialUploads = TRUE
  PatientQuerier = FALSE
  Faults = FALSE
INVARIANTS TaggedBeforeAggregation
CHECK_DEADLOCK FALSE
CONSTRAINT SlowProvider
