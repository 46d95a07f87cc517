\* Two uploads overlap at the root.
SPECIFICATION Spec
CONSTANTS
  s1 = s1  s2 = s2  s3 = s3
  d1 = d1  d2 = d2  d3 = d3
  Server = {s1, s2, s3}
  DP = {d1, d3}
  Querier = {q1}
  Creator = s1
  HomeOf <- RaceHome
  EntryOf <- Entry
  MapDPs <- ExactMapDPs
  ClearDP = {}
  Matching = {d1, d3}
  NoKey = NoKey
  CreationKey = NoKey
  ChanCap = 2
  AppFlag = FALSE
  SerialUploads = FALSE
  PatientQuerier = TRUE
  Faults = FALSE
INVARIANTS StartsWithAllData
CHECK_DEADLOCK FALSE
