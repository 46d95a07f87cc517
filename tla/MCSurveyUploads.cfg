\* Data providers upload while the querier already asks, at a server that did
\* not create the survey; DpChannel holds one token.
SPECIFICATION FairSpec
CONSTANTS
  s1 = s1  s2 = s2  s3 = s3
  d1 = d1  d2 = d2  d3 = d3
  Server = {s1, s2, s3}
  DP = {d1, d2, d3}
  Querier = {q1}
  Creator = s1
  HomeOf <- UnevenHome
  EntryOf <- OtherEntry
  MapDPs <- ExactMapDPs
  ClearDP = {d2}
  Matching = {d1, d2}
  NoKey = NoKey
  CreationKey = q1
  ChanCap = 1
  AppFlag = FALSE
  SerialUploads = TRUE
  PatientQuerier = FALSE
  Faults = FALSE
INVARIANTS TypeOK StartsWithAllData DecodesOwnShape
PROPERTIES EveryUploadAcked EveryQueryAnswered PromiseSpec
CHECK_DEADLOCK FALSE
