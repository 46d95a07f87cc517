\* Three servers, two rows of two elements; lost messages and timeouts.
SPECIFICATION RoundFairSpec
CONSTANTS
  s1 = s1  s2 = s2  s3 = s3
  Server = {s1, s2, s3}
  List <- Circle
  Priv <- Shares
  Contrib <- Secrets
  TargetData <- TwoRows
  Beta = {1, 3}
  Faults = TRUE
INVARIANTS KeyOfRemainingLayers TagsMatchPlaintexts
PROPERTIES TagsDelivered
CHECK_DEADLOCK FALSE
