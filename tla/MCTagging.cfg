\* Three servers, each the root of one instance; lost messages and timeouts.
SPECIFICATION FairSpec
CONSTANTS
  s1 = s1  s2 = s2  s3 = s3
  Server <- Trio
  ListOf <- Lists
  Priv <- Shares
  Contrib <- Secrets
  Target <- Targets
  KeySum <- ShareSum
  Faults = TRUE
INVARIANTS RoundsInOrder TagsComparable
PROPERTIES TagsDelivered
CHECK_DEADLOCK FALSE
