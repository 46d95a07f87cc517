\* Three servers; one response, or two with files of the same roster;
\* lost messages and timeouts.
SPECIFICATION FairSpec
CONSTANTS
  s1 = s1  s2 = s2  s3 = s3
  Server = {s1, s2, s3}
  List <- Circle
  Collective <- AggregateKey
  Inputs <- Surveys
  Beta = {1, 3}
  Faults = TRUE
INVARIANTS PlaintextsPreserved ShuffledByAll PrecomputationFits
PROPERTIES ResponsesReturn
CHECK_DEADLOCK FALSE
