\* The files are from a survey with fewer attributes.
SPECIFICATION Spec
CONSTANTS
  s1 = s1  s2 = s2  s3 = s3
  Server = {s1, s2, s3}
  List <- Circle
  Collective <- AggregateKey
  Inputs <- AfterNarrower
  Beta = {1, 3}
  Faults = FALSE
INVARIANT PrecomputationFits
CHECK_DEADLOCK FALSE
