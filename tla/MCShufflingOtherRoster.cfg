\* The file of two servers is from a survey of another roster.
SPECIFICATION Spec
CONSTANTS
  s1 = s1  s2 = s2  s3 = s3
  Server = {s1, s2, s3}
  List <- Circle
  Collective <- AggregateKey
  Inputs <- AfterOtherRoster
  Beta = {1, 3}
  Faults = FALSE
INVARIANT PlaintextsPreserved
CHECK_DEADLOCK FALSE
