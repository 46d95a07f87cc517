\* A third of a list of proofs of joining servers is verified: out of range.
CONSTANTS
  VPARALLELIZE = 2
  MaxLength = 2
  Calls <- ThirdOfAddRm
  Faulty = {}
  Beta = {0}
  Empty = Empty
SPECIFICATION Spec
PROPERTIES CallReturns
CHECK_DEADLOCK FALSE
