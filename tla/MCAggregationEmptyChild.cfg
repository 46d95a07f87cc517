\* One of two children has no group.
SPECIFICATION Spec
CONSTANTS
  n0 = n0  n1 = n1  n2 = n2  n3 = n3  n4 = n4
  gA = gA  gB = gB
  Node = {n0, n1, n2}
  Root = n0
  Parent <- Star
  Below <- StarSubtrees
  EMPTYKEY = EMPTYKEY
  Inputs <- OneEmpty
  Timeouts = FALSE
INVARIANTS ResultIsWholeSum
CHECK_DEADLOCK FALSE
