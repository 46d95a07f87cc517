\* Five nodes in a binary tree with groups, with simple vectors, or with a
\* missing reference; nodes may give up waiting for the announcement.
SPECIFICATION FairSpec
CONSTANTS
  n0 = n0  n1 = n1  n2 = n2  n3 = n3  n4 = n4
  gA = gA  gB = gB
  Node = {n0, n1, n2, n3, n4}
  Root = n0
  Parent <- BinaryTree
  Below <- BinarySubtrees
  EMPTYKEY = EMPTYKEY
  Inputs <- FiveNodes
  Timeouts = TRUE
INVARIANTS ResultIsWholeSum NothingLeftBehind
PROPERTIES RootGetsResult
CHECK_DEADLOCK FALSE
