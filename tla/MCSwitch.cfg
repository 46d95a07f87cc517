\* Four servers in a tree; partial broadcasts, lost messages and timeouts.
SPECIFICATION FairSpec
CONSTANTS
  n0 = n0  n1 = n1  n2 = n2  n3 = n3
  Node <- Nodes
  Root = n0
  Parent <- Tree
  Below <- SubtreesOf
  Priv <- SharesOf
  KeySum <- ShareSum
  NewPriv = 6
  Target <- TwoResults
  Rand = {1, 2}
  Faults = TRUE
INVARIANTS SwitchKeepsPlaintext SubtreeSharesRemoved ContributionSetBeforeUse
PROPERTIES RootGetsResult
CHECK_DEADLOCK FALSE
