\* A Dispatch may give up; its protocol runs again after that.
SPECIFICATION LocalSpec
CONSTANTS
  a1 = a1  a2 = a2  c1 = c1  e1 = e1  e2 = e2  v1 = v1  gA = gA  gB = gB
  Instance = {a1, a2}
  Kind <- TwoKinds
  Target <- TwoTargets
  Secret = 3
  Serial = TRUE
  Timeouts = {a1, a2}
INVARIANT OwnResult
CHECK_DEADLOCK FALSE
