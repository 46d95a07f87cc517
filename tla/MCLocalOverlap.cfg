\* Instances of one protocol overlap in a process.
SPECIFICATION LocalSpec
CONSTANTS
  a1 = a1  a2 = a2  c1 = c1  e1 = e1  e2 = e2  v1 = v1  gA = gA  gB = gB
  Instance = {a1, a2, c1, e1, e2, v1}
  Kind <- Kinds
  Target <- Targets
  Secret = 3
  Serial = FALSE
  Timeouts = {}
INVARIANT OwnResult
CHECK_DEADLOCK FALSE
