\* All four protocols; instances of one protocol run one after the other, and
\* those of the two that run once may time out.
SPECIFICATION LocalFairSpec
CONSTANTS
  a1 = a1  a2 = a2  c1 = c1  e1 = e1  e2 = e2  v1 = v1  gA = gA  gB = gB
  Instance = {a1, a2, c1, e1, e2, v1}
  Kind <- Kinds
  Target <- Targets
  Secret = 3
  Serial = TRUE
  Timeouts = {c1, v1}
INVARIANTS OwnResult AddRmKeepsPlaintext
PROPERTIES CallerAnswered
CHECK_DEADLOCK FALSE
