\* Clear responses are counted again in a second query.
CONSTANTS
  Server <- ThreeServers
  Attribute <- Attributes
  Inputs <- ClearTwice
SPECIFICATION Spec
INVARIANT AnswerIsGroupBySum
CHECK_DEADLOCK FALSE
