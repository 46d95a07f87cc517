\* Surveys at three servers, one of them without data providers: every mix of
\* responses and three queries; two queries over encrypted responses; repetitions.
CONSTANTS
  Server <- ThreeServers
  Attribute <- Attributes
  Inputs <- SomeInputs
SPECIFICATION Spec
INVARIANT AnswerIsGroupBySum
INVARIANT AggregationProofsHold
INVARIANT LengthsUniform
CHECK_DEADLOCK FALSE
