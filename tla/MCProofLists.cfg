\* Lists of up to three elements of all kinds, right and wrong ones, in chunks
\* of two; any element may give an error, but for the two lists that mistreat one.
CONSTANTS
  VPARALLELIZE = 2
  MaxLength = 3
  Calls <- SomeLists
  Faulty <- AnyFault
  Beta = {0}
  Empty = Empty
SPECIFICATION Spec
INVARIANTS ListComplete VerdictIsAll
PROPERTIES CallReturns
CHECK_DEADLOCK FALSE
