\* The creation of a tagging proof gives an error, which is not seen; of two
\* different additions in one chunk, the second proof is that of the first.
\* -continue shows both.
CONSTANTS
  VPARALLELIZE = 2
  MaxLength = 2
  Calls <- TagsAndAdditions
  Faulty <- TagFault
  Beta = {0}
  Empty = Empty
SPECIFICATION Spec
INVARIANTS ListComplete
CHECK_DEADLOCK FALSE
