\* The creation of a key switching proof gives an error: Wait never returns.
CONSTANTS
  VPARALLELIZE = 2
  MaxLength = 2
  Calls <- KeySwitchLists
  Faulty <- KeySwitchFault
  Beta = {0}
  Empty = Empty
SPECIFICATION Spec
PROPERTIES CallReturns
CHECK_DEADLOCK FALSE
