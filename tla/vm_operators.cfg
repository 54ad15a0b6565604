SPECIFICATION Spec
CONSTANTS
  INT_MAX = 127
  UINT8_MAX = 63
  StackSize = 8
  CallstackSize = 1
  MemoryMayFail = FALSE
  Programs <- MCOperatorPrograms
INVARIANT
  OperatorsAgree
