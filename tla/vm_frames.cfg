SPECIFICATION FairSpec
CONSTANTS
  INT_MAX = 32767
  INT64_MAX = 524287
  POINTER_SIZE = 8
  ValueSizes = {8, 16}
  UINT8_MAX = 63
  StackSize = 20
  CallstackSize = 4
  MemoryMayFail = TRUE
  Programs <- MCPrograms_
  Depth <- MCDepth
INVARIANTS
  TypeOK
  StackDefined
  HeapDefined
  TuplesWellFounded
  RunsListedInstructions
  PrintsExpected
  LayoutsAgree
  ClosureOverrun
  IInv
PROPERTIES
  CallersUntouched
  ReturnsToCaller
  Ends
  RunsInActivations
