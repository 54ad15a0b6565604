SPECIFICATION RSpec
CONSTANTS
  INT_MAX = 2047
  UINT8_MAX = 31
  INT64_MAX = 32767
  POINTER_SIZE = 8
  ValueSizes = {8, 16}
  StackSize = 24
  CallstackSize = 5
  MemoryMayFail = FALSE
  Sources <- MCLetFiles
  Begins <- MCBegins
  Chars <- MCChars
INVARIANTS
  LetsAnywhere
