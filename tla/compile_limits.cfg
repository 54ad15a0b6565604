SPECIFICATION Spec
CONSTANTS
  INT_MAX = 2047
  UINT8_MAX = 31
  MemoryMayFail = FALSE
  Sources <- MCManyFiles
  Begins <- MCBegins
  Chars <- MCChars
INVARIANTS
  TooManyIsReported
