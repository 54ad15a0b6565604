SPECIFICATION FairSpec
CONSTANTS
  INT_MAX = 2047
  UINT8_MAX = 31
  MemoryMayFail = FALSE
  Sources <- MutatedFiles
  Begins <- MCBegins
  Chars <- MCChars
INVARIANTS
  NothingAfterEnd
  TakesTheGrammar
  ErrorsPlaced
PROPERTIES
  Returns
