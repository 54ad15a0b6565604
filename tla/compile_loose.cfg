SPECIFICATION Spec
CONSTANTS
  INT_MAX = 2047
  UINT8_MAX = 31
  MemoryMayFail = FALSE
  Sources <- LooseFiles
  Begins <- MCBegins
  Chars <- MCChars
INVARIANTS
  OnlyTheGrammar
