SPECIFICATION FairSpec
CONSTANTS
  INT_MAX = 2047
  UINT8_MAX = 31
  MemoryMayFail = TRUE
  Sources <- MCFiles
  Begins <- MCBegins
  Chars <- MCChars
INVARIANTS
  CTypeOK
  CapturesLead
  SlotsDistinct
  CodeListed
  ClosuresLead
  CompiledIsCertified
  RejectsOnly
PROPERTIES
  OnlyJumpsPatched
