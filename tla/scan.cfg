CONSTANT Sources <- MCSources
SPECIFICATION SFairSpec
INVARIANTS
  STypeOK
  ReadsInside
  PlacesRight
PROPERTIES
  LexesTokens
  Scans
CHECK_DEADLOCK FALSE
