CONSTANTS
  CHUNK_MIN_CAPACITY = 2
  ARRAY_MIN_CAPACITY = 2
  UINT8_MAX = 3
  CodeBound = 9
  ArrayBound = 5
SPECIFICATION ASpec
INVARIANTS
  ArraysInside
  ChunkOverrun
  ElementsKept
  NoWaste
  PlacesFit
CHECK_DEADLOCK FALSE
