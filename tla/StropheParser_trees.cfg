SPECIFICATION Spec
CONSTANTS
  Length = 2
  Bucket <- MCBucket
  MaxCells = 4
  Nil = Nil
  Names = {"a"}
  Texts = {"t"}
  Attributes <- MCAttributes
  Settings <- MCSettings
  MaxDepth = 3
  MaxOwn = 2
  MaxSet = 1
INVARIANTS
  HeapIsSound
  ParsingIsExact

  
CHECK_DEADLOCK FALSE
