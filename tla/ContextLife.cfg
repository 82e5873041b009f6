\* Sizes far below INT_MAX.
SPECIFICATION Spec
CONSTANTS
  P = 31
  Expi <- Expi31
  c1 = c1
  c2 = c2
  b1 = b1
  b2 = b2
  NULL = NULL
  Garbage = Garbage
  NEON = FALSE
  SizeofContext = 20
  SizeofComplex = 8
  Clients = {c1}
  Blocks = {b1, b2}
  MaxCounts <- SomeMaxCounts
  BufSizes = {56}
  HeapLimit = 88
  IntMax = 511
SYMMETRY SameBlocks
INVARIANTS
  TypeOK
  TablesFit
  TablesIntact
  Ownership
  AnswerExact
PROPERTIES
  UserMemoryKept
  BufferAccepted
