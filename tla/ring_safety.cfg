SPECIFICATION Spec
CONSTANTS
  Chunk = 2
  RingSize = 2
  Lengths <- OneCall
  FileLen = 4
  Faulty = TRUE
  USize = 8
  U32 = 4
INVARIANTS NothingOutstanding
CHECK_DEADLOCK FALSE
