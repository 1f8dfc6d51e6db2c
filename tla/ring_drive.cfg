SPECIFICATION FairSpec
CONSTANTS
  Chunk = 2
  RingSize = 2
  Lengths <- TwoCalls
  FileLen = 4
  Faulty = TRUE
  USize = 8
  U32 = 4
INVARIANTS TypeOK OkMeansAll NoByteTwice QueuesMatch
PROPERTIES Terminates
CHECK_DEADLOCK FALSE
