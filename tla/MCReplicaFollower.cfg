SPECIFICATION FairSpec
CONSTANTS
  b0 = b0
  b1 = b1
  b2 = b2
  Body <- MCBody
  Chunks <- MCChunks
  Offset <- MCOffset
  Feed <- MCFeed
  IsAuthor = FALSE
  CrashPoints = {"append", "chunk", "persist", "recover", "idle"}
  MaxSeq = 4
  MaxCrashes = 3
INVARIANTS
  TypeOK
  AckedIsReadable
  ServesFeed
  FrontierBehindLog
  LogLayout
  IInv
  LogEndsAtFrontier
PROPERTIES
  ImplementsStore
  Completes
CHECK_DEADLOCK FALSE
