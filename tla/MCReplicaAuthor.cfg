SPECIFICATION Spec
CONSTANTS
  b0 = b0
  b1 = b1
  b2 = b2
  Body <- MCBody
  Chunks <- MCChunks
  Offset <- MCOffset
  Feed <- MCAuthorFeed
  IsAuthor = TRUE
  CrashPoints = {"create", "tornentry", "append", "chunk", "persist", "recover", "idle"}
  MaxSeq = 3
  MaxCrashes = 3
INVARIANTS
  AckedIsReadable
  ServesFeed
  AuthorIsComplete
  AuthorInv
CHECK_DEADLOCK FALSE
