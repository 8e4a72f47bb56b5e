SPECIFICATION FairSpec
CONSTANTS
  a = a
  b = b
  c = c
  Node = {a, b, c}
  Key = {1, 2, 3, 4, 5, 6}
  World <- MCWorld
  MaxKeys = 6
  MaxPending = 3
  KeepPending = 2
  QueueLen = 5
  NoveltyPerRound = 1
  AskPerRound = 1
  HelpPerRound = 2
INVARIANTS
  TypeOK
  ClaimsSpan
  EndsKnown
PROPERTIES
  Quiet
  Converges
