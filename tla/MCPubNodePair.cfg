SPECIFICATION FairSpec
CONSTANTS
  p = p
  q = q
  c0 = c0
  c1 = c1
  c2 = c2
  Node = {p, q}
  Links <- MCLinks
  Role <- MCRole
  Feed = {1, 2}
  Log <- MCLog
  Length <- MCLength
  Stored <- MCStored
  Credit = 3
  VectLen = 5
  MaxFlying = 1
  MaxBreaks = 1
  MaxRestarts = 1
INVARIANTS
  TypeOK
  HandlersMatch
PROPERTIES
  Delivery
