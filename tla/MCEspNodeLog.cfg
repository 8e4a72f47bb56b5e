SPECIFICATION Spec
CONSTANTS
  Log <- MCLog
  Stored = {{1}}
  MaxKeys = 2
  WantLen = 2
  ChnkLen = 1
  RingLen = 1
  MaxRestarts = 1
CHECK_DEADLOCK FALSE
INVARIANTS
  LogHoldsEntries
