SPECIFICATION Spec
CONSTANTS
  a = a
  b = b
  c = c
  d = d
  NoId = NoId
  Node = {a, b, c, d}
  Link <- MCLink
  First <- MCFirst
  Admin = {a}
  Commands <- MCCommands
  TableSize = 2
  MaxFcnt = 2
  MaxFaults = 1
PROPERTY AddressedOnly
CHECK_DEADLOCK FALSE
