\* The program exits: the system stops there.
CHECK_DEADLOCK FALSE
SPECIFICATION Spec
CONSTANTS
  a = a
  NUL = NUL
  Capacity = 3
  Byte <- MCByte
  Text <- MCText
  HashPassword <- MCHashPassword
  PamPassword <- MCPamPassword
  Keys <- MCKeys
  Mode <- MCMode
  NumScreens = 2
  HavePamAuth = TRUE
  MaxQueue = 2
  MaxChanges = 2
INVARIANTS NeverUnreachable LockedWhileReading Covered
PROPERTIES EventuallyOnTop PromiseSpec
