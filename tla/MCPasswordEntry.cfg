\* The lock is over once the password was accepted: the system stops there.
CHECK_DEADLOCK FALSE
SPECIFICATION EntrySpec
CONSTANTS
  a = a
  b = b
  NUL = NUL
  Capacity = 4
  Byte <- MCByte
  Text <- MCText
  HashPassword <- MCHashPassword
  PamPassword <- MCPamPassword
INVARIANTS NoResidue TypingShown
PROPERTIES OpensExactlyForPassword EntryPromiseSpec
