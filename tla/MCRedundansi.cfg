SPECIFICATION Spec
CONSTANTS
  Piece <- MCPiece
  EscapeSize = 17
  Stale <- MCStale
INVARIANTS TypeOK LessLikeTerminal
\* The filter writes behind its buffer.
CHECK_DEADLOCK FALSE
