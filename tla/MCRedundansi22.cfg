SPECIFICATION Spec
CONSTANTS
  Piece <- MCPiece22
  EscapeSize = 32
  Stale <- MCStale
INVARIANT LessLikeTerminal
