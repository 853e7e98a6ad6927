CHECK_DEADLOCK FALSE
SPECIFICATION HooksSpec
CONSTANTS
  Address = {a1, a2}
  NULL = NULL
  Window = {w1, w2, w3}
  Limit = 2
  Tokens <- MCTokens
  MaxTokens = 3
  Nothing = nothing
INVARIANTS NumericEscapesDecoded NeverOvertakes
PROPERTY ClosesOnSecondPress
