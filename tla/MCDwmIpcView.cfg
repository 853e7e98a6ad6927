CHECK_DEADLOCK FALSE
SPECIFICATION Spec
CONSTANTS
  w1 = w1
  w2 = w2
  NULL = NULL
  Window = {w1, w2}
  MonOf <- MCMonOf
  TagOf <- MCTagOf
  NumTags = 3
  MaxMatches = 2
  MaxPipe = 2
  MaxChanges = 2
  Message <- MCViews
PROPERTY ViewShowsRequested
