\* dwm exits, or loops for ever.
CHECK_DEADLOCK FALSE
SPECIFICATION Spec
CONSTANTS
  w1 = w1
  w2 = w2
  NULL = NULL
  Window = {w1, w2}
  MonOf <- MCMonOf
  TagOf <- MCTagOf
  NumTags = 3
  MaxMatches = 1
  MaxPipe = 2
  MaxChanges = 1
  Message <- MCMessage
INVARIANTS TypeOK MatchesManaged SelLostOnlyToClose UrgentSettles
PROPERTIES EventsHandled PipeEmptied
