\* The filter ends.
CHECK_DEADLOCK FALSE
SPECIFICATION Spec
CONSTANTS
  MaxInput = 4
  PipeSize = 2
  MaxStops = 2
  ChildStatus = {0, 3}
INVARIANTS StatusPassedOn ReadErrorReported
PROPERTY Finishes
