CHECK_DEADLOCK FALSE
SPECIFICATION Spec
CONSTANTS
  Proc = {p1, p2}
  Old = old
  Absent = absent
  Closed = absent
  Commands <- MCCommands
  None = none
  Lower <- MCLower
  Rank <- MCRank
  Entries <- MCEntries
  Paths <- MCPaths
  Patterns <- MCPatterns
  Stdin <- MCStdin
  OldList <- MCOldList
  MaxFaults = 2
  MaxPrograms = 2
  MaxLines = 2
  PipeSize = 1
  MenuStatus = {0, 1}
  MenuSignal = {9}
INVARIANTS MenuReadsOneList StatusTells NothingLeftBehind
PROPERTIES PromiseSpec LauncherEnds
