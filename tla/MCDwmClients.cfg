\* A list may be left in a state with which dwm cannot go on.
CHECK_DEADLOCK FALSE
SPECIFICATION Spec
CONSTANTS
  c1 = c1
  c2 = c2
  c3 = c3
  c4 = c4
  NULL = NULL
  Client <- MCClient
  Priority <- MCPriority
  RuleTags <- MCRuleTags
  Tag = {1, 2}
  Setups <- MCSetups
INVARIANTS StacksComplete ListCompleteTiled PrioritySorted SelVisible UrgentHidden
PROPERTY BackAndForth
