CONSTANTS
  r1 = r1
  r2 = r2
  close = close
  c1 = c1
  c2 = c2
  noScope = noScope
  Tasks <- MCTasks
  Roots <- MCRoots
  Closer <- close
  None <- noScope
  MaxCalls = 2
  FailFast = TRUE
SPECIFICATION Spec
INVARIANT RequestsAreSerialised
CHECK_DEADLOCK FALSE
