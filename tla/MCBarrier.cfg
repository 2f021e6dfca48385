CONSTANTS
  r1 = r1
  r2 = r2
  close = close
  c1 = c1
  c2 = c2
  noScope = noScope
  Tasks <- MCTasks
  Roots <- MCRoots
  Closer <- close
  None <- noScope
  MaxCalls = 2
  FailFast = FALSE
SPECIFICATION Spec
INVARIANTS
  TypeOK
  NestedInsideTurn
PROPERTIES
  QueuedIsServed
  TurnsInOrder
CHECK_DEADLOCK FALSE
