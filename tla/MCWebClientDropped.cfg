SPECIFICATION Spec
CONSTANTS
  Files = {}
  Creates = {line}
  Careful = {}
  Size = 1
  Nothing = Nothing
  MaxFaults = 3
INVARIANT ExactlyOnce
CHECK_DEADLOCK FALSE
