SPECIFICATION Spec
CONSTANTS
  Files = {file}
  Creates = {item}
  Careful = {item}
  Size = 2
  Nothing = Nothing
  MaxFaults = 3
INVARIANTS
  TypeOK
  ExactlyOnce
  OneLiveSession
PROPERTY EveryWishIsGranted
CHECK_DEADLOCK FALSE
