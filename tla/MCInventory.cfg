CONSTANTS
  i1 = i1
  l1 = l1
  l2 = l2
  r1 = r1
  r2 = r2
  none = none
  doc = doc
  LineOrder <- TwoLines
  ItemOrder <- OneItem
  Exact <- ExactFirst
  NoItem = none
  Required <- OnePackageEach
  Factor <- Packages
  Res = {r1, r2}
  Times = {1, 2}
  LifeTime = 1
  Docs <- OneDoc
  NoDoc = none
  EventTypes <- Few
  FirstCompat <- SecondUncertain
  Edits <- Doubt
  MaxEvents = 3
  MaxQty = 1
SPECIFICATION Spec
INVARIANTS
  TypeOK
  BalanceIsCountPlusMoves
  OneReceiptPerSnapshot
  NothingPromisedTwice
PROPERTIES
  EventsTakeEffect
  NoCommandIsLost
SYMMETRY AnyReservation
CHECK_DEADLOCK FALSE
