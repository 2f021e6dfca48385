CONSTANTS
  i1 = i1
  p1 = p1
  v1 = v1
  v2 = v2
  r1 = r1
  r2 = r2
  alice = alice
  bob = bob
  k1 = k1
  none = none
  Items = {i1}
  Projects = {p1}
  Revisions = {v1, v2}
  Res = {r1, r2}
  ProjectOf <- OneProject
  Candidates <- AnyItem
  Required <- UpToMax
  Contexts <- NoKeys
  BodyKeys = {}
  NoKey = none
  EventTypes <- NoManualRelease
  MaxQty = 2
SPECIFICATION Spec
SYMMETRY AnyReservationOrRevision
INVARIANTS
  TypeOK
  ReservedStockIsHeld
  NothingLeftReserved
  OneReleasePerReservation
  SettledAsReviewed
  CurrentDraftIsTrue
  ReviewedCanBeSettled
CHECK_DEADLOCK FALSE
