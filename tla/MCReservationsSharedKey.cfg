CONSTANTS
  i1 = i1
  p1 = p1
  v1 = v1
  v2 = v2
  r1 = r1
  r2 = r2
  alice = alice
  bob = bob
  k1 = k1
  none = none
  Items = {i1}
  Projects = {p1}
  Revisions = {v1}
  Res = {r1}
  ProjectOf <- OneRevision
  Candidates <- AnyItem
  Required <- UpToMax
  Contexts <- SameKey
  BodyKeys = {}
  NoKey = none
  EventTypes <- Few
  MaxQty = 2
SPECIFICATION Spec
INVARIANTS
  ConsumedStockIsTaken
CHECK_DEADLOCK FALSE
