CONSTANTS
  i1 = i1
  i2 = i2
  l1 = l1
  l2 = l2
  p1 = p1
  project = project
  none = none
  LineOrder <- TwoLines
  ItemOrder <- TwoItems
  Exact <- ExactFirst
  NoItem = none
  Required <- OneAndTwo
  Factor <- Packages
  Compat <- Alternatives
  Previews = {p1}
  Plans <- SomePlans
  ProjectOf <- OneProject
  Constrained = {i2}
  MaxQty <- TwoAndOne
SPECIFICATION Spec
INVARIANTS
  TypeOK
  ReviewedIsPossible
PROPERTY CommittedAsShown
CHECK_DEADLOCK FALSE
