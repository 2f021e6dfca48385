\* A compound create and its retry, a reuse of the key, and an update.
CONSTANTS
  c1 = c1
  c2 = c2
  c3 = c3
  c4 = c4
  x = x
  y = y
  alice1 = alice1
  nokey = nokey
  none = none
  Commands = {c1, c2, c3, c4}
  Ids = {x, y}
  Keys = {alice1}
  NoKey = nokey
  None = none
  KeyOf <- FourKeys
  Kind <- FourKinds
  Target <- FourTargets
  MaxCrashes = 1
SPECIFICATION Spec
INVARIANTS TypeOK QuietConnection OneEffectPerKey ToldIsTrue AuditExplainsVersions
PROPERTIES CommandsAreAtomic EveryRequestIsAnswered
CHECK_DEADLOCK FALSE
