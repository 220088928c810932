SPECIFICATION Spec
CONSTANTS
  a = a
  b = b
  UpNames = {a, b}
  Obj <- RestartObj
  Tools = {x}
  Defs = {d1, d2}
  None = none
  Routed = {a}
  Budgets <- DropOrReload
INVARIANTS
  
  FollowsOffers
  ServesAttached
PROPERTIES
  NoTakeover
CHECK_DEADLOCK FALSE
