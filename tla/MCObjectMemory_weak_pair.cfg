CONSTANTS
  o1 = o1
  o2 = o2
  Objects = {o1, o2}
  NFields = 2
  NVars = 2
  NGlobals = 0
  MaxDepth = 1
  Destructible = {}
  WeakFields = {1, 2}
  MaxBackrefs = 2
  MaxCount = 2
  SelfContained = TRUE
  NULL = NULL
  NoSlot = NoSlot
SPECIFICATION Spec
INVARIANT UnweakenAssertion
CHECK_DEADLOCK FALSE
