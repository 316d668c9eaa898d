CONSTANTS
  o1 = o1
  o2 = o2
  Objects = {o1, o2}
  NFields = 1
  NVars = 2
  NGlobals = 0
  MaxDepth = 2
  Destructible = {}
  WeakFields = {1}
  MaxBackrefs = 1
  MaxCount = 2
  SelfContained = TRUE
  NULL = NULL
  NoSlot = NoSlot
SPECIFICATION FairSpec
INVARIANTS RefCountSafe WeakTracked
PROPERTY ReleaseEnds
