CONSTANTS
  o1 = o1
  o2 = o2
  Objects = {o1, o2}
  NFields = 2
  NVars = 2
  NGlobals = 1
  MaxDepth = 4
  Destructible = {o1, o2}
  WeakFields = {}
  MaxBackrefs = 0
  MaxCount = 3
  SelfContained = TRUE
  NULL = NULL
  NoSlot = NoSlot
SPECIFICATION Spec
SYMMETRY ObjectSymmetry
INVARIANTS TypeOK RefCountExact NoLostObject NoReentrantFree BlocksExact
PROPERTY CallerVarsStable
