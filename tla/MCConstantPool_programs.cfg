CONSTANTS
  HashOf <- MCHash
  Packages = 2
  PoolCapacity = 4
  BufferCapacity = 4
  Names <- MCNames
  Menus <- MCMenus
  ConstantSubs <- MCConstantSubs
  Callers <- MCAtHome
  Values <- MCValues
CHECK_DEADLOCK FALSE
SPECIFICATION Spec
INVARIANTS WritesFit InternedOnce ListsDeclare SwitchFinds NamesRead
PROPERTIES ReadsAsCompiled
