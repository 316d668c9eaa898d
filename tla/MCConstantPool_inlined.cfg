CONSTANTS
  HashOf <- MCHash
  Packages = 2
  PoolCapacity = 4
  BufferCapacity = 4
  Names <- MCNames
  Menus <- MCShared
  ConstantSubs <- MCConstantSubs
  Callers <- MCEverywhere
  Values <- MCValues
CHECK_DEADLOCK FALSE
SPECIFICATION Spec
INVARIANTS ConstantsRead
