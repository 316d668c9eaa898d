CONSTANTS
  NameOrder <- MCNameOrder
  Repositories <- MCRepositories
  MaxValue = 1
CHECK_DEADLOCK FALSE
SPECIFICATION Spec
INVARIANTS LoadedOnce CallsBind LookupsExact ReadsAsWritten
