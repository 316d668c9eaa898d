CONSTANTS
  x = x
  y = y
  Vars = {x, y}
  Packages <- MCPackages
  VarTypes <- MCVarTypes
  NewTypes <- MCNewTypes
  CastTypes <- MCCastTypes
  PackageVars <- MCPackageVars
  Builds = {"vm", "precompiled"}
  MaxObjects = 2
SPECIFICATION Spec
SYMMETRY VarSymmetry
INVARIANTS TypeOK HeapTyped MethodFound IsaTellsConversion
