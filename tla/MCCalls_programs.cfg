CONSTANTS
  Subs <- MCSubs
  Args <- MCArgs
  Locals <- MCLocals
  Returned <- MCReturned
  Body <- MCBody
  Builds <- SafeBuilds
  Entries = {"main", "last"}
  Destroys = {"fini"}
  StackSize = 8
  MaxDepth = 4
  MaxCalls = 4
SPECIFICATION Spec
INVARIANTS StackFits
PROPERTIES ArgsArrive ResultArrives VariablesKept
