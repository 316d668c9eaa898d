CONSTANTS
  Budgets <- NestedEvals
  Features = {"nested_eval"}
SPECIFICATION Spec
INVARIANT CatchInnermost
CHECK_DEADLOCK FALSE
