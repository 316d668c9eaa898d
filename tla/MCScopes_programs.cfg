CONSTANTS
  Budgets <- Programs
  Features = {}
SPECIFICATION Spec
INVARIANTS JumpsLand LiveHeld DeadReleased MortalFits ReleasedAtEnd
CHECK_DEADLOCK FALSE
