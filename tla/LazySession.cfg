SPECIFICATION Spec
CONSTANTS
  Functions = {"f", "g", "sin"}
  ProcessSymbols = {"sin"}
  Arities = {1, 2}
  MaxItems = 4
INVARIANTS
  OnlyReachedBodiesFail
  RunsGeneratedCode
CHECK_DEADLOCK FALSE
