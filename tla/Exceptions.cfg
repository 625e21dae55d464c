SPECIFICATION Spec
CONSTANTS
  MaxType = 7
  MaxRuns = 2
INVARIANTS
  FinallyOnce
  FreedOnce
  CaughtWhereListed
  PhasesAgree
CHECK_DEADLOCK FALSE
