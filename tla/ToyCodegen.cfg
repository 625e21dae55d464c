SPECIFICATION Spec
CONSTANTS
  Versions <- MCVersions
  Names = {"x", "y"}
  Argument = "x"
  MaxNodes = 2
  MaxFunctions = 2
INVARIANTS
  WellFormed
  PhisMatch
  OperandsDominate
  OwnOperands
  ScopesMatch
CHECK_DEADLOCK FALSE
