SPECIFICATION Spec
CONSTANTS
  Versions <- MCVersions
  Inputs <- MCInputs
  Precedences <- MCPrecedences
  MaxTokens = 4
INVARIANTS
  Grouping
  OperatorsAreDefined
  NodesLocated
PROPERTIES
  Terminates
CHECK_DEADLOCK FALSE
