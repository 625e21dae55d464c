SPECIFICATION Spec
CONSTANTS
  Functions = {f, sin}
  ProcessSymbols = {sin}
  StandardOps = {lt}
  OtherOps = {bar}
  Anon = anon
  Users = {"careless", "trusting", "careful"}
  Careless = {f, lt, bar}
  MaxArity = 2
  MaxCalls = 2
INVARIANTS SessionInv OperatorsResolve ExpressionsAreForgotten SessionSurvives ArgumentsMatch
PROPERTY DefinitionsStay
CHECK_DEADLOCK FALSE
