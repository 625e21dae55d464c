SPECIFICATION Spec
CONSTANTS
  Versions = {"initial", "lazy", "cached", "complete", "completeEager"}
  Functions = {"f", "g", "sin"}
  Ops = {"@"}
  ProcessSymbols = {"sin"}
  MaxItems = 4
  MaxCalls = 1
INVARIANTS
  RunsCompiledCode
  OneMeaning
  CompiledOnce
  SessionSurvives
CHECK_DEADLOCK FALSE
