SPECIFICATION PipelineSpec
CONSTANTS
  MaxHead = 3
  MaxWorkflowRuns = 5
INVARIANT IInv
PROPERTIES LiveNeverGoesBack 
CHECK_DEADLOCK FALSE
