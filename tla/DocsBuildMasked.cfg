SPECIFICATION Spec
CONSTANTS
  ALL_PROJECTS <- MCOrder
  STRICT_PROJECTS <- MCStrict
  DOXYGEN_PROJECTS <- MCDoxygen
  HasDocs <- MCHasDocs
  Committed <- MCCommitted
  MaxRuns = 2
INVARIANT SuccessMeansSphinxSucceeded
CHECK_DEADLOCK FALSE
