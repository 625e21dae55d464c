SPECIFICATION Spec
CONSTANTS
  ALL_PROJECTS <- MCOrder
  STRICT_PROJECTS <- MCStrict
  DOXYGEN_PROJECTS <- MCDoxygen
  HasDocs <- MCHasDocs
  Committed <- MCCommitted
  MaxRuns = 2
INVARIANTS SuccessIsCurrent SummaryAddsUp DocumentedProjectsAreTried
PROPERTY RunsEnd
CHECK_DEADLOCK FALSE
