SPECIFICATION CaseFlowSpec
CONSTANTS
  N = 2
  Shape <- CasesWithCleanup
  MaxTest = 4
PROPERTIES
  CleanupIsLast
CHECK_DEADLOCK FALSE
