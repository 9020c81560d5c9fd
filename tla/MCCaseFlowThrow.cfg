SPECIFICATION CaseFlowSpec
CONSTANTS
  N = 2
  Shape <- ThrowingCase
  MaxTest = 4
PROPERTIES
  UncaughtReported
CHECK_DEADLOCK FALSE
