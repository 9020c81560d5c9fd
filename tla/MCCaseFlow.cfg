SPECIFICATION CaseFlowSpec
CONSTANTS
  N = 2
  Shape <- Shapes
  MaxTest = 4
INVARIANTS
  CaseFlowTypeOK
  WrongIsFailed
  SectionsOnce
PROPERTIES
  TestEnds
CHECK_DEADLOCK FALSE
