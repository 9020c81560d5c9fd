SPECIFICATION RunnerSpec
CONSTANTS
  a1 = a1
  a2 = a2
  b1 = b1
  b2 = b2
  A = A
  B = B
  Suite <- MCSuite
  Case <- MCCase
  SuiteOf <- MCSuiteOf
  SuiteOrder <- MCSuiteOrder
  CaseOrder <- MCCaseOrder
  Todo = {b2}
  Build <- MCBuild
  Option <- MCOption
  Ending = {"passed", "warning", "failed", "killed"}
  MaxProcess = 3
  ExitModulus = 256
INVARIANTS
  RunnerTypeOK
  CasesAccounted
  BreakAfterFails
  LastOrderReplayed
PROPERTIES
  ProcessEnds
  OnlyMarkedTested
CHECK_DEADLOCK FALSE
