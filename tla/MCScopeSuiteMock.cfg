SPECIFICATION ScopeSpec
CONSTANTS
  A = A
  B = B
  a1 = a1
  a2 = a2
  b1 = b1
  Runner = Runner
  Nobody = Nobody
  Suite <- OneSuite
  Case <- OneSuiteCase
  SuiteOf <- OneSuiteOf
  SuiteOrder <- OneSuiteOrder
  CaseOrder <- OneCaseOrder
  Target = "f"
  Address = {"f"}
  Function = {"f"}
  Follow <- MCFollow
  Patchable = {"f"}
  Fake <- Site
  List <- OneList
  Origin = Origin
  MaxTemporary = 0
  Script <- SuiteMock
  Failing = {}
  Skippable = {}
  Shuffled = TRUE
  Rounds = 2
INVARIANTS
  SuiteMockLasts
CHECK_DEADLOCK FALSE
