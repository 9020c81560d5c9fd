SPECIFICATION ScopeSpec
CONSTANTS
  A = A
  B = B
  a1 = a1
  a2 = a2
  b1 = b1
  Runner = Runner
  Nobody = Nobody
  Suite <- MCSuite
  Case <- MCCase
  SuiteOf <- MCSuiteOf
  SuiteOrder <- MCSuiteOrder
  CaseOrder <- MCCaseOrder
  Target = "f"
  Address = {"f"}
  Function = {"f"}
  Follow <- MCFollow
  Patchable = {"f"}
  Fake <- Site
  List <- MCList
  Origin = Origin
  MaxTemporary = 0
  Script <- Scoped
  Failing <- Site
  Skippable <- MCCase
  Shuffled = TRUE
  Rounds = 2
INVARIANTS
  ScopeTypeOK
  OwnWorkUndone
  NearestWins
CHECK_DEADLOCK FALSE
