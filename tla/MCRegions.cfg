CONSTANTS
  Type = {t1}
  Stream = {out}
  Options <- MCOptions
  MaxCase = 2
  MaxDepth = 3
  MaxText = 1
SPECIFICATION RegionsSpec
INVARIANTS RegionsTypeOK JudgesItsOwn InForceInside
CHECK_DEADLOCK FALSE
