SPECIFICATION StubSpec
CONSTANTS
  Address <- MCAddress
  Function <- MCFunction
  Follow <- MCFollow
  Patchable <- MCPatchable
  Fake = {d1}
  List = {l1, l2, l3}
  Origin = Origin
  MaxTemporary = 2
SYMMETRY MCSymmetry
INVARIANTS
  StubTypeOK
  CountIsHolders
  OriginPreserved
  RestoredWhenFree
PROPERTIES
  ImplementsPatchTable
