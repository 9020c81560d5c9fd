SPECIFICATION MemorySpec
CONSTANTS
  Piece = {p1, p2}
  Size = {1}
  Attribute <- Blocks
  NoLimit = 7
  Wrap = 16
  MaxNest = 1
  MaxCase = 2
  MaxWrong = 1
  MaxFree = 2
INVARIANTS
  MemoryTypeOK
  PassIffClean
  AccountsBalance
  UnmemStaysInCase
SYMMETRY AnyPiece
\* the process ends
CHECK_DEADLOCK FALSE
