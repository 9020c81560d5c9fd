SPECIFICATION Spec
CONSTANTS
  Limit = 9
  Whole = 6
  Lower <- MCLower
  Abbreviations <- Begins
  LongRange = 128
  MaxExempt = 10
  WordBits = 20
  ImmediateBits = 6
  PageBits = 5
  Style = {"red", "bold", "reset"}
  Wide = {"w"}
  WordSize = 8
  VirtualLimit <- MCVirtualLimit
  Sizes = {0, 16, 96, 120}
  Brk = 16
  BlockWords = 2
  SizeWords = 1
  BuddyWords = 3
  SplitWords = 4
  MaxAreas = 2
  MaxGiven = 3
  Memory <- MCCode
  PageSize = 16
  Near = 200
  First = 12
  Fakes = {92, 94, 1000}
  LinkerJump <- MCLinkerJump
  Pointer <- MCPointer
  Machine <- MCMachine
  Many = 2
  PageBytes = 16
  PointerBytes = 4
  ByteValues = 4
  UnsignedBits = 6
  SpotSize = 3
  FoldWidth = 12
  Unit = 10
  MarginMark = 100000
  WordRange = 1844670
  MaxTags = 2
  Rescans = 8
INVARIANTS
  MatchersAsMeant
  DocumentsAsMeant
  TextsAsMeant
  OutputAsMeant
  FunctionsFound
  HeapSound
  PatchesLead
PROPERTIES
  ImplementsHeap
CHECK_DEADLOCK FALSE
