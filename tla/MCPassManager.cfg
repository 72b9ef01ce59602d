SPECIFICATION Spec
CONSTANTS
  Width = 4
  StoreWidth = 8
  Inputs = {0, 2, 15}
  MaxBlocks = 24
  SlpWidth = 2
  SizeLimit = 5
  LoopBonus = 2
  InlineDepth = 2
  Jobs <- MCJobs
  MaxIter = 3
CHECK_DEADLOCK FALSE
INVARIANTS
  Preserves
  Ssa
  OnlyLeakedSlots
  Stabilised
  Instrumented
PROPERTIES
  HonestNo
