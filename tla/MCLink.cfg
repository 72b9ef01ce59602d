SPECIFICATION FilesSpec
CONSTANTS
  WordBits = 8
  Modules <- MCModules
  Texts <- MCNoTexts
  MaxFunctions = 3
  MaxBlocks = 6
  MaxInstrs = 27
  MaxDepth = 4
  Cuts <- MCNoCuts
  Companions <- MCCompanions
  LlvmFiles <- MCNoLlvmFiles
  Scripts <- MCNone
  Reducible <- MCNone
  Cases <- MCCases
  MaxPasses = 20
  Compiled <- MCNone
  JitModules <- MCNone
  MaxLoads = 0
INVARIANTS
  MergedAsRead
