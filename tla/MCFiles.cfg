SPECIFICATION FilesSpec
CONSTANTS
  WordBits = 8
  Modules <- MCModules
  Texts <- Odd
  MaxFunctions = 3
  MaxBlocks = 6
  MaxInstrs = 27
  MaxDepth = 4
  Cuts <- MCCuts
  Companions <- MCCompanions
  LlvmFiles <- MCLlvmFiles
  Scripts <- MCScripts
  Reducible <- MCReducible
  Cases <- MCCases
  MaxPasses = 20
  Compiled <- MCCompiled
  JitModules <- MCJitModules
  MaxLoads = 3
INVARIANTS
  RoundTrip
  EveryFileComesBack
  RefusedForAReason
  DefinitionsWin
  BodiesComeBack
  RefusedBitcode
  Minimal
  Linkable
  PointersLive
PROPERTIES
  Progress
