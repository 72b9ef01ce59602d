CONSTANTS
  Functions <- MCNothing
  Generated <- MCGenerated
  Programs <- MCInPlacePrograms
  Consts = {"k1", "k2"}
  MaxSteps = 4
  Pools <- MCPools
  None = None
  MaxRun = 8
  MaxFree = 4
SPECIFICATION Spec
INVARIANT LocationsAgree
