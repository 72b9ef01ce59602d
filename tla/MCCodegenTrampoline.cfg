CONSTANTS
  Functions <- MCDiamond
  Generated <- MCGenerated
  Programs <- MCNothing
  Consts = {"k1", "k2"}
  MaxSteps = 4
  Pools <- MCPools
  None = None
  MaxRun = 8
  MaxFree = 4
SPECIFICATION Spec
INVARIANT DefInterferes
