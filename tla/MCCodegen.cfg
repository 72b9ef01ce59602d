CONSTANTS
  Functions <- MCLowered
  Generated <- MCGenerated
  Programs <- MCPrograms
  Consts = {"k1", "k2"}
  MaxSteps = 4
  Pools <- MCPools
  None = None
  MaxRun = 8
  MaxFree = 4
SPECIFICATION Spec
INVARIANTS EdgesArrive ReadsAgree BackEdgesAreLoops DefInterferes
INVARIANTS FreshApartUnlessStarved LocationsAgree
PROPERTY Terminates
