SPECIFICATION Spec
CONSTANTS
  VReg = {11, 12, 13, 14}
  PReg = {p1, p2}
  None = None
  MaxPos = 4
INVARIANTS NoShare OnlyPotentialSpill SpillNeedsPressure Complete
PROPERTIES KeepsPromise
